----------------------------- MODULE ViewProofs -----------------------------
(***************************************************************************)
(* What clients see: theorems about the read side, for every set of        *)
(* threads, keys, values and workloads.                                    *)
(*                                                                         *)
(* Requests go along their plans (Shape, Goes, Advances), which gives the  *)
(* types.  On top of that there is one inductive invariant for each of the *)
(* cache, the index and the watch stream.                                  *)
(***************************************************************************)
EXTENDS KindViews, FiniteSetTheorems, SequenceTheorems, WellFoundedInduction, TLAPS

(* The next access of a request, and its key.                              *)
Op(r) == r.plan[r.at].op
Key(r) == r.plan[r.at].key

(* Fields.                                                                 *)
Formed(r) ==
  /\ r = [kind |-> r.kind, plan |-> r.plan, at |-> r.at, writes |-> r.writes, todo |-> r.todo,
          old |-> r.old, set |-> r.set]
  /\ r.writes \in Writes /\ r.todo \subseteq {k \in Keys : r.writes[k] # None} /\ r.old \in DbRecord \cup {None} /\ r.set \in Nat
  /\ r.at \in 1..Len(r.plan) /\ DOMAIN r.plan = 1..Len(r.plan)

(* What the plans of each kind of request are.                             *)
PutShape(r) ==
  \E k \in Keys, rec \in DbRecord :
    r.writes = [NoWrites EXCEPT ![k] = rec] /\ r.plan = PutPlan(k, rec)

DeleteShape(r) ==
  \E k \in Keys : r.writes = [NoWrites EXCEPT ![k] = Gone] /\ r.plan = DeletePlan(k)

CasShape(r) ==
  \E k \in Keys, rec \in DbRecord, live \in BOOLEAN :
    r.writes = [NoWrites EXCEPT ![k] = rec] /\ r.plan = CasPlan(k, live)

TxShape(r) ==
  \/ r.plan = TxPlan \/ r.plan = TxDonePlan
  \/ \E k \in Keys : \/ r.writes[k] = Gone /\ r.plan = TxDeletePlan(k)
                     \/ r.writes[k] \in DbRecord /\ r.plan = TxPutPlan(k)

PurgeShape(r) == r.writes = NoWrites /\ \E k \in Keys : r.plan = PurgePlan(k)

(* Every request is one of these, somewhere along its plan.                *)
Shape(r) ==
  \/ r = NoRequest
  \/ /\ Formed(r)
     /\ \/ r.kind = "put" /\ PutShape(r)
        \/ r.kind = "delete" /\ DeleteShape(r)
        \/ r.kind = "cas" /\ CasShape(r)
        \/ r.kind = "tx" /\ TxShape(r)
        \/ r.kind = "purge" /\ PurgeShape(r)

(* The same request n accesses further on, about to do op.                 *)
Flow(r, n, op) ==
  LET q == Ahead(r, n)
  IN /\ Formed(q) /\ q.kind = r.kind /\ q.plan = r.plan /\ q.writes = r.writes /\ q.todo = r.todo
     /\ q.old = r.old /\ q.set = r.set /\ q.at = r.at + n
     /\ Op(q) = op /\ Key(q) = Key(r)

(* Moving along a plan whose accesses are to one key.                      *)
LEMMA AheadFlow ==
  ASSUME NEW r, Formed(r), NEW n \in Nat, r.at + n <= Len(r.plan), Len(r.plan) \in Nat,
         r.plan[r.at + n].key = Key(r)
  PROVE  Flow(r, n, r.plan[r.at + n].op)
<1>1. r.at \in Nat /\ ~(r.at + n > Len(r.plan)) /\ r.at + n \in 1..Len(r.plan)
  BY DEF Formed
<1>2. Ahead(r, n) = [r EXCEPT !.at = r.at + n]
  BY <1>1 DEF Ahead
<1> DEFINE q == Ahead(r, n)
<1>3. /\ q.kind = r.kind /\ q.plan = r.plan /\ q.writes = r.writes /\ q.todo = r.todo
      /\ q.old = r.old /\ q.set = r.set /\ q.at = r.at + n
      /\ q = [kind |-> q.kind, plan |-> q.plan, at |-> q.at, writes |-> q.writes, todo |-> q.todo,
              old |-> q.old, set |-> q.set]
  BY <1>2 DEF Formed
<1> HIDE DEF q
<1>4. Formed(q)
  BY <1>1, <1>3 DEF Formed
<1>5. Op(q) = r.plan[r.at + n].op /\ Key(q) = Key(r)
  BY <1>3 DEF Op, Key
<1> QED BY <1>3, <1>4, <1>5 DEF Flow, q

(* A plan of N accesses to one key, place by place.                        *)
OneKey(r, k, N) ==
  Len(r.plan) = N /\ DOMAIN r.plan = 1..N /\ \A i \in 1..N : r.plan[i].key = k

(* A plan made by Plan has one key, and its accesses are those listed.     *)
LEMMA PlanFlow ==
  ASSUME NEW r, Formed(r), NEW k, NEW N \in Nat, OneKey(r, k, N)
  PROVE  /\ r.at \in 1..N /\ Key(r) = k
         /\ \A i \in 1..N, n \in 0..3 : r.at = i /\ i + n <= N => Flow(r, n, r.plan[i + n].op)
         /\ r.at = N => Ahead(r, 1) = NoRequest
<1>1. r.at \in 1..N /\ Key(r) = k
  BY DEF Formed, Key, OneKey
<1>2. ASSUME NEW i \in 1..N, NEW n \in 0..3, r.at = i, i + n <= N
      PROVE  Flow(r, n, r.plan[i + n].op)
  <2>1. n \in Nat /\ r.at + n <= Len(r.plan) /\ Len(r.plan) \in Nat /\ r.at + n \in 1..N
    BY <1>2 DEF OneKey
  <2>2. r.plan[r.at + n].key = Key(r)
    BY <1>1, <2>1 DEF OneKey
  <2> QED BY <1>2, <2>1, <2>2, AheadFlow
<1>3. ASSUME r.at = N
      PROVE  Ahead(r, 1) = NoRequest
  <2>1. r.at + 1 > Len(r.plan)
    BY <1>1, <1>3 DEF OneKey
  <2> QED BY <2>1 DEF Ahead
<1> QED BY <1>1, <1>2, <1>3

(* The request has yet to log.                                             *)
Logs(r) == \E i \in DOMAIN r.plan : i >= r.at /\ r.plan[i].op = "log"

(* What follows the index update of a put.                                 *)
PutNext(r) == IF r.writes[Key(r)].expires_at = None THEN "fill" ELSE "log"

(* Where put is, along its plan.                                           *)
LEMMA PutFlow ==
  ASSUME NEW r, Formed(r), PutShape(r)
  PROVE  /\ Key(r) \in Keys /\ r.writes[Key(r)] \in DbRecord
         /\ r.writes = [NoWrites EXCEPT ![Key(r)] = r.writes[Key(r)]]
         /\ \A i \in DOMAIN r.plan : r.plan[i].key = Key(r)
         /\ Op(r) \in {"unindex", "lookup", "create", "add", "fill", "log", "insert", "notify"}
         /\ Op(r) = "unindex" => Flow(r, 1, "lookup")
         /\ Op(r) = "lookup" => Flow(r, 1, "create") /\ Flow(r, 2, "add") /\ Flow(r, 3, PutNext(r))
         /\ Op(r) = "create" => Flow(r, 1, "add")
         /\ Op(r) = "add" => Flow(r, 1, PutNext(r))
         /\ Op(r) = "fill" => Flow(r, 1, "log") /\ r.writes[Key(r)].expires_at = None
         /\ Op(r) = "log" => Flow(r, 1, "insert") /\ ~Logs(Ahead(r, 1))
         /\ Op(r) = "insert" => Flow(r, 1, "notify")
         /\ Op(r) = "notify" => Ahead(r, 1) = NoRequest
<1>1. PICK k \in Keys, rec \in DbRecord : r.writes = [NoWrites EXCEPT ![k] = rec] /\ r.plan = PutPlan(k, rec)
  BY DEF PutShape
<1>2. r.writes[k] = rec
  BY <1>1 DEF NoWrites
<1>3. CASE rec.expires_at = None
  <2>1. /\ Len(r.plan) = 8 /\ DOMAIN r.plan = 1..8 /\ \A i \in 1..8 : r.plan[i].key = k
        /\ r.plan[1].op = "unindex" /\ r.plan[2].op = "lookup"
        /\ r.plan[3].op = "create" /\ r.plan[4].op = "add"
        /\ r.plan[5].op = "fill" /\ r.plan[6].op = "log"
        /\ r.plan[7].op = "insert" /\ r.plan[8].op = "notify"
    BY <1>1, <1>3 DEF PutPlan, Plan
  <2>2. OneKey(r, k, 8)
    BY <2>1 DEF OneKey
  <2>3. /\ r.at \in 1..8 /\ Key(r) = k
        /\ \A i \in 1..8, n \in 0..3 : r.at = i /\ i + n <= 8 => Flow(r, n, r.plan[i + n].op)
        /\ r.at = 8 => Ahead(r, 1) = NoRequest
    BY <2>2, PlanFlow
  <2>4. /\ Op(r) \in {"unindex", "lookup", "create", "add", "fill", "log", "insert", "notify"}
        /\ Op(r) = "unindex" <=> r.at = 1
        /\ Op(r) = "lookup" <=> r.at = 2
        /\ Op(r) = "create" <=> r.at = 3
        /\ Op(r) = "add" <=> r.at = 4
        /\ Op(r) = "fill" <=> r.at = 5
        /\ Op(r) = "log" <=> r.at = 6
        /\ Op(r) = "insert" <=> r.at = 7
        /\ Op(r) = "notify" <=> r.at = 8
    BY <2>1, <2>3 DEF Op
  <2>5. /\ r.at = 1 => Flow(r, 1, "lookup")
        /\ r.at = 2 => Flow(r, 1, "create") /\ Flow(r, 2, "add") /\ Flow(r, 3, "fill")
        /\ r.at = 3 => Flow(r, 1, "add")
        /\ r.at = 4 => Flow(r, 1, "fill")
        /\ r.at = 5 => Flow(r, 1, "log")
        /\ r.at = 6 => Flow(r, 1, "insert")
        /\ r.at = 7 => Flow(r, 1, "notify")
    BY <2>1, <2>3
  <2>6. r.at = 6 => ~Logs(Ahead(r, 1))
    BY <2>1, <2>5 DEF Logs, Flow
  <2>7. PutNext(r) = "fill"
    BY <1>2, <1>3, <2>3 DEF PutNext
  <2> QED BY <1>1, <1>2, <1>3, <2>1, <2>3, <2>4, <2>5, <2>6, <2>7
<1>4. CASE rec.expires_at # None
  <2>1. /\ Len(r.plan) = 7 /\ DOMAIN r.plan = 1..7 /\ \A i \in 1..7 : r.plan[i].key = k
        /\ r.plan[1].op = "unindex" /\ r.plan[2].op = "lookup"
        /\ r.plan[3].op = "create" /\ r.plan[4].op = "add"
        /\ r.plan[5].op = "log" /\ r.plan[6].op = "insert"
        /\ r.plan[7].op = "notify"
    BY <1>1, <1>4 DEF PutPlan, Plan
  <2>2. OneKey(r, k, 7)
    BY <2>1 DEF OneKey
  <2>3. /\ r.at \in 1..7 /\ Key(r) = k
        /\ \A i \in 1..7, n \in 0..3 : r.at = i /\ i + n <= 7 => Flow(r, n, r.plan[i + n].op)
        /\ r.at = 7 => Ahead(r, 1) = NoRequest
    BY <2>2, PlanFlow
  <2>4. /\ Op(r) \in {"unindex", "lookup", "create", "add", "log", "insert", "notify"}
        /\ Op(r) = "unindex" <=> r.at = 1
        /\ Op(r) = "lookup" <=> r.at = 2
        /\ Op(r) = "create" <=> r.at = 3
        /\ Op(r) = "add" <=> r.at = 4
        /\ Op(r) = "log" <=> r.at = 5
        /\ Op(r) = "insert" <=> r.at = 6
        /\ Op(r) = "notify" <=> r.at = 7
    BY <2>1, <2>3 DEF Op
  <2>5. /\ r.at = 1 => Flow(r, 1, "lookup")
        /\ r.at = 2 => Flow(r, 1, "create") /\ Flow(r, 2, "add") /\ Flow(r, 3, "log")
        /\ r.at = 3 => Flow(r, 1, "add")
        /\ r.at = 4 => Flow(r, 1, "log")
        /\ r.at = 5 => Flow(r, 1, "insert")
        /\ r.at = 6 => Flow(r, 1, "notify")
    BY <2>1, <2>3
  <2>6. r.at = 5 => ~Logs(Ahead(r, 1))
    BY <2>1, <2>5 DEF Logs, Flow
  <2>7. PutNext(r) = "log"
    BY <1>2, <1>4, <2>3 DEF PutNext
  <2> QED BY <1>1, <1>2, <1>4, <2>1, <2>3, <2>4, <2>5, <2>6, <2>7
<1> QED BY <1>3, <1>4

(* The same for delete ...                                                 *)
LEMMA DeleteFlow ==
  ASSUME NEW r, Formed(r), DeleteShape(r)
  PROVE  /\ Key(r) \in Keys /\ r.writes = [NoWrites EXCEPT ![Key(r)] = Gone]
         /\ \A i \in DOMAIN r.plan : r.plan[i].key = Key(r)
         /\ Op(r) \in {"unindex", "remove", "invalidate", "log", "notify"}
         /\ Op(r) = "unindex" => Flow(r, 1, "remove")
         /\ Op(r) = "remove" => Flow(r, 1, "invalidate")
         /\ Op(r) = "invalidate" => Flow(r, 1, "log")
         /\ Op(r) = "log" => Flow(r, 1, "notify") /\ ~Logs(Ahead(r, 1))
         /\ Op(r) = "notify" => Ahead(r, 1) = NoRequest
<1>0. PICK k \in Keys : r.writes = [NoWrites EXCEPT ![k] = Gone] /\ r.plan = DeletePlan(k)
  BY DEF DeleteShape
<1>1. /\ Len(r.plan) = 5 /\ DOMAIN r.plan = 1..5 /\ \A i \in 1..5 : r.plan[i].key = k
      /\ r.plan[1].op = "unindex" /\ r.plan[2].op = "remove"
      /\ r.plan[3].op = "invalidate" /\ r.plan[4].op = "log"
      /\ r.plan[5].op = "notify"
  BY <1>0 DEF DeletePlan, Plan
<1>2. OneKey(r, k, 5)
  BY <1>1 DEF OneKey
<1>3. /\ r.at \in 1..5 /\ Key(r) = k
      /\ \A i \in 1..5, n \in 0..3 : r.at = i /\ i + n <= 5 => Flow(r, n, r.plan[i + n].op)
      /\ r.at = 5 => Ahead(r, 1) = NoRequest
  BY <1>2, PlanFlow
<1>4. /\ Op(r) \in {"unindex", "remove", "invalidate", "log", "notify"}
      /\ Op(r) = "unindex" <=> r.at = 1
      /\ Op(r) = "remove" <=> r.at = 2
      /\ Op(r) = "invalidate" <=> r.at = 3
      /\ Op(r) = "log" <=> r.at = 4
      /\ Op(r) = "notify" <=> r.at = 5
  BY <1>1, <1>3 DEF Op
<1>5. /\ r.at = 1 => Flow(r, 1, "remove")
      /\ r.at = 2 => Flow(r, 1, "invalidate")
      /\ r.at = 3 => Flow(r, 1, "log")
      /\ r.at = 4 => Flow(r, 1, "notify")
  BY <1>1, <1>3
<1>6. r.at = 4 => ~Logs(Ahead(r, 1))
  BY <1>1, <1>5 DEF Logs, Flow
<1> QED BY <1>0, <1>1, <1>3, <1>4, <1>5, <1>6

(* ... for cas, on either plan ...                                         *)
LEMMA CasFlow ==
  ASSUME NEW r, Formed(r), CasShape(r)
  PROVE  /\ Key(r) \in Keys /\ r.writes[Key(r)] \in DbRecord
         /\ r.writes = [NoWrites EXCEPT ![Key(r)] = r.writes[Key(r)]]
         /\ \A i \in DOMAIN r.plan : r.plan[i].key = Key(r)
         /\ Op(r) \in {"unindex", "lookup", "create", "add", "invalidate", "log", "insert", "notify", "unlock"}
         /\ Op(r) = "unindex" => Flow(r, 1, "lookup")
         /\ Op(r) = "lookup" => Flow(r, 1, "create") /\ Flow(r, 2, "add") /\ Flow(r, 3, "invalidate")
         /\ Op(r) = "create" => Flow(r, 1, "add")
         /\ Op(r) = "add" => Flow(r, 1, "invalidate")
         /\ Op(r) = "invalidate" => Flow(r, 1, "log")
         /\ Op(r) = "log" => Flow(r, 1, "insert") /\ ~Logs(Ahead(r, 1))
         /\ Op(r) = "insert" => Flow(r, 1, "notify")
         /\ Op(r) = "notify" => Flow(r, 1, "unlock")
         /\ Op(r) = "unlock" => Ahead(r, 1) = NoRequest
<1>1. PICK k \in Keys, rec \in DbRecord, live \in BOOLEAN :
        r.writes = [NoWrites EXCEPT ![k] = rec] /\ r.plan = CasPlan(k, live)
  BY DEF CasShape
<1>2. r.writes[k] = rec
  BY <1>1 DEF NoWrites
<1>3. CASE live
  <2>1. /\ Len(r.plan) = 9 /\ DOMAIN r.plan = 1..9 /\ \A i \in 1..9 : r.plan[i].key = k
        /\ r.plan[1].op = "unindex" /\ r.plan[2].op = "lookup"
        /\ r.plan[3].op = "create" /\ r.plan[4].op = "add"
        /\ r.plan[5].op = "invalidate" /\ r.plan[6].op = "log"
        /\ r.plan[7].op = "insert" /\ r.plan[8].op = "notify"
        /\ r.plan[9].op = "unlock"
    BY <1>1, <1>3 DEF CasPlan, Plan
  <2>2. OneKey(r, k, 9)
    BY <2>1 DEF OneKey
  <2>3. /\ r.at \in 1..9 /\ Key(r) = k
        /\ \A i \in 1..9, n \in 0..3 : r.at = i /\ i + n <= 9 => Flow(r, n, r.plan[i + n].op)
        /\ r.at = 9 => Ahead(r, 1) = NoRequest
    BY <2>2, PlanFlow
  <2>4. /\ Op(r) \in {"unindex", "lookup", "create", "add", "invalidate", "log", "insert", "notify", "unlock"}
        /\ Op(r) = "unindex" <=> r.at = 1
        /\ Op(r) = "lookup" <=> r.at = 2
        /\ Op(r) = "create" <=> r.at = 3
        /\ Op(r) = "add" <=> r.at = 4
        /\ Op(r) = "invalidate" <=> r.at = 5
        /\ Op(r) = "log" <=> r.at = 6
        /\ Op(r) = "insert" <=> r.at = 7
        /\ Op(r) = "notify" <=> r.at = 8
        /\ Op(r) = "unlock" <=> r.at = 9
    BY <2>1, <2>3 DEF Op
  <2>5. /\ r.at = 1 => Flow(r, 1, "lookup")
        /\ r.at = 2 => Flow(r, 1, "create") /\ Flow(r, 2, "add") /\ Flow(r, 3, "invalidate")
        /\ r.at = 3 => Flow(r, 1, "add")
        /\ r.at = 4 => Flow(r, 1, "invalidate")
        /\ r.at = 5 => Flow(r, 1, "log")
        /\ r.at = 6 => Flow(r, 1, "insert")
        /\ r.at = 7 => Flow(r, 1, "notify")
        /\ r.at = 8 => Flow(r, 1, "unlock")
    BY <2>1, <2>3
  <2>6. r.at = 6 => ~Logs(Ahead(r, 1))
    BY <2>1, <2>5 DEF Logs, Flow
  <2> QED BY <1>1, <1>2, <2>1, <2>3, <2>4, <2>5, <2>6
<1>4. CASE ~live
  <2>1. /\ Len(r.plan) = 8 /\ DOMAIN r.plan = 1..8 /\ \A i \in 1..8 : r.plan[i].key = k
        /\ r.plan[1].op = "lookup" /\ r.plan[2].op = "create"
        /\ r.plan[3].op = "add" /\ r.plan[4].op = "invalidate"
        /\ r.plan[5].op = "log" /\ r.plan[6].op = "insert"
        /\ r.plan[7].op = "notify" /\ r.plan[8].op = "unlock"
    BY <1>1, <1>4 DEF CasPlan, Plan
  <2>2. OneKey(r, k, 8)
    BY <2>1 DEF OneKey
  <2>3. /\ r.at \in 1..8 /\ Key(r) = k
        /\ \A i \in 1..8, n \in 0..3 : r.at = i /\ i + n <= 8 => Flow(r, n, r.plan[i + n].op)
        /\ r.at = 8 => Ahead(r, 1) = NoRequest
    BY <2>2, PlanFlow
  <2>4. /\ Op(r) \in {"lookup", "create", "add", "invalidate", "log", "insert", "notify", "unlock"}
        /\ Op(r) = "lookup" <=> r.at = 1
        /\ Op(r) = "create" <=> r.at = 2
        /\ Op(r) = "add" <=> r.at = 3
        /\ Op(r) = "invalidate" <=> r.at = 4
        /\ Op(r) = "log" <=> r.at = 5
        /\ Op(r) = "insert" <=> r.at = 6
        /\ Op(r) = "notify" <=> r.at = 7
        /\ Op(r) = "unlock" <=> r.at = 8
    BY <2>1, <2>3 DEF Op
  <2>5. /\ r.at = 1 => Flow(r, 1, "create") /\ Flow(r, 2, "add") /\ Flow(r, 3, "invalidate")
        /\ r.at = 2 => Flow(r, 1, "add")
        /\ r.at = 3 => Flow(r, 1, "invalidate")
        /\ r.at = 4 => Flow(r, 1, "log")
        /\ r.at = 5 => Flow(r, 1, "insert")
        /\ r.at = 6 => Flow(r, 1, "notify")
        /\ r.at = 7 => Flow(r, 1, "unlock")
    BY <2>1, <2>3
  <2>6. r.at = 5 => ~Logs(Ahead(r, 1))
    BY <2>1, <2>5 DEF Logs, Flow
  <2> QED BY <1>1, <1>2, <2>1, <2>3, <2>4, <2>5, <2>6
<1> QED BY <1>3, <1>4

(* ... for the parts of a commit ...                                       *)
TxFlows(r) ==
  /\ \A i \in DOMAIN r.plan : r.plan[i].key = Key(r)
  /\ Op(r) \in {"log", "next", "unlock", "read", "unindex", "insert", "remove", "lookup", "create", "add", "notify", "invalidate"}
  /\ Op(r) \in {"log", "unlock"} => Key(r) = None
  /\ Op(r) \notin {"log", "next", "unlock"} => Key(r) \in Keys /\ r.writes[Key(r)] \in DbRecord \cup {Gone}
  /\ Op(r) \in {"insert", "lookup", "create", "add"} => r.writes[Key(r)] \in DbRecord
  /\ Op(r) = "remove" => r.writes[Key(r)] = Gone
  /\ Op(r) # "log" => ~Logs(r)
  /\ Op(r) = "log" => Flow(r, 1, "next") /\ ~Logs(Ahead(r, 1))
  /\ Op(r) = "read" => Flow(r, 1, "unindex")
  /\ Op(r) = "unindex" => Flow(r, 1, IF r.writes[Key(r)] = Gone THEN "remove" ELSE "insert")
  /\ Op(r) = "insert" => Flow(r, 1, "lookup")
  /\ Op(r) = "lookup" => Flow(r, 1, "create") /\ Flow(r, 2, "add") /\ Flow(r, 3, "notify")
  /\ Op(r) = "create" => Flow(r, 1, "add")
  /\ Op(r) = "add" => Flow(r, 1, "notify")
  /\ Op(r) = "remove" => Flow(r, 1, "notify")
  /\ Op(r) = "notify" => Flow(r, 1, "invalidate")
  /\ Op(r) = "invalidate" => Flow(r, 1, "next")
  /\ Op(r) = "unlock" => Ahead(r, 1) = NoRequest

(* ... which its plans have ...                                            *)
LEMMA TxFlow ==
  ASSUME NEW r, Formed(r), TxShape(r)
  PROVE  TxFlows(r)
<1>1. CASE r.plan = TxPlan
  <2>1. /\ Len(r.plan) = 2 /\ DOMAIN r.plan = 1..2 /\ \A i \in 1..2 : r.plan[i].key = None
        /\ r.plan[1].op = "log" /\ r.plan[2].op = "next"
    BY <1>1 DEF TxPlan, Plan
  <2>2. OneKey(r, None, 2)
    BY <2>1 DEF OneKey
  <2>3. /\ r.at \in 1..2 /\ Key(r) = None
        /\ \A i \in 1..2, n \in 0..3 : r.at = i /\ i + n <= 2 => Flow(r, n, r.plan[i + n].op)
        /\ r.at = 2 => Ahead(r, 1) = NoRequest
    BY <2>2, PlanFlow
  <2>4. /\ Op(r) \in {"log", "next"}
        /\ Op(r) = "log" <=> r.at = 1
        /\ Op(r) = "next" <=> r.at = 2
    BY <2>1, <2>3 DEF Op
  <2>5. /\ r.at = 1 => Flow(r, 1, "next")
    BY <2>1, <2>3
  <2>6. r.at = 1 => ~Logs(Ahead(r, 1))
    BY <2>1, <2>5 DEF Logs, Flow
  <2>7. Op(r) # "log" => ~Logs(r)
    BY <2>1, <2>3, <2>4 DEF Logs
  <2> QED BY <2>1, <2>3, <2>4, <2>5, <2>6, <2>7 DEF TxFlows
<1>2. CASE r.plan = TxDonePlan
  <2>1. /\ Len(r.plan) = 1 /\ DOMAIN r.plan = 1..1 /\ \A i \in 1..1 : r.plan[i].key = None
        /\ r.plan[1].op = "unlock"
    BY <1>2 DEF TxDonePlan, Plan
  <2>2. OneKey(r, None, 1)
    BY <2>1 DEF OneKey
  <2>3. /\ r.at \in 1..1 /\ Key(r) = None
        /\ \A i \in 1..1, n \in 0..3 : r.at = i /\ i + n <= 1 => Flow(r, n, r.plan[i + n].op)
        /\ r.at = 1 => Ahead(r, 1) = NoRequest
    BY <2>2, PlanFlow
  <2>4. /\ Op(r) \in {"unlock"}
        /\ Op(r) = "unlock" <=> r.at = 1
    BY <2>1, <2>3 DEF Op
  <2>7. ~Logs(r)
    BY <2>1, <2>3 DEF Logs
  <2> QED BY <2>1, <2>3, <2>4, <2>7 DEF TxFlows
<1>3. ASSUME NEW k \in Keys, r.writes[k] = Gone, r.plan = TxDeletePlan(k)
      PROVE  TxFlows(r)
  <2>1. /\ Len(r.plan) = 6 /\ DOMAIN r.plan = 1..6 /\ \A i \in 1..6 : r.plan[i].key = k
        /\ r.plan[1].op = "read" /\ r.plan[2].op = "unindex"
        /\ r.plan[3].op = "remove" /\ r.plan[4].op = "notify"
        /\ r.plan[5].op = "invalidate" /\ r.plan[6].op = "next"
    BY <1>3 DEF TxDeletePlan, Plan
  <2>2. OneKey(r, k, 6)
    BY <2>1 DEF OneKey
  <2>3. /\ r.at \in 1..6 /\ Key(r) = k
        /\ \A i \in 1..6, n \in 0..3 : r.at = i /\ i + n <= 6 => Flow(r, n, r.plan[i + n].op)
        /\ r.at = 6 => Ahead(r, 1) = NoRequest
    BY <2>2, PlanFlow
  <2>4. /\ Op(r) \in {"read", "unindex", "remove", "notify", "invalidate", "next"}
        /\ Op(r) = "read" <=> r.at = 1
        /\ Op(r) = "unindex" <=> r.at = 2
        /\ Op(r) = "remove" <=> r.at = 3
        /\ Op(r) = "notify" <=> r.at = 4
        /\ Op(r) = "invalidate" <=> r.at = 5
        /\ Op(r) = "next" <=> r.at = 6
    BY <2>1, <2>3 DEF Op
  <2>5. /\ r.at = 1 => Flow(r, 1, "unindex")
        /\ r.at = 2 => Flow(r, 1, "remove")
        /\ r.at = 3 => Flow(r, 1, "notify")
        /\ r.at = 4 => Flow(r, 1, "invalidate")
        /\ r.at = 5 => Flow(r, 1, "next")
    BY <2>1, <2>3
  <2>7. ~Logs(r)
    BY <2>1, <2>3 DEF Logs
  <2> QED BY <1>3, <2>1, <2>3, <2>4, <2>5, <2>7 DEF TxFlows
<1>4. ASSUME NEW k \in Keys, r.writes[k] \in DbRecord, r.plan = TxPutPlan(k)
      PROVE  TxFlows(r)
  <2>1. /\ Len(r.plan) = 9 /\ DOMAIN r.plan = 1..9 /\ \A i \in 1..9 : r.plan[i].key = k
        /\ r.plan[1].op = "read" /\ r.plan[2].op = "unindex"
        /\ r.plan[3].op = "insert" /\ r.plan[4].op = "lookup"
        /\ r.plan[5].op = "create" /\ r.plan[6].op = "add"
        /\ r.plan[7].op = "notify" /\ r.plan[8].op = "invalidate"
        /\ r.plan[9].op = "next"
    BY <1>4 DEF TxPutPlan, Plan
  <2>2. OneKey(r, k, 9)
    BY <2>1 DEF OneKey
  <2>3. /\ r.at \in 1..9 /\ Key(r) = k
        /\ \A i \in 1..9, n \in 0..3 : r.at = i /\ i + n <= 9 => Flow(r, n, r.plan[i + n].op)
        /\ r.at = 9 => Ahead(r, 1) = NoRequest
    BY <2>2, PlanFlow
  <2>4. /\ Op(r) \in {"read", "unindex", "insert", "lookup", "create", "add", "notify", "invalidate", "next"}
        /\ Op(r) = "read" <=> r.at = 1
        /\ Op(r) = "unindex" <=> r.at = 2
        /\ Op(r) = "insert" <=> r.at = 3
        /\ Op(r) = "lookup" <=> r.at = 4
        /\ Op(r) = "create" <=> r.at = 5
        /\ Op(r) = "add" <=> r.at = 6
        /\ Op(r) = "notify" <=> r.at = 7
        /\ Op(r) = "invalidate" <=> r.at = 8
        /\ Op(r) = "next" <=> r.at = 9
    BY <2>1, <2>3 DEF Op
  <2>5. /\ r.at = 1 => Flow(r, 1, "unindex")
        /\ r.at = 2 => Flow(r, 1, "insert")
        /\ r.at = 3 => Flow(r, 1, "lookup")
        /\ r.at = 4 => Flow(r, 1, "create") /\ Flow(r, 2, "add") /\ Flow(r, 3, "notify")
        /\ r.at = 5 => Flow(r, 1, "add")
        /\ r.at = 6 => Flow(r, 1, "notify")
        /\ r.at = 7 => Flow(r, 1, "invalidate")
        /\ r.at = 8 => Flow(r, 1, "next")
    BY <2>1, <2>3
  <2>7. ~Logs(r)
    BY <2>1, <2>3 DEF Logs
  <2>8. r.writes[k] # Gone
    BY <1>4, ViewsAssumption DEF DbRecord, Gone
  <2> QED BY <1>4, <2>1, <2>3, <2>4, <2>5, <2>7, <2>8 DEF TxFlows
<1> QED BY <1>1, <1>2, <1>3, <1>4 DEF TxShape

(* ... and for the removal of an expired record.                           *)
LEMMA PurgeFlow ==
  ASSUME NEW r, Formed(r), PurgeShape(r)
  PROVE  /\ Key(r) \in Keys /\ r.writes = NoWrites
         /\ \A i \in DOMAIN r.plan : r.plan[i].key = Key(r)
         /\ Op(r) \in {"unindex", "remove"}
         /\ Op(r) = "unindex" => Flow(r, 1, "remove")
         /\ Op(r) = "remove" => Ahead(r, 1) = NoRequest
<1>0. PICK k \in Keys : r.plan = PurgePlan(k)
  BY DEF PurgeShape
<1>1. /\ Len(r.plan) = 2 /\ DOMAIN r.plan = 1..2 /\ \A i \in 1..2 : r.plan[i].key = k
      /\ r.plan[1].op = "unindex" /\ r.plan[2].op = "remove"
  BY <1>0 DEF PurgePlan, Plan
<1>2. OneKey(r, k, 2)
  BY <1>1 DEF OneKey
<1>3. /\ r.at \in 1..2 /\ Key(r) = k
      /\ \A i \in 1..2, n \in 0..3 : r.at = i /\ i + n <= 2 => Flow(r, n, r.plan[i + n].op)
      /\ r.at = 2 => Ahead(r, 1) = NoRequest
  BY <1>2, PlanFlow
<1>4. /\ Op(r) \in {"unindex", "remove"}
      /\ Op(r) = "unindex" <=> r.at = 1
      /\ Op(r) = "remove" <=> r.at = 2
  BY <1>1, <1>3 DEF Op
<1>5. /\ r.at = 1 => Flow(r, 1, "remove")
  BY <1>1, <1>3
<1> QED BY <1>0, <1>1, <1>3, <1>4, <1>5 DEF PurgeShape

(* q is the request r, about to do op.                                     *)
Moved(r, q, op) ==
  /\ Shape(q) /\ q # NoRequest /\ q.kind = r.kind /\ q.writes = r.writes /\ q.todo = r.todo
  /\ Key(q) = Key(r) /\ Op(q) = op /\ (Logs(q) => Logs(r))

(* A request further along its plan still has its shape.                   *)
LEMMA FlowMoved ==
  ASSUME NEW r, Shape(r), r # NoRequest, NEW n \in Nat, NEW op, Flow(r, n, op)
  PROVE  Moved(r, Ahead(r, n), op)
<1> DEFINE q == Ahead(r, n)
<1>1. /\ Formed(q) /\ q.kind = r.kind /\ q.plan = r.plan /\ q.writes = r.writes /\ q.todo = r.todo
      /\ q.at = r.at + n /\ Op(q) = op /\ Key(q) = Key(r)
  BY DEF Flow
<1> HIDE DEF q
<1>2. Formed(r)
  BY DEF Shape
<1>3. Shape(q)
  BY <1>1 DEF Shape, PutShape, DeleteShape, CasShape, TxShape, PurgeShape
<1>4. q # NoRequest
  BY <1>1 DEF Formed, NoRequest
<1>5. r.at \in Nat
  BY <1>2 DEF Formed
<1>6. ASSUME Logs(q) PROVE Logs(r)
  <2>1. PICK i \in DOMAIN r.plan : i >= r.at + n /\ r.plan[i].op = "log"
    BY <1>1, <1>6 DEF Logs
  <2>2. i \in Int
    BY <1>2 DEF Formed
  <2> QED BY <1>5, <2>1, <2>2 DEF Logs
<1> QED BY <1>1, <1>3, <1>4, <1>6 DEF Moved, q

(* What each kind of request does next.                                    *)
PutGoes(r) ==
  /\ Key(r) \in Keys /\ r.writes[Key(r)] \in DbRecord /\ r.writes = [NoWrites EXCEPT ![Key(r)] = r.writes[Key(r)]]
  /\ Op(r) \in {"unindex", "lookup", "create", "add", "fill", "log", "insert", "notify"}
  /\ Op(r) = "unindex" => Moved(r, Ahead(r, 1), "lookup")
  /\ Op(r) = "lookup" =>
       Moved(r, Ahead(r, 1), "create") /\ Moved(r, Ahead(r, 2), "add") /\ Moved(r, Ahead(r, 3), PutNext(r))
  /\ Op(r) = "create" => Moved(r, Ahead(r, 1), "add")
  /\ Op(r) = "add" => Moved(r, Ahead(r, 1), PutNext(r))
  /\ Op(r) = "fill" => Moved(r, Ahead(r, 1), "log") /\ r.writes[Key(r)].expires_at = None
  /\ Op(r) = "log" => Moved(r, Ahead(r, 1), "insert") /\ ~Logs(Ahead(r, 1))
  /\ Op(r) = "insert" => Moved(r, Ahead(r, 1), "notify")
  /\ Op(r) = "notify" => Ahead(r, 1) = NoRequest

DeleteGoes(r) ==
  /\ Key(r) \in Keys /\ r.writes = [NoWrites EXCEPT ![Key(r)] = Gone]
  /\ Op(r) \in {"unindex", "remove", "invalidate", "log", "notify"}
  /\ Op(r) = "unindex" => Moved(r, Ahead(r, 1), "remove")
  /\ Op(r) = "remove" => Moved(r, Ahead(r, 1), "invalidate")
  /\ Op(r) = "invalidate" => Moved(r, Ahead(r, 1), "log")
  /\ Op(r) = "log" => Moved(r, Ahead(r, 1), "notify") /\ ~Logs(Ahead(r, 1))
  /\ Op(r) = "notify" => Ahead(r, 1) = NoRequest

CasGoes(r) ==
  /\ Key(r) \in Keys /\ r.writes[Key(r)] \in DbRecord /\ r.writes = [NoWrites EXCEPT ![Key(r)] = r.writes[Key(r)]]
  /\ Op(r) \in {"unindex", "lookup", "create", "add", "invalidate", "log", "insert", "notify", "unlock"}
  /\ Op(r) = "unindex" => Moved(r, Ahead(r, 1), "lookup")
  /\ Op(r) = "lookup" =>
       Moved(r, Ahead(r, 1), "create") /\ Moved(r, Ahead(r, 2), "add") /\ Moved(r, Ahead(r, 3), "invalidate")
  /\ Op(r) = "create" => Moved(r, Ahead(r, 1), "add")
  /\ Op(r) = "add" => Moved(r, Ahead(r, 1), "invalidate")
  /\ Op(r) = "invalidate" => Moved(r, Ahead(r, 1), "log")
  /\ Op(r) = "log" => Moved(r, Ahead(r, 1), "insert") /\ ~Logs(Ahead(r, 1))
  /\ Op(r) = "insert" => Moved(r, Ahead(r, 1), "notify")
  /\ Op(r) = "notify" => Moved(r, Ahead(r, 1), "unlock")
  /\ Op(r) = "unlock" => Ahead(r, 1) = NoRequest

TxGoes(r) ==
  /\ Op(r) \in {"log", "next", "unlock", "read", "unindex", "insert", "remove", "lookup", "create", "add",
                "notify", "invalidate"}
  /\ Op(r) \in {"log", "unlock"} => Key(r) = None
  /\ Op(r) \notin {"log", "next", "unlock"} => Key(r) \in Keys /\ r.writes[Key(r)] \in DbRecord \cup {Gone}
  /\ Op(r) \in {"insert", "lookup", "create", "add"} => r.writes[Key(r)] \in DbRecord
  /\ Op(r) = "remove" => r.writes[Key(r)] = Gone
  /\ Op(r) # "log" => ~Logs(r)
  /\ Op(r) = "log" => Moved(r, Ahead(r, 1), "next") /\ ~Logs(Ahead(r, 1))
  /\ Op(r) = "read" => Moved(r, Ahead(r, 1), "unindex")
  /\ Op(r) = "unindex" => Moved(r, Ahead(r, 1), IF r.writes[Key(r)] = Gone THEN "remove" ELSE "insert")
  /\ Op(r) = "insert" => Moved(r, Ahead(r, 1), "lookup")
  /\ Op(r) = "lookup" =>
       Moved(r, Ahead(r, 1), "create") /\ Moved(r, Ahead(r, 2), "add") /\ Moved(r, Ahead(r, 3), "notify")
  /\ Op(r) = "create" => Moved(r, Ahead(r, 1), "add")
  /\ Op(r) = "add" => Moved(r, Ahead(r, 1), "notify")
  /\ Op(r) = "remove" => Moved(r, Ahead(r, 1), "notify")
  /\ Op(r) = "notify" => Moved(r, Ahead(r, 1), "invalidate")
  /\ Op(r) = "invalidate" => Moved(r, Ahead(r, 1), "next")
  /\ Op(r) = "unlock" => Ahead(r, 1) = NoRequest

PurgeGoes(r) ==
  /\ Key(r) \in Keys /\ r.writes = NoWrites
  /\ Op(r) \in {"unindex", "remove"}
  /\ Op(r) = "unindex" => Moved(r, Ahead(r, 1), "remove")
  /\ Op(r) = "remove" => Ahead(r, 1) = NoRequest

(* What any request does next.                                             *)
Goes(r) ==
  /\ Formed(r) /\ \A i \in DOMAIN r.plan : r.plan[i].key = Key(r)
  /\ r.kind \in {"put", "delete", "cas", "tx", "purge"}
  /\ (r.kind = "put" => PutGoes(r)) /\ (r.kind = "delete" => DeleteGoes(r)) /\ (r.kind = "cas" => CasGoes(r))
  /\ (r.kind = "tx" => TxGoes(r)) /\ (r.kind = "purge" => PurgeGoes(r))
  /\ \A n \in 1..3 : Ahead(r, n) # NoRequest => Ahead(r, n).old = r.old /\ Ahead(r, n).set = r.set

(* A request with its shape does next what its kind does next.             *)
LEMMA ShapeGoes ==
  ASSUME NEW r, Shape(r), r # NoRequest
  PROVE  Goes(r)
<1>1. \A op : \A n \in {1, 2, 3} : Flow(r, n, op) => Moved(r, Ahead(r, n), op)
  BY FlowMoved
<1>2. Formed(r)
  BY DEF Shape
<1>3. \A n \in 1..3 : Ahead(r, n) # NoRequest => Ahead(r, n).old = r.old /\ Ahead(r, n).set = r.set
  BY <1>2 DEF Ahead, Formed
<1>4. CASE r.kind = "put"
  <2>1. PutShape(r)
    BY <1>4 DEF Shape
  <2>2. PutGoes(r) /\ \A i \in DOMAIN r.plan : r.plan[i].key = Key(r)
    BY <1>1, <1>2, <2>1, PutFlow DEF PutGoes
  <2> QED BY <1>2, <1>3, <1>4, <2>2 DEF Goes
<1>5. CASE r.kind = "delete"
  <2>1. DeleteShape(r)
    BY <1>5 DEF Shape
  <2>2. DeleteGoes(r) /\ \A i \in DOMAIN r.plan : r.plan[i].key = Key(r)
    BY <1>1, <1>2, <2>1, DeleteFlow DEF DeleteGoes
  <2> QED BY <1>2, <1>3, <1>5, <2>2 DEF Goes
<1>6. CASE r.kind = "cas"
  <2>1. CasShape(r)
    BY <1>6 DEF Shape
  <2>2. CasGoes(r) /\ \A i \in DOMAIN r.plan : r.plan[i].key = Key(r)
    BY <1>1, <1>2, <2>1, CasFlow DEF CasGoes
  <2> QED BY <1>2, <1>3, <1>6, <2>2 DEF Goes
<1>7. CASE r.kind = "tx"
  <2>1. TxShape(r)
    BY <1>7 DEF Shape
  <2>2. TxGoes(r) /\ \A i \in DOMAIN r.plan : r.plan[i].key = Key(r)
    BY <1>1, <1>2, <2>1, TxFlow DEF TxGoes, TxFlows
  <2> QED BY <1>2, <1>3, <1>7, <2>2 DEF Goes
<1>8. CASE r.kind = "purge"
  <2>1. PurgeShape(r)
    BY <1>8 DEF Shape
  <2>2. PurgeGoes(r) /\ \A i \in DOMAIN r.plan : r.plan[i].key = Key(r)
    BY <1>1, <1>2, <2>1, PurgeFlow DEF PurgeGoes
  <2> QED BY <1>2, <1>3, <1>8, <2>2 DEF Goes
<1> QED BY <1>4, <1>5, <1>6, <1>7, <1>8 DEF Shape
-----------------------------------------------------------------------------
(* new's loop over the log.                                                *)

(* A set of numbers that is not empty has a least element.                 *)
LEMMA LeastNumber ==
  ASSUME NEW T \in SUBSET Nat, T # {}
  PROVE  \E x \in T : \A y \in T : x <= y
<1> DEFINE R == OpToRel(<, Nat)
<1>1. IsWellFoundedOn(R, Nat)
  BY NatLessThanWellFounded
<1>2. \A x, y \in Nat : y < x => <<y, x>> \in R
  BY DEF OpToRel
<1> HIDE DEF R
<1>3. PICK x \in T : \A y \in T : ~(<<y, x>> \in R)
  BY <1>1, WFMin
<1>4. \A y \in T : y \in Nat /\ x \in Nat /\ ~(y < x)
  BY <1>2, <1>3
<1> QED BY <1>4

(* g is the loop's state after each of the first n commands.               *)
Loop(g, n) == g = [m \in 0..n |-> IF m = 0 THEN EmptyViews ELSE Replayed(g[m - 1], log[m])]

(* There are such states, so that Rebuilt is what its equation says.       *)
LEMMA RebuiltLoops ==
  ASSUME log \in Seq(Writes)
  PROVE  Loop(Rebuilt, Len(log))
<1> DEFINE T == {n \in Nat : ~\E g : Loop(g, n)}
<1>1. T = {}
  <2> SUFFICES ASSUME T # {} PROVE FALSE
    OBVIOUS
  <2>1. PICK n \in T : \A y \in T : n <= y
    BY LeastNumber
  <2>2. n # 0
    <3> DEFINE g == [m \in 0..0 |-> EmptyViews]
    <3>1. Loop(g, 0)
      BY DEF Loop
    <3> QED BY <2>1, <3>1
  <2>3. n - 1 \in Nat /\ ~(n - 1 \in T)
    BY <2>1, <2>2
  <2>4. PICK g : Loop(g, n - 1)
    BY <2>3
  <2> DEFINE h == [m \in 0..n |-> IF m = n THEN Replayed(g[n - 1], log[n]) ELSE g[m]]
             F == [m \in 0..n |-> IF m = 0 THEN EmptyViews ELSE Replayed(h[m - 1], log[m])]
  <2>5. ASSUME NEW m \in 0..n
        PROVE  h[m] = F[m]
    <3>1. CASE m = n
      <4>1. m - 1 \in 0..n /\ m - 1 # n /\ m - 1 = n - 1 /\ m # 0
        BY <2>1, <2>2, <3>1
      <4>2. h[m - 1] = g[n - 1]
        BY <4>1
      <4>3. F[m] = Replayed(h[m - 1], log[m])
        BY <4>1
      <4> QED BY <3>1, <4>2, <4>3
    <3>2. CASE m # n
      <4>1. m \in 0..(n - 1) /\ (m # 0 => m - 1 \in 0..n /\ m - 1 # n)
        BY <2>1, <3>2
      <4>2. g[m] = IF m = 0 THEN EmptyViews ELSE Replayed(g[m - 1], log[m])
        BY <2>4, <4>1 DEF Loop
      <4>3. h[m] = g[m]
        BY <3>2
      <4>4. m # 0 => h[m - 1] = g[m - 1]
        BY <4>1
      <4>5. F[m] = IF m = 0 THEN EmptyViews ELSE Replayed(h[m - 1], log[m])
        OBVIOUS
      <4> QED BY <4>2, <4>3, <4>4, <4>5
    <3> QED BY <3>1, <3>2
  <2>6. h = F
    <3>1. h = [m \in 0..n |-> h[m]] /\ F = [m \in 0..n |-> F[m]]
      OBVIOUS
    <3> HIDE DEF h, F
    <3> QED BY <2>5, <3>1
  <2>7. Loop(h, n)
    BY <2>6 DEF Loop
  <2> QED BY <2>1, <2>7
<1>2. Len(log) \in Nat
  BY LenProperties
<1>3. \E g : Loop(g, Len(log))
  BY <1>1, <1>2
<1>4. Rebuilt = CHOOSE g : Loop(g, Len(log))
  BY DEF Rebuilt, Loop
<1> QED BY <1>3, <1>4

(* Types of the tree and of the index.                                     *)
Trees == [Keys -> DbRecord \cup {None}]
Indexes == [Texts -> [made : Nat, keys : SUBSET Keys]]

(* An entry for the record's text.                                         *)
Entered(tr, ix, k) ==
  tr[k] # None /\ Text[tr[k].value] # None => k \in ix[Text[tr[k].value]].keys

(* What the loop keeps: a set that was never made is empty, every record   *)
(* has its index entry, and comes from the log.                            *)
WellBuilt(v) ==
  /\ v.tree \in Trees /\ v.indexes \in Indexes
  /\ \A x \in Texts : v.indexes[x].made = 0 => v.indexes[x].keys = {}
  /\ \A k \in Keys : Entered(v.tree, v.indexes, k)
  /\ \A k \in Keys : v.tree[k] # None => \E i \in 1..Len(log) : v.tree[k] = log[i][k]

(* A record in the tree, and its text.                                     *)
LEMMA RecordFacts ==
  ASSUME NEW rec \in DbRecord
  PROVE  /\ rec # None /\ rec # Gone /\ rec.value \in Values
         /\ Text[rec.value] \in Texts \cup {None}
         /\ extract_index_keys(rec.value) = {x \in Texts : x = Text[rec.value]}
         /\ Text[rec.value] # None => Text[rec.value] \in Texts
<1>1. rec # None
  BY RecordAssumption
<1>2. rec.value \in Values
  BY DEF DbRecord
<1>3. rec # Gone
  BY <1>2, ViewsAssumption DEF Gone
<1>4. Text[rec.value] \in Texts \cup {None}
  BY <1>2, ViewsAssumption
<1> QED BY <1>1, <1>2, <1>3, <1>4 DEF extract_index_keys

(* One command of the replay keeps what the loop keeps.                    *)
LEMMA ReplayedBuilt ==
  ASSUME NEW v, WellBuilt(v), log \in Seq(Writes), NEW n \in 1..Len(log)
  PROVE  WellBuilt(Replayed(v, log[n]))
<1> DEFINE w == log[n]
           put == {k \in Keys : w[k] \notin {None, Gone}}
           loaded == {k \in put : ~is_expired(w[k])}
           deleted == {k \in Keys : w[k] = Gone}
           Deleted(x) == {k \in deleted : v.tree[k] # None /\ x \in extract_keys(v.tree[k].value)}
           Loaded(x) == {k \in loaded : x \in extract_keys(w[k].value)}
           u == Replayed(v, w)
<1>1. w \in Writes
  BY DEF Writes
<1>2. /\ u.tree = [k \in Keys |-> IF k \in loaded THEN w[k] ELSE IF k \in deleted THEN None ELSE v.tree[k]]
      /\ u.indexes = [x \in Texts |->
                       [made |-> IF Loaded(x) # {} THEN 1 ELSE v.indexes[x].made,
                        keys |-> (v.indexes[x].keys \ Deleted(x)) \cup Loaded(x)]]
  BY DEF Replayed
<1>3. v.tree \in Trees /\ v.indexes \in Indexes
  BY DEF WellBuilt
<1>4. \A k \in loaded : k \in Keys /\ w[k] \in DbRecord /\ k \notin deleted
  BY <1>1 DEF Writes
<1>5. \A x \in Texts : Loaded(x) \subseteq Keys /\ \A k \in Keys \ deleted : k \notin Deleted(x)
  OBVIOUS
<1>6. \A k \in loaded : Text[w[k].value] # None => k \in Loaded(Text[w[k].value])
  BY <1>4, RecordFacts DEF extract_keys
<1> HIDE DEF u, loaded, deleted, Deleted, Loaded, w
<1>7. u.tree \in Trees
  BY <1>2, <1>3, <1>4 DEF Trees
<1>8. ASSUME NEW x \in Texts
      PROVE  /\ u.indexes[x] \in [made : Nat, keys : SUBSET Keys]
             /\ u.indexes[x].made = 0 => u.indexes[x].keys = {}
  <2>1. v.indexes[x] \in [made : Nat, keys : SUBSET Keys] /\ (v.indexes[x].made = 0 => v.indexes[x].keys = {})
    BY <1>3 DEF WellBuilt, Indexes
  <2>2. u.indexes[x] = [made |-> IF Loaded(x) # {} THEN 1 ELSE v.indexes[x].made,
                        keys |-> (v.indexes[x].keys \ Deleted(x)) \cup Loaded(x)]
    BY <1>2
  <2>3. Loaded(x) \subseteq Keys
    BY <1>5
  <2> QED BY <2>1, <2>2, <2>3
<1>9. u.indexes \in Indexes
  BY <1>2, <1>8 DEF Indexes
<1>10. ASSUME NEW k \in Keys
       PROVE  /\ Entered(u.tree, u.indexes, k)
              /\ u.tree[k] # None => \E i \in 1..Len(log) : u.tree[k] = log[i][k]
  <2>1. CASE k \in loaded
    <3>1. u.tree[k] = w[k] /\ w[k] \in DbRecord
      BY <1>2, <1>4, <2>1
    <3>2. ASSUME Text[w[k].value] # None PROVE k \in u.indexes[Text[w[k].value]].keys
      <4>1. PICK x \in Texts : x = Text[w[k].value]
        BY <3>1, <3>2, RecordFacts
      <4>2. k \in Loaded(x)
        BY <1>6, <2>1, <3>2, <4>1
      <4> QED BY <1>2, <4>1, <4>2
    <3> QED BY <3>1, <3>2 DEF Entered, w
  <2>2. CASE k \in deleted /\ k \notin loaded
    <3>1. u.tree[k] = None
      BY <1>2, <2>2
    <3> QED BY <3>1 DEF Entered
  <2>3. CASE k \notin deleted /\ k \notin loaded
    <3>1. u.tree[k] = v.tree[k]
      BY <1>2, <2>3
    <3>2. ASSUME v.tree[k] # None, Text[v.tree[k].value] # None
          PROVE  k \in u.indexes[Text[v.tree[k].value]].keys
      <4>1. v.tree[k] \in DbRecord
        BY <1>3, <3>2 DEF Trees
      <4>2. PICK x \in Texts : x = Text[v.tree[k].value]
        BY <4>1, <3>2, RecordFacts
      <4>3. k \in v.indexes[x].keys
        BY <3>2, <4>2 DEF WellBuilt, Entered
      <4>4. k \notin Deleted(x)
        BY <1>5, <2>3
      <4> QED BY <1>2, <4>2, <4>3, <4>4
    <3> QED BY <3>1, <3>2 DEF Entered, WellBuilt
  <2> QED BY <2>1, <2>2, <2>3
<1> QED BY <1>7, <1>8, <1>9, <1>10 DEF WellBuilt, u, w

(* So do the empty tree and index ...                                      *)
LEMMA EmptyBuilt == WellBuilt(EmptyViews)
<1>1. /\ EmptyViews.tree = [k \in Keys |-> None]
      /\ EmptyViews.indexes = [x \in Texts |-> [made |-> 0, keys |-> {}]]
  BY DEF EmptyViews
<1>2. EmptyViews.tree \in Trees
  BY <1>1 DEF Trees
<1>3. EmptyViews.indexes \in Indexes
  BY <1>1 DEF Indexes
<1> QED BY <1>1, <1>2, <1>3 DEF WellBuilt, Entered

(* ... and hence what new rebuilds from the log.                           *)
LEMMA RebuiltBuilt ==
  ASSUME log \in Seq(Writes)
  PROVE  WellBuilt(Rebuilt[Len(log)])
<1>1. Len(log) \in Nat
  BY LenProperties
<1>2. Rebuilt = [m \in 0..Len(log) |-> IF m = 0 THEN EmptyViews ELSE Replayed(Rebuilt[m - 1], log[m])]
  BY RebuiltLoops DEF Loop
<1> HIDE DEF Rebuilt
<1>3. \A m \in 0..Len(log) : Rebuilt[m] = IF m = 0 THEN EmptyViews ELSE Replayed(Rebuilt[m - 1], log[m])
  BY <1>2
<1> DEFINE T == {n \in 0..Len(log) : ~WellBuilt(Rebuilt[n])}
<1>4. T = {}
  <2> SUFFICES ASSUME T # {} PROVE FALSE
    OBVIOUS
  <2>0. T \in SUBSET Nat
    BY <1>1
  <2>1. PICK n \in T : \A y \in T : n <= y
    BY <2>0, LeastNumber
  <2>2. n # 0
    BY <1>1, <1>3, <2>1, EmptyBuilt
  <2>3. n - 1 \in 0..Len(log) /\ ~(n - 1 \in T) /\ n \in 1..Len(log)
    BY <1>1, <2>1, <2>2
  <2>4. WellBuilt(Rebuilt[n - 1])
    BY <2>3
  <2>5. WellBuilt(Replayed(Rebuilt[n - 1], log[n]))
    BY <2>3, <2>4, ReplayedBuilt
  <2> QED BY <1>3, <2>1, <2>2, <2>5
<1> QED BY <1>1, <1>4
-----------------------------------------------------------------------------
(* Types.                                                                  *)

(* index_record goes on only if there is a text.                           *)
Named(r) == r # NoRequest /\ Op(r) \in {"create", "add"} => Text[r.writes[Key(r)].value] # None

(* The requests: their shapes, and who holds the mutex.                    *)
Requests ==
  /\ \A t \in Threads : Named(req[t])
  /\ req = [t \in Threads |-> req[t]]
  /\ \A t \in Threads : Shape(req[t]) /\ (req[t] # NoRequest => req[t].kind \in setting.ops[t])
  /\ \A t \in Threads : wal_lock = t <=> req[t].kind \in {"cas", "tx"}

(* Events of the watch stream.                                             *)
Events == [key : Keys, new_value : Values \cup {"gone"}]

(* Types of the watch stream; its queue stays within the capacity.         *)
Watching ==
  /\ watcher \in [on : BOOLEAN, rx : [queue : Seq(Events), lagged : BOOLEAN],
                  view : [Keys -> Values \cup {"gone", None}], missed : BOOLEAN]
  /\ Len(watcher.rx.queue) <= WatchCapacity

(* The bound on writes counts those that are on their way to the log.      *)
ViewInv ==
  /\ setting \in Workloads /\ now \in Nat /\ restarts \in Nat
  /\ tree \in Trees /\ indexes \in Indexes /\ cache \in [Keys -> Values \cup {None}]
  /\ wal_lock \in Threads \cup {None} /\ Requests
  /\ log \in Seq(Writes) /\ Len(log) + Cardinality(Pending) <= setting.max_writes
  /\ Watching

(* The requests that MayWrite counts.                                      *)
LEMMA PendingLogs ==
  Pending = {t \in Threads : req[t].kind \notin {"none", "purge"} /\ Logs(req[t])} /\ IsFiniteSet(Pending)
<1>1. Pending = {t \in Threads : req[t].kind \notin {"none", "purge"} /\ Logs(req[t])}
  BY DEF Pending, Logs
<1> QED BY <1>1, FS_Subset, ViewsAssumption

(* A request that goes on, and gives up the mutex if it has it when it is  *)
(* served.                                                                 *)
LEMMA Turned ==
  ASSUME Requests, NEW t \in Threads, NEW op, NEW q, Access(t, op, q), Shape(q), Named(q),
         q = NoRequest \/ (q.kind = req[t].kind /\ (Logs(q) => Logs(req[t]))),
         wal_lock' = IF q = NoRequest /\ req[t].kind \in {"cas", "tx"} THEN None ELSE wal_lock
  PROVE  /\ Requests' /\ Cardinality(Pending') <= Cardinality(Pending)
         /\ Cardinality(Pending) \in Nat /\ Cardinality(Pending') \in Nat
         /\ t \in Pending /\ ~Logs(q) => Cardinality(Pending') <= Cardinality(Pending) - 1
<1>1. /\ req' = [req EXCEPT ![t] = q] /\ setting' = setting /\ req[t] # NoRequest
      /\ req = [u \in Threads |-> req[u]]
  BY DEF Access, Requests
<1>2. req' = [u \in Threads |-> IF u = t THEN q ELSE req[u]]
  BY <1>1
<1>3. NoRequest.kind = "none"
  BY DEF NoRequest
<1>4. \A u \in Threads : req'[u] = IF u = t THEN q ELSE req[u]
  BY <1>2
<1>5. req' = [u \in Threads |-> req'[u]]
  BY <1>2
<1>6. \A u \in Threads : Shape(req[u]) /\ (req[u] # NoRequest => req[u].kind \in setting.ops[u])
  BY DEF Requests
<1>7. \A u \in Threads : Shape(req'[u]) /\ (req'[u] # NoRequest => req'[u].kind \in setting'.ops[u])
  BY <1>1, <1>4, <1>6
<1>8. ASSUME NEW u \in Threads
      PROVE  wal_lock' = u <=> req'[u].kind \in {"cas", "tx"}
  <2>1. \A s \in Threads : (wal_lock = s <=> req[s].kind \in {"cas", "tx"}) /\ None # s
    BY ViewsAssumption DEF Requests
  <2> QED BY <1>3, <1>4, <2>1
<1>9. Requests'
  <2>1. \A u \in Threads : Named(req'[u])
    BY <1>4 DEF Requests
  <2> QED BY <1>5, <1>7, <1>8, <2>1 DEF Requests, Named
<1>10. Pending = {u \in Threads : req[u].kind \notin {"none", "purge"} /\ Logs(req[u])} /\ IsFiniteSet(Pending)
  BY PendingLogs
<1>11. Pending' = {u \in Threads : req'[u].kind \notin {"none", "purge"} /\ Logs(req'[u])}
  BY DEF Pending, Logs
<1>12. Pending' \subseteq Pending
  BY <1>3, <1>4, <1>10, <1>11
<1>13. ~Logs(q) => t \notin Pending'
  BY <1>4, <1>11
<1>14. Cardinality(Pending) \in Nat /\ Cardinality(Pending') \in Nat /\ Cardinality(Pending') <= Cardinality(Pending)
  BY <1>10, <1>12, FS_Subset, FS_CardinalityType
<1>15. ASSUME t \in Pending, ~Logs(q)
       PROVE  Cardinality(Pending') <= Cardinality(Pending) - 1
  <2>1. Pending' \subseteq Pending \ {t}
    BY <1>12, <1>13, <1>15
  <2>2. IsFiniteSet(Pending \ {t}) /\ Cardinality(Pending \ {t}) = Cardinality(Pending) - 1
    BY <1>10, <1>15, FS_RemoveElement
  <2> QED BY <2>1, <2>2, FS_Subset
<1> QED BY <1>9, <1>14, <1>15

(* The accesses that leave the request to do what is next on its plan.     *)
LEMMA RestGoes ==
  ASSUME Requests, NEW t \in Threads, req[t] # NoRequest, Step(t).op \notin {"next", "lookup"}
  PROVE  /\ Shape(Rest(t)) /\ Goes(req[t]) /\ Op(req[t]) = Step(t).op /\ Key(req[t]) = Step(t).key
         /\ \/ /\ Rest(t) = NoRequest
               /\ \/ req[t].kind \in {"put", "delete"} /\ Step(t).op = "notify"
                  \/ req[t].kind \in {"cas", "tx"} /\ Step(t).op = "unlock"
                  \/ req[t].kind = "purge" /\ Step(t).op = "remove"
            \/ Moved(req[t], Rest(t), Op(Rest(t))) /\ Step(t).op # "unlock"
         /\ Op(Rest(t)) \in {"create", "add"} /\ Rest(t) # NoRequest => Step(t).op = "create"
         /\ Step(t).op = "log" => ~Logs(Rest(t))
<1> DEFINE r == req[t]
           q == Rest(t)
<1>1. q = Ahead(r, 1) /\ Op(r) = Step(t).op /\ Key(r) = Step(t).key
  BY DEF Rest, Op, Key, Step
<1>2. Goes(r)
  BY ShapeGoes DEF Requests
<1>3. Shape(NoRequest)
  BY DEF Shape
<1>4. \A op : Moved(r, q, op) => Shape(q) /\ op = Op(q)
  BY DEF Moved
<1> HIDE DEF q, r
<1>5. Op(r) \notin {"next", "lookup"}
  BY <1>1
<1>6. CASE r.kind = "put"
  <2>1. PutGoes(r)
    BY <1>2, <1>6 DEF Goes
  <2> QED BY <1>1, <1>2, <1>3, <1>4, <1>5, <1>6, <2>1 DEF PutGoes, PutNext, r, q
<1>7. CASE r.kind = "delete"
  <2>1. DeleteGoes(r)
    BY <1>2, <1>7 DEF Goes
  <2> QED BY <1>1, <1>2, <1>3, <1>4, <1>5, <1>7, <2>1 DEF DeleteGoes, r, q
<1>8. CASE r.kind = "cas"
  <2>1. CasGoes(r)
    BY <1>2, <1>8 DEF Goes
  <2> QED BY <1>1, <1>2, <1>3, <1>4, <1>5, <1>8, <2>1 DEF CasGoes, r, q
<1>9. CASE r.kind = "tx"
  <2>1. TxGoes(r)
    BY <1>2, <1>9 DEF Goes
  <2> QED BY <1>1, <1>2, <1>3, <1>4, <1>5, <1>9, <2>1 DEF TxGoes, r, q
<1>10. CASE r.kind = "purge"
  <2>1. PurgeGoes(r)
    BY <1>2, <1>10 DEF Goes
  <2> QED BY <1>1, <1>2, <1>3, <1>4, <1>5, <1>10, <2>1 DEF PurgeGoes, r, q
<1> QED BY <1>2, <1>6, <1>7, <1>8, <1>9, <1>10 DEF Goes

(* A request that goes on by one access, and gives up the mutex at the     *)
(* end.                                                                    *)
LEMMA RestTurned ==
  ASSUME ViewInv, NEW t \in Threads, NEW op, op \notin {"next", "lookup"}, Access(t, op, Rest(t)),
         wal_lock' = IF op = "unlock" THEN None ELSE wal_lock
  PROVE  /\ Requests' /\ wal_lock' \in Threads \cup {None}
         /\ op # "log" => Len(log) + Cardinality(Pending') <= setting.max_writes
         /\ op = "log" => Len(log) + 1 + Cardinality(Pending') <= setting.max_writes
         /\ setting' = setting /\ now' = now /\ restarts' = restarts
<1> DEFINE r == req[t]
           q == Rest(t)
<1>1. /\ r # NoRequest /\ Step(t).op = op /\ setting' = setting /\ now' = now /\ restarts' = restarts
  BY DEF Access
<1>2. /\ Shape(q) /\ Goes(r) /\ Op(r) = op
      /\ \/ /\ q = NoRequest
            /\ \/ r.kind \in {"put", "delete"} /\ op = "notify"
               \/ r.kind \in {"cas", "tx"} /\ op = "unlock"
               \/ r.kind = "purge" /\ op = "remove"
         \/ Moved(r, q, Op(q)) /\ op # "unlock"
      /\ Op(q) \in {"create", "add"} /\ q # NoRequest => op = "create"
      /\ op = "log" => ~Logs(q)
  BY <1>1, RestGoes DEF ViewInv
<1>3. q = NoRequest \/ (q.kind = r.kind /\ (Logs(q) => Logs(r)))
  BY <1>2 DEF Moved
<1>4. wal_lock' = IF q = NoRequest /\ r.kind \in {"cas", "tx"} THEN None ELSE wal_lock
  BY <1>2 DEF Moved
<1>45. Named(q)
  BY <1>1, <1>2 DEF Named, Moved, ViewInv, Requests
<1>5. /\ Requests' /\ Cardinality(Pending') <= Cardinality(Pending)
      /\ Cardinality(Pending) \in Nat /\ Cardinality(Pending') \in Nat
      /\ t \in Pending /\ ~Logs(q) => Cardinality(Pending') <= Cardinality(Pending) - 1
  BY <1>2, <1>3, <1>4, <1>45, Turned DEF ViewInv
<1>6. Len(log) \in Nat /\ setting.max_writes \in Nat
  BY ViewsAssumption, LenProperties DEF ViewInv, Workload
<1>7. ASSUME op = "log" PROVE t \in Pending
  <2>1. r.kind \notin {"none", "purge"}
    BY <1>2, <1>7 DEF Goes, PurgeGoes
  <2>2. r.at \in DOMAIN r.plan /\ r.at \in Int
    BY <1>2 DEF Goes, Formed
  <2>3. Logs(r)
    BY <1>2, <1>7, <2>2 DEF Logs, Op
  <2> QED BY <2>1, <2>3, PendingLogs
<1> QED BY <1>1, <1>2, <1>5, <1>6, <1>7 DEF ViewInv

(* The same request with another record read, or another set found.        *)
LEMMA Retold ==
  ASSUME NEW r, Shape(r), r # NoRequest,
         NEW old \in DbRecord \cup {None}, NEW set \in Nat, NEW q,
         q = [r EXCEPT !.old = old] \/ q = [r EXCEPT !.set = set]
  PROVE  /\ Moved(r, q, Op(r)) /\ Logs(q) = Logs(r)
         /\ q = [r EXCEPT !.old = old] => q.old = old /\ q.set = r.set
         /\ q = [r EXCEPT !.set = set] => q.set = set /\ q.old = r.old
<1>1. Formed(r)
  BY DEF Shape
<1>2. /\ q.kind = r.kind /\ q.plan = r.plan /\ q.writes = r.writes /\ q.todo = r.todo /\ q.at = r.at
      /\ q.old \in DbRecord \cup {None} /\ q.set \in Nat
      /\ q = [kind |-> q.kind, plan |-> q.plan, at |-> q.at, writes |-> q.writes, todo |-> q.todo,
              old |-> q.old, set |-> q.set]
      /\ q = [r EXCEPT !.old = old] => q.old = old /\ q.set = r.set
      /\ q = [r EXCEPT !.set = set] => q.set = set /\ q.old = r.old
  BY <1>1 DEF Formed
<1>3. Formed(q)
  BY <1>1, <1>2 DEF Formed
<1>4. Shape(q)
  BY <1>2, <1>3 DEF Shape, PutShape, DeleteShape, CasShape, TxShape, PurgeShape
<1>5. q # NoRequest
  BY <1>3 DEF Formed, NoRequest
<1>6. Key(q) = Key(r) /\ Op(q) = Op(r) /\ (Logs(q) = Logs(r))
  BY <1>2 DEF Key, Op, Logs
<1> QED BY <1>2, <1>4, <1>5, <1>6 DEF Moved

(* The next key of a commit, and none.                                     *)
Done(r) == [r EXCEPT !.plan = TxDonePlan, !.at = 1]

Entering(r, k) ==
  [r EXCEPT !.at = 1, !.todo = r.todo \ {k},
            !.plan = IF r.writes[k] = Gone THEN TxDeletePlan(k) ELSE TxPutPlan(k)]

(* What a commit turns to after a key.                                     *)
LEMMA NextGoes ==
  ASSUME NEW r, Shape(r), r # NoRequest, Op(r) = "next"
  PROVE  /\ r.kind = "tx"
         /\ \A q : q = Done(r) =>
              Shape(q) /\ q.kind = "tx" /\ q # NoRequest /\ ~Logs(q) /\ Op(q) = "unlock" /\ Key(q) = None
              /\ q.todo = r.todo /\ q.writes = r.writes
         /\ \A k \in r.todo : \A q : q = Entering(r, k) =>
              Shape(q) /\ q.kind = "tx" /\ q # NoRequest /\ ~Logs(q) /\ Op(q) = "read" /\ Key(q) = k
              /\ q.todo = r.todo \ {k} /\ q.writes = r.writes
<1>1. Goes(r) /\ Formed(r)
  BY ShapeGoes DEF Goes
<1>2. r.kind = "tx"
  BY <1>1 DEF Goes, PutGoes, DeleteGoes, CasGoes, PurgeGoes
<1>3. ASSUME NEW q, q = Done(r)
      PROVE  Shape(q) /\ q.kind = "tx" /\ q # NoRequest /\ ~Logs(q) /\ Op(q) = "unlock" /\ Key(q) = None
             /\ q.todo = r.todo /\ q.writes = r.writes
  <2>1. /\ q = [kind |-> q.kind, plan |-> q.plan, at |-> q.at, writes |-> q.writes, todo |-> q.todo,
                old |-> q.old, set |-> q.set]
        /\ q.kind = r.kind /\ q.plan = TxDonePlan /\ q.writes = r.writes /\ q.todo = r.todo /\ q.at = 1
        /\ q.old = r.old /\ q.set = r.set
    BY <1>1, <1>3 DEF Formed, Done
  <2>2. /\ Len(q.plan) = 1 /\ DOMAIN q.plan = 1..1 /\ q.plan[1].key = None /\ q.plan[1].op = "unlock"
    BY <2>1 DEF TxDonePlan, Plan
  <2>3. Formed(q)
    BY <1>1, <2>1, <2>2 DEF Formed
  <2>4. Shape(q) /\ q # NoRequest
    BY <1>2, <2>1, <2>3 DEF Shape, TxShape, NoRequest
  <2> QED BY <1>2, <2>1, <2>2, <2>4 DEF Logs, Op, Key
<1>4. ASSUME NEW k \in r.todo, NEW q,
             q = Entering(r, k)
      PROVE  Shape(q) /\ q.kind = "tx" /\ q # NoRequest /\ ~Logs(q) /\ Op(q) = "read" /\ Key(q) = k
             /\ q.todo = r.todo \ {k} /\ q.writes = r.writes
  <2>1. /\ q = [kind |-> q.kind, plan |-> q.plan, at |-> q.at, writes |-> q.writes, todo |-> q.todo,
                old |-> q.old, set |-> q.set]
        /\ q.kind = r.kind /\ q.writes = r.writes /\ q.todo = r.todo \ {k} /\ q.at = 1
        /\ q.plan = IF r.writes[k] = Gone THEN TxDeletePlan(k) ELSE TxPutPlan(k)
        /\ q.old = r.old /\ q.set = r.set
    BY <1>1, <1>4 DEF Formed, Entering
  <2>2. k \in Keys /\ (r.writes[k] = Gone \/ r.writes[k] \in DbRecord)
    BY <1>1 DEF Formed, Writes
  <2>3. /\ Len(q.plan) \in Nat \ {0} /\ DOMAIN q.plan = 1..Len(q.plan)
        /\ q.plan[1].op = "read" /\ q.plan[1].key = k
    <3>1. ASSUME NEW plan, plan = TxDeletePlan(k)
          PROVE  Len(plan) = 6 /\ DOMAIN plan = 1..6 /\ plan[1].op = "read" /\ plan[1].key = k
      BY <3>1 DEF TxDeletePlan, Plan
    <3>2. ASSUME NEW plan, plan = TxPutPlan(k)
          PROVE  Len(plan) = 9 /\ DOMAIN plan = 1..9 /\ plan[1].op = "read" /\ plan[1].key = k
      BY <3>2 DEF TxPutPlan, Plan
    <3> QED BY <2>1, <3>1, <3>2
  <2>4. Formed(q)
    BY <1>1, <2>1, <2>3 DEF Formed
  <2>5. Shape(q) /\ q # NoRequest
    <3>1. r.writes[k] \in DbRecord => r.writes[k] # Gone
      BY RecordFacts
    <3> QED BY <1>2, <2>1, <2>2, <2>4, <3>1 DEF Shape, TxShape, NoRequest
  <2>6. Op(q) = "read" /\ Key(q) = k
    BY <2>1, <2>3 DEF Op, Key
  <2>7. ~Logs(q)
    <3>1. Goes(q)
      BY <2>5, ShapeGoes
    <3> QED BY <1>2, <2>1, <2>6, <3>1 DEF Goes, TxGoes
  <2> QED BY <1>2, <2>1, <2>5, <2>6, <2>7
<1> QED BY <1>2, <1>3, <1>4

(* What a step leaves to show once the requests are accounted for.         *)
LEMMA TypedBy ==
  ASSUME ViewInv, Requests', wal_lock' \in Threads \cup {None}, setting' = setting, now' = now,
         restarts' = restarts,
         tree' \in Trees, indexes' \in Indexes, cache' \in [Keys -> Values \cup {None}],
         log' \in Seq(Writes), Len(log') + Cardinality(Pending') <= setting.max_writes, Watching'
  PROVE  ViewInv'
BY DEF ViewInv, Trees, Indexes

(* The set that index_record looks up, makes or adds to is that of the new *)
(* text.                                                                   *)
LEMMA NewTextFacts ==
  ASSUME ViewInv, NEW t \in Threads, req[t] # NoRequest, Step(t).op \in {"lookup", "create", "add"}
  PROVE  /\ Goes(req[t]) /\ Op(req[t]) = Step(t).op /\ Key(req[t]) = Step(t).key
         /\ Step(t).key \in Keys /\ req[t].writes[Step(t).key] \in DbRecord
         /\ NewTexts(t) = {x \in Texts : x = Text[req[t].writes[Step(t).key].value]}
         /\ NewTexts(t) = {} <=> Text[req[t].writes[Step(t).key].value] = None
         /\ Step(t).op \in {"create", "add"} => NewTexts(t) # {}
         /\ NewTexts(t) # {} => NewText(t) \in Texts /\ NewText(t) = Text[req[t].writes[Step(t).key].value]
<1> DEFINE r == req[t]
           k == Step(t).key
<1>1. Goes(r) /\ Op(r) = Step(t).op /\ Key(r) = k
  BY ShapeGoes DEF ViewInv, Requests, Step, Op, Key
<1>2. k \in Keys /\ r.writes[k] \in DbRecord
  BY <1>1 DEF Goes, PutGoes, DeleteGoes, CasGoes, TxGoes, PurgeGoes
<1>3. NewTexts(t) = {x \in Texts : x = Text[r.writes[k].value]}
  BY <1>2, RecordFacts DEF NewTexts
<1>4. Text[r.writes[k].value] \in Texts \cup {None} /\ None \notin Texts
  BY <1>2, RecordFacts, ViewsAssumption
<1>5. Step(t).op \in {"create", "add"} => Text[r.writes[k].value] # None
  BY <1>1 DEF ViewInv, Requests, Named
<1>6. NewTexts(t) # {} => NewText(t) \in NewTexts(t)
  BY DEF NewText
<1> QED BY <1>1, <1>2, <1>3, <1>4, <1>5, <1>6

(* The steps that change the request only, or where it stands.             *)
LEMMA NextKeyTyped ==
  ASSUME ViewInv, NEW t \in Threads, NextKey(t)
  PROVE  ViewInv'
<1> DEFINE r == req[t]
<1>1. r # NoRequest /\ Op(r) = "next" /\ Shape(r)
  BY DEF NextKey, Access, Step, Op, ViewInv, Requests
<1>2. PICK q : /\ Access(t, "next", q)
               /\ q = Done(r) \/ \E k \in r.todo : q = Entering(r, k)
  BY DEF NextKey, Done, Entering
<1>3. /\ Shape(q) /\ q.kind = "tx" /\ q # NoRequest /\ ~Logs(q) /\ Op(q) \in {"unlock", "read"} /\ r.kind = "tx"
  BY <1>1, <1>2, NextGoes
<1>4. Named(q)
  BY <1>3 DEF Named
<1>5. UNCHANGED <<tree, indexes, cache, wal_lock, log, watcher>>
  BY DEF NextKey
<1>6. wal_lock' = IF q = NoRequest /\ r.kind \in {"cas", "tx"} THEN None ELSE wal_lock
  BY <1>3, <1>5
<1>7. Requests' /\ Cardinality(Pending') <= Cardinality(Pending) /\ Cardinality(Pending) \in Nat /\ Cardinality(Pending') \in Nat
  BY <1>2, <1>3, <1>4, <1>6, Turned DEF ViewInv
<1>8. Len(log') + Cardinality(Pending') <= setting.max_writes
  <2>1. Len(log) \in Nat /\ setting.max_writes \in Nat /\ Len(log) + Cardinality(Pending) <= setting.max_writes
    BY ViewsAssumption, LenProperties DEF ViewInv, Workload
  <2> QED BY <1>5, <1>7, <2>1
<1>9. setting' = setting /\ now' = now /\ restarts' = restarts
  BY <1>2 DEF Access
<1> QED BY <1>5, <1>7, <1>8, <1>9, TypedBy DEF ViewInv, Watching

LEMMA ReadTyped ==
  ASSUME ViewInv, NEW t \in Threads, Read(t)
  PROVE  ViewInv' /\ Moved(req[t], req'[t], "unindex") /\ req'[t].old = tree[Step(t).key]
         /\ req[t].kind = "tx"
<1> DEFINE r == req[t]
           old == tree[Step(t).key]
<1>1. PICK q : q = [Rest(t) EXCEPT !.old = old]
  OBVIOUS
<1>2. Access(t, "read", q) /\ UNCHANGED <<tree, indexes, cache, wal_lock, log, watcher>>
  BY <1>1 DEF Read
<1>3. r # NoRequest /\ Step(t).op = "read"
  BY <1>2 DEF Access
<1>4. Goes(r) /\ Op(r) = "read" /\ Key(r) = Step(t).key
  BY <1>3, RestGoes DEF ViewInv
<1>5. r.kind = "tx" /\ Moved(r, Rest(t), "unindex") /\ Key(r) \in Keys
  BY <1>4 DEF Goes, PutGoes, DeleteGoes, CasGoes, TxGoes, PurgeGoes, Rest
<1>6. old \in DbRecord \cup {None}
  BY <1>4, <1>5 DEF ViewInv, Trees
<1>7. Moved(Rest(t), q, "unindex") /\ Logs(q) = Logs(Rest(t)) /\ q.old = old
  BY <1>1, <1>5, <1>6, Retold DEF Moved
<1>8. Moved(r, q, "unindex") /\ Named(q)
  BY <1>5, <1>7 DEF Moved, Named
<1>9. wal_lock' = IF q = NoRequest /\ r.kind \in {"cas", "tx"} THEN None ELSE wal_lock
  BY <1>2, <1>8 DEF Moved
<1>10. Requests' /\ Cardinality(Pending') <= Cardinality(Pending) /\ Cardinality(Pending) \in Nat /\ Cardinality(Pending') \in Nat
  BY <1>2, <1>8, <1>9, Turned DEF ViewInv, Moved
<1>11. Len(log') + Cardinality(Pending') <= setting.max_writes
  <2>1. Len(log) \in Nat /\ setting.max_writes \in Nat /\ Len(log) + Cardinality(Pending) <= setting.max_writes
    BY ViewsAssumption, LenProperties DEF ViewInv, Workload
  <2> QED BY <1>2, <1>10, <2>1
<1>12. setting' = setting /\ now' = now /\ restarts' = restarts /\ req'[t] = q
  BY <1>2 DEF Access, ViewInv, Requests
<1> QED BY <1>2, <1>5, <1>7, <1>8, <1>10, <1>11, <1>12, TypedBy DEF ViewInv, Watching

LEMMA LookupTyped ==
  ASSUME ViewInv, NEW t \in Threads, Lookup(t)
  PROVE  /\ ViewInv' /\ Moved(req[t], req'[t], Op(req'[t])) /\ req'[t].old = req[t].old
         /\ \/ NewTexts(t) = {} /\ req'[t] = Ahead(req[t], 3)
            \/ /\ NewTexts(t) # {} /\ indexes[NewText(t)].made = 0
               /\ Op(req'[t]) = "create"
            \/ /\ NewTexts(t) # {} /\ indexes[NewText(t)].made # 0
               /\ Op(req'[t]) = "add" /\ req'[t].set = indexes[NewText(t)].made
<1> DEFINE r == req[t]
           x == NewText(t)
<1>1. PICK q : q = IF NewTexts(t) = {} THEN Ahead(r, 3)
                   ELSE IF indexes[x].made = 0 THEN Rest(t)
                   ELSE [Ahead(r, 2) EXCEPT !.set = indexes[x].made]
  OBVIOUS
<1>2. Access(t, "lookup", q) /\ UNCHANGED <<tree, indexes, cache, wal_lock, log, watcher>>
  BY <1>1 DEF Lookup
<1>3. r # NoRequest /\ Step(t).op = "lookup"
  BY <1>2 DEF Access
<1>4. /\ Goes(r) /\ Op(r) = "lookup" /\ Key(r) = Step(t).key /\ Key(r) \in Keys
      /\ NewTexts(t) = {} <=> Text[r.writes[Key(r)].value] = None
      /\ NewTexts(t) # {} => x \in Texts
  BY <1>3, NewTextFacts
<1>5. /\ Moved(r, Ahead(r, 1), "create") /\ Moved(r, Ahead(r, 2), "add")
      /\ \E op \in {"fill", "log", "invalidate", "notify"} : Moved(r, Ahead(r, 3), op)
  BY <1>4 DEF Goes, PutGoes, DeleteGoes, CasGoes, TxGoes, PurgeGoes, PutNext
<1>6. \A n \in 1..3 : Ahead(r, n) # NoRequest => Ahead(r, n).old = r.old
  BY <1>4 DEF Goes
<1>7. /\ Moved(r, q, Op(q)) /\ q.old = r.old
      /\ \/ NewTexts(t) = {} /\ q = Ahead(r, 3) /\ Op(q) \notin {"create", "add"}
         \/ NewTexts(t) # {} /\ indexes[x].made = 0 /\ Op(q) = "create"
         \/ NewTexts(t) # {} /\ indexes[x].made # 0 /\ Op(q) = "add" /\ q.set = indexes[x].made
  <2>1. CASE NewTexts(t) = {}
    BY <1>1, <1>5, <1>6, <2>1 DEF Moved
  <2>2. CASE NewTexts(t) # {} /\ indexes[x].made = 0
    BY <1>1, <1>5, <1>6, <2>2 DEF Moved, Rest
  <2>3. CASE NewTexts(t) # {} /\ indexes[x].made # 0
    <3>1. PICK a : a = Ahead(r, 2)
      OBVIOUS
    <3>2. Moved(r, a, "add") /\ a.old = r.old
      BY <1>5, <1>6, <3>1 DEF Moved
    <3>3. q = [a EXCEPT !.set = indexes[x].made] /\ indexes[x].made \in Nat
      BY <1>1, <1>4, <2>3, <3>1 DEF ViewInv, Indexes
    <3>4. Moved(a, q, Op(a)) /\ q.set = indexes[x].made /\ q.old = a.old
      BY <3>2, <3>3, Retold DEF Moved
    <3> QED BY <2>3, <3>2, <3>4 DEF Moved
  <2> QED BY <2>1, <2>2, <2>3
<1>8. Named(q)
  BY <1>4, <1>7 DEF Named, Moved
<1>9. wal_lock' = IF q = NoRequest /\ r.kind \in {"cas", "tx"} THEN None ELSE wal_lock
  BY <1>2, <1>7 DEF Moved
<1>10. Requests' /\ Cardinality(Pending') <= Cardinality(Pending) /\ Cardinality(Pending) \in Nat /\ Cardinality(Pending') \in Nat
  BY <1>2, <1>7, <1>8, <1>9, Turned DEF ViewInv, Moved
<1>11. Len(log') + Cardinality(Pending') <= setting.max_writes
  <2>1. Len(log) \in Nat /\ setting.max_writes \in Nat /\ Len(log) + Cardinality(Pending) <= setting.max_writes
    BY ViewsAssumption, LenProperties DEF ViewInv, Workload
  <2> QED BY <1>2, <1>10, <2>1
<1>12. setting' = setting /\ now' = now /\ restarts' = restarts /\ req'[t] = q
  BY <1>2 DEF Access, ViewInv, Requests
<1>13. ViewInv'
  BY <1>2, <1>10, <1>11, <1>12, TypedBy DEF ViewInv, Watching
<1> QED BY <1>7, <1>12, <1>13

LEMMA CreateTyped ==
  ASSUME ViewInv, NEW t \in Threads, Create(t)
  PROVE  /\ ViewInv' /\ Moved(req[t], req'[t], "add") /\ req'[t].old = req[t].old
         /\ NewText(t) \in Texts /\ req'[t].set = indexes[NewText(t)].made + 1
         /\ indexes' = [indexes EXCEPT ![NewText(t)] = [made |-> indexes[NewText(t)].made + 1, keys |-> {}]]
<1> DEFINE r == req[t]
           x == NewText(t)
<1>1. PICK q : q = [Rest(t) EXCEPT !.set = indexes[x].made + 1]
  OBVIOUS
<1>2. /\ Access(t, "create", q) /\ UNCHANGED <<tree, cache, wal_lock, log, watcher>>
      /\ indexes' = [indexes EXCEPT ![x] = [made |-> indexes[x].made + 1, keys |-> {}]]
  BY <1>1 DEF Create
<1>3. r # NoRequest /\ Step(t).op = "create"
  BY <1>2 DEF Access
<1>4. /\ Goes(r) /\ Op(r) = "create" /\ Key(r) = Step(t).key /\ Key(r) \in Keys
      /\ NewTexts(t) # {} /\ x \in Texts
  BY <1>3, NewTextFacts
<1>5. Moved(r, Rest(t), "add")
  BY <1>4 DEF Goes, PutGoes, DeleteGoes, CasGoes, TxGoes, PurgeGoes, Rest
<1>6. Rest(t).old = r.old
  BY <1>4, <1>5 DEF Goes, Rest, Moved
<1>7. indexes[x].made \in Nat
  BY <1>4 DEF ViewInv, Indexes
<1>8. Moved(Rest(t), q, "add") /\ q.set = indexes[x].made + 1 /\ q.old = r.old
  <2>1. PICK a, set : a = Rest(t) /\ set = indexes[x].made + 1
    OBVIOUS
  <2>2. Moved(r, a, "add") /\ a.old = r.old /\ set \in Nat /\ q = [a EXCEPT !.set = set]
    BY <1>1, <1>5, <1>6, <1>7, <2>1
  <2>3. Moved(a, q, Op(a)) /\ q.set = set /\ q.old = a.old
    BY <2>2, Retold DEF Moved
  <2> QED BY <2>1, <2>2, <2>3 DEF Moved
<1>9. Moved(r, q, "add")
  BY <1>5, <1>8 DEF Moved
<1>10. Named(q)
  BY <1>3, <1>4, <1>9 DEF Named, Moved, ViewInv, Requests
<1>11. wal_lock' = IF q = NoRequest /\ r.kind \in {"cas", "tx"} THEN None ELSE wal_lock
  BY <1>2, <1>9 DEF Moved
<1>12. Requests' /\ Cardinality(Pending') <= Cardinality(Pending) /\ Cardinality(Pending) \in Nat /\ Cardinality(Pending') \in Nat
  BY <1>2, <1>9, <1>10, <1>11, Turned DEF ViewInv, Moved
<1>13. Len(log') + Cardinality(Pending') <= setting.max_writes
  <2>1. Len(log) \in Nat /\ setting.max_writes \in Nat /\ Len(log) + Cardinality(Pending) <= setting.max_writes
    BY ViewsAssumption, LenProperties DEF ViewInv, Workload
  <2> QED BY <1>2, <1>12, <2>1
<1>14. setting' = setting /\ now' = now /\ restarts' = restarts /\ req'[t] = q
  BY <1>2 DEF Access, ViewInv, Requests
<1>15. indexes' \in Indexes
  BY <1>2, <1>4, <1>7 DEF ViewInv, Indexes
<1>16. ViewInv'
  BY <1>2, <1>12, <1>13, <1>14, <1>15, TypedBy DEF ViewInv, Watching
<1> QED BY <1>2, <1>4, <1>8, <1>9, <1>14, <1>16

(* The accesses after which the next one on the plan follows.              *)
LEMMA PlainTyped ==
  ASSUME ViewInv, NEW t \in Threads,
         Unindex(t) \/ Add(t) \/ Fill(t) \/ Invalidate(t) \/ Log(t) \/ TreeInsert(t) \/ TreeRemove(t)
         \/ Notify(t) \/ Unlock(t)
  PROVE  ViewInv'
<1> DEFINE r == req[t]
           k == Step(t).key
<1>1. PICK op \in {"unindex", "add", "fill", "invalidate", "log", "insert", "remove", "notify", "unlock"} :
        /\ Access(t, op, Rest(t)) /\ wal_lock' = IF op = "unlock" THEN None ELSE wal_lock
        /\ op = "unindex" => Unindex(t)
        /\ op = "add" => Add(t)
        /\ op = "fill" => Fill(t)
        /\ op = "invalidate" => Invalidate(t)
        /\ op = "log" => Log(t)
        /\ op = "insert" => TreeInsert(t)
        /\ op = "remove" => TreeRemove(t)
        /\ op = "notify" => Notify(t)
        /\ op = "unlock" => Unlock(t)
  <2>1. Unindex(t) => Access(t, "unindex", Rest(t)) /\ wal_lock' = wal_lock
    BY DEF Unindex
  <2>2. Add(t) => Access(t, "add", Rest(t)) /\ wal_lock' = wal_lock
    BY DEF Add
  <2>3. Fill(t) => Access(t, "fill", Rest(t)) /\ wal_lock' = wal_lock
    BY DEF Fill
  <2>4. Invalidate(t) => Access(t, "invalidate", Rest(t)) /\ wal_lock' = wal_lock
    BY DEF Invalidate
  <2>5. Log(t) => Access(t, "log", Rest(t)) /\ wal_lock' = wal_lock
    BY DEF Log
  <2>6. TreeInsert(t) => Access(t, "insert", Rest(t)) /\ wal_lock' = wal_lock
    BY DEF TreeInsert
  <2>7. TreeRemove(t) => Access(t, "remove", Rest(t)) /\ wal_lock' = wal_lock
    BY DEF TreeRemove
  <2>8. Notify(t) => Access(t, "notify", Rest(t)) /\ wal_lock' = wal_lock
    BY DEF Notify
  <2>9. Unlock(t) => Access(t, "unlock", Rest(t)) /\ wal_lock' = None
    BY DEF Unlock
  <2> QED BY <2>1, <2>2, <2>3, <2>4, <2>5, <2>6, <2>7, <2>8, <2>9
<1>2. /\ Requests' /\ wal_lock' \in Threads \cup {None}
      /\ op # "log" => Len(log) + Cardinality(Pending') <= setting.max_writes
      /\ op = "log" => Len(log) + 1 + Cardinality(Pending') <= setting.max_writes
      /\ setting' = setting /\ now' = now /\ restarts' = restarts
  BY <1>1, RestTurned
<1>3. /\ r # NoRequest /\ Step(t).op = op
  BY <1>1 DEF Access
<1>4. Goes(r) /\ Op(r) = op /\ Key(r) = k
  BY <1>1, <1>3, RestGoes DEF ViewInv
<1>5. /\ op \notin {"log", "unlock"} => k \in Keys
      /\ op \in {"add", "fill", "insert"} => r.writes[k] \in DbRecord
      /\ op = "notify" => r.writes[k] \in DbRecord \cup {Gone}
      /\ r.writes \in Writes
  <2>1. k \in Keys => r.writes[k] \in DbRecord \cup {Gone, None}
    BY <1>4 DEF Goes, Formed, Writes
  <2>2. r.kind = "delete" => k \in Keys /\ r.writes[k] = Gone
    BY <1>4 DEF Goes, DeleteGoes, NoWrites
  <2> QED BY <1>4, <2>1, <2>2 DEF Goes, PutGoes, DeleteGoes, CasGoes, TxGoes, PurgeGoes, Formed
<1>6. tree \in Trees /\ indexes \in Indexes /\ cache \in [Keys -> Values \cup {None}] /\ log \in Seq(Writes) /\ Watching
  BY DEF ViewInv
<1>7. CASE op = "unindex"
  <2>1. /\ indexes' = [x \in Texts |-> IF r.old # None /\ x \in extract_index_keys(r.old.value)
                                       THEN [indexes[x] EXCEPT !.keys = @ \ {k}] ELSE indexes[x]]
        /\ UNCHANGED <<tree, cache, log, watcher>>
    BY <1>1, <1>7 DEF Unindex
  <2>2. indexes' \in Indexes
    BY <1>6, <2>1 DEF Indexes
  <2> QED BY <1>2, <1>6, <1>7, <2>1, <2>2, TypedBy DEF Watching
<1>8. CASE op = "add"
  <2>1. UNCHANGED <<tree, cache, log, watcher>>
    BY <1>1, <1>8 DEF Add
  <2>2. indexes' = indexes \/ indexes' = [indexes EXCEPT ![NewText(t)].keys = @ \cup {k}]
    BY <1>1, <1>8 DEF Add
  <2>3. NewText(t) \in Texts
    BY <1>3, <1>8, NewTextFacts
  <2>4. indexes' \in Indexes
    BY <1>5, <1>6, <1>8, <2>2, <2>3 DEF Indexes
  <2> QED BY <1>2, <1>6, <1>8, <2>1, <2>4, TypedBy DEF Watching
<1>9. CASE op = "fill"
  <2>1. UNCHANGED <<tree, indexes, log, watcher>>
    BY <1>1, <1>9 DEF Fill
  <2>2. PICK victims : cache' = [j \in Keys |-> IF j \in victims THEN None
                                               ELSE IF j = k THEN r.writes[j].value ELSE cache[j]]
    BY <1>1, <1>9 DEF Fill
  <2>3. r.writes[k].value \in Values
    BY <1>5, <1>9 DEF DbRecord
  <2>4. cache' \in [Keys -> Values \cup {None}]
    BY <1>6, <2>2, <2>3
  <2> QED BY <1>2, <1>6, <1>9, <2>1, <2>4, TypedBy DEF Watching
<1>10. CASE op = "invalidate"
  <2>1. cache' = [cache EXCEPT ![k] = None] /\ UNCHANGED <<tree, indexes, log, watcher>>
    BY <1>1, <1>10 DEF Invalidate
  <2>2. cache' \in [Keys -> Values \cup {None}]
    BY <1>6, <2>1
  <2> QED BY <1>2, <1>6, <1>10, <2>1, <2>2, TypedBy DEF Watching
<1>11. CASE op = "log"
  <2>1. log' = Append(log, r.writes) /\ UNCHANGED <<tree, indexes, cache, watcher>>
    BY <1>1, <1>11 DEF Log
  <2>2. log' \in Seq(Writes) /\ Len(log') = Len(log) + 1
    BY <1>5, <1>6, <2>1, AppendProperties
  <2>3. Len(log') + Cardinality(Pending') <= setting.max_writes
    BY <1>2, <1>11, <2>2
  <2> QED BY <1>2, <1>6, <2>1, <2>2, <2>3, TypedBy DEF Watching
<1>12. CASE op = "insert"
  <2>1. tree' = [tree EXCEPT ![k] = r.writes[k]] /\ UNCHANGED <<indexes, cache, log, watcher>>
    BY <1>1, <1>12 DEF TreeInsert
  <2>2. tree' \in Trees
    BY <1>5, <1>6, <1>12, <2>1 DEF Trees
  <2> QED BY <1>2, <1>6, <1>12, <2>1, <2>2, TypedBy DEF Watching
<1>13. CASE op = "remove"
  <2>1. tree' = [tree EXCEPT ![k] = None] /\ UNCHANGED <<indexes, cache, log, watcher>>
    BY <1>1, <1>13 DEF TreeRemove
  <2>2. tree' \in Trees
    BY <1>6, <2>1 DEF Trees
  <2> QED BY <1>2, <1>6, <1>13, <2>1, <2>2, TypedBy DEF Watching
<1>14. CASE op = "notify"
  <2> DEFINE event == [key |-> k, new_value |-> r.writes[k].value]
  <2>1. /\ watcher' = IF watcher.on THEN [watcher EXCEPT !.rx = WatchChannel!Received(@, event)] ELSE watcher
        /\ UNCHANGED <<tree, indexes, cache, log>>
    BY <1>1, <1>14 DEF Notify
  <2>2. event \in Events
    BY <1>5, <1>14 DEF Events, DbRecord, Gone
  <2>3. /\ WatchChannel!Received(watcher.rx, event) \in [queue : Seq(Events), lagged : BOOLEAN]
        /\ Len(WatchChannel!Received(watcher.rx, event).queue) <= WatchCapacity
    <3> DEFINE q == watcher.rx.queue
    <3>1. q \in Seq(Events) /\ Len(q) <= WatchCapacity /\ watcher.rx \in [queue : Seq(Events), lagged : BOOLEAN]
          /\ WatchCapacity \in Nat \ {0} /\ Len(q) \in Nat
      BY <1>6, ViewsAssumption, LenProperties DEF Watching
    <3>2. CASE Len(q) < WatchCapacity
      <4>1. Append(q, event) \in Seq(Events) /\ Len(Append(q, event)) = Len(q) + 1
        BY <2>2, <3>1, AppendProperties
      <4>2. WatchChannel!Received(watcher.rx, event) = [watcher.rx EXCEPT !.queue = Append(q, event)]
        BY <3>2 DEF WatchChannel!Received
      <4>3. PICK s \in Seq(Events) : s = Append(q, event)
        BY <4>1
      <4>4. PICK rx \in [queue : Seq(Events), lagged : BOOLEAN] : rx = watcher.rx
        BY <3>1
      <4>5. [rx EXCEPT !.queue = s] \in [queue : Seq(Events), lagged : BOOLEAN] /\ [rx EXCEPT !.queue = s].queue = s
        OBVIOUS
      <4>6. Len(s) <= WatchCapacity
        BY <3>1, <3>2, <4>1, <4>3
      <4> QED BY <4>2, <4>3, <4>4, <4>5, <4>6
    <3>3. CASE ~(Len(q) < WatchCapacity)
      <4>1. q # <<>>
        BY <3>1, <3>3, EmptySeq
      <4>2. Tail(q) \in Seq(Events) /\ Len(Tail(q)) = Len(q) - 1
        BY <3>1, <4>1, HeadTailProperties
      <4>3. Append(Tail(q), event) \in Seq(Events) /\ Len(Append(Tail(q), event)) = Len(q)
        BY <2>2, <3>1, <4>2, AppendProperties
      <4> QED BY <3>1, <3>3, <4>3 DEF WatchChannel!Received
    <3> QED BY <3>2, <3>3
  <2>4. Watching'
    BY <1>6, <2>1, <2>3 DEF Watching
  <2> QED BY <1>2, <1>6, <1>14, <2>1, <2>4, TypedBy
<1>15. CASE op = "unlock"
  <2>1. UNCHANGED <<tree, indexes, cache, log, watcher>>
    BY <1>1, <1>15 DEF Unlock
  <2> QED BY <1>2, <1>6, <1>15, <2>1, TypedBy DEF Watching
<1> QED BY <1>7, <1>8, <1>9, <1>10, <1>11, <1>12, <1>13, <1>14, <1>15

(* A request as it begins.                                                 *)
Touched(writes) == {k \in Keys : writes[k] # None}

Opened(kind, writes, old, plan) ==
  [kind |-> kind, plan |-> plan, at |-> 1, writes |-> writes, todo |-> Touched(writes), old |-> old, set |-> 0]

(* A request as it begins is well formed.                                  *)
LEMMA OpenedFormed ==
  ASSUME NEW kind, NEW writes \in Writes, NEW old, old \in DbRecord \cup {None}, NEW plan,
         Len(plan) \in Nat \ {0}, DOMAIN plan = 1..Len(plan), NEW q, q = Opened(kind, writes, old, plan)
  PROVE  /\ Formed(q) /\ q # NoRequest /\ q.kind = kind /\ q.writes = writes /\ q.old = old /\ q.plan = plan
         /\ q.todo = Touched(writes)
         /\ Op(q) = plan[1].op /\ Key(q) = plan[1].key
<1>1. /\ q.kind = kind /\ q.writes = writes /\ q.old = old /\ q.plan = plan /\ q.at = 1
      /\ q.todo = Touched(writes) /\ q.set = 0
      /\ q = [kind |-> q.kind, plan |-> q.plan, at |-> q.at, writes |-> q.writes, todo |-> q.todo,
              old |-> q.old, set |-> q.set]
  BY DEF Opened
<1>2. Formed(q)
  BY <1>1 DEF Formed, Touched
<1>3. q # NoRequest
  BY <1>2 DEF Formed, NoRequest
<1> QED BY <1>1, <1>2, <1>3 DEF Op, Key

(* A command that writes one key.                                          *)
One(k, rec) == [NoWrites EXCEPT ![k] = rec]

(* It touches that key alone.                                              *)
LEMMA OneWrite ==
  ASSUME NEW k \in Keys, NEW rec \in DbRecord \cup {Gone}
  PROVE  One(k, rec) \in Writes /\ NoWrites \in Writes
BY DEF NoWrites, Writes, One

(* How each kind of request begins.                                        *)
LEMMA PutOpens ==
  ASSUME NEW k \in Keys, NEW rec \in DbRecord, NEW old \in DbRecord \cup {None},
         NEW q, q = Opened("put", One(k, rec), old, PutPlan(k, rec))
  PROVE  /\ Shape(q) /\ q # NoRequest /\ q.kind = "put" /\ q.writes = One(k, rec)
         /\ q.old = old /\ Op(q) = "unindex" /\ Key(q) = k
<1>1. PICK plan : plan = PutPlan(k, rec)
  OBVIOUS
<1>2. CASE rec.expires_at = None
  <2>1. Len(plan) = 8 /\ DOMAIN plan = 1..8 /\ plan[1].op = "unindex" /\ plan[1].key = k
    BY <1>1, <1>2 DEF PutPlan, Plan
  <2>2. Formed(q) /\ q # NoRequest /\ q.kind = "put" /\ q.writes = One(k, rec) /\ q.old = old
        /\ Op(q) = plan[1].op /\ Key(q) = plan[1].key /\ q.plan = plan
    <3>1. PICK w \in Writes : w = One(k, rec)
      BY <1>1, <2>1, OneWrite
    <3>2. q = Opened("put", w, old, plan) /\ old \in DbRecord \cup {None} /\ Len(plan) \in Nat \ {0} /\ DOMAIN plan = 1..Len(plan)
      BY <1>1, <2>1, <3>1
    <3>3. /\ Formed(q) /\ q # NoRequest /\ q.kind = "put" /\ q.writes = w /\ q.old = old /\ q.plan = plan
          /\ q.todo = Touched(w) /\ Op(q) = plan[1].op /\ Key(q) = plan[1].key
      BY <3>1, <3>2, OpenedFormed
    <3> QED BY <3>1, <3>3
  <2> QED BY <1>1, <2>1, <2>2 DEF Shape, PutShape, One
<1>3. CASE rec.expires_at # None
  <2>1. Len(plan) = 7 /\ DOMAIN plan = 1..7 /\ plan[1].op = "unindex" /\ plan[1].key = k
    BY <1>1, <1>3 DEF PutPlan, Plan
  <2>2. Formed(q) /\ q # NoRequest /\ q.kind = "put" /\ q.writes = One(k, rec) /\ q.old = old
        /\ Op(q) = plan[1].op /\ Key(q) = plan[1].key /\ q.plan = plan
    <3>1. PICK w \in Writes : w = One(k, rec)
      BY <1>1, <2>1, OneWrite
    <3>2. q = Opened("put", w, old, plan) /\ old \in DbRecord \cup {None} /\ Len(plan) \in Nat \ {0} /\ DOMAIN plan = 1..Len(plan)
      BY <1>1, <2>1, <3>1
    <3>3. /\ Formed(q) /\ q # NoRequest /\ q.kind = "put" /\ q.writes = w /\ q.old = old /\ q.plan = plan
          /\ q.todo = Touched(w) /\ Op(q) = plan[1].op /\ Key(q) = plan[1].key
      BY <3>1, <3>2, OpenedFormed
    <3> QED BY <3>1, <3>3
  <2> QED BY <1>1, <2>1, <2>2 DEF Shape, PutShape, One
<1> QED BY <1>2, <1>3

LEMMA DeleteOpens ==
  ASSUME NEW k \in Keys, NEW old \in DbRecord \cup {None},
         NEW q, q = Opened("delete", One(k, Gone), old, DeletePlan(k))
  PROVE  /\ Shape(q) /\ q # NoRequest /\ q.kind = "delete" /\ q.writes = One(k, Gone)
         /\ q.old = old /\ Op(q) = "unindex" /\ Key(q) = k
<1>1. PICK plan : plan = DeletePlan(k)
  OBVIOUS
<1>2. Len(plan) = 5 /\ DOMAIN plan = 1..5 /\ plan[1].op = "unindex" /\ plan[1].key = k
  BY <1>1 DEF DeletePlan, Plan
<1>3. Formed(q) /\ q # NoRequest /\ q.kind = "delete" /\ q.writes = One(k, Gone) /\ q.old = old
      /\ Op(q) = plan[1].op /\ Key(q) = plan[1].key /\ q.plan = plan
  <2>1. PICK w \in Writes : w = One(k, Gone)
    BY <1>1, <1>2, OneWrite
  <2>2. q = Opened("delete", w, old, plan) /\ old \in DbRecord \cup {None} /\ Len(plan) \in Nat \ {0} /\ DOMAIN plan = 1..Len(plan)
    BY <1>1, <1>2, <2>1
  <2>3. /\ Formed(q) /\ q # NoRequest /\ q.kind = "delete" /\ q.writes = w /\ q.old = old /\ q.plan = plan
        /\ q.todo = Touched(w) /\ Op(q) = plan[1].op /\ Key(q) = plan[1].key
    BY <2>1, <2>2, OpenedFormed
  <2> QED BY <2>1, <2>3
<1> QED BY <1>1, <1>2, <1>3 DEF Shape, DeleteShape, One

LEMMA CasOpens ==
  ASSUME NEW k \in Keys, NEW rec \in DbRecord, NEW old \in DbRecord \cup {None}, NEW live \in BOOLEAN,
         NEW q, q = Opened("cas", One(k, rec), old, CasPlan(k, live))
  PROVE  /\ Shape(q) /\ q # NoRequest /\ q.kind = "cas" /\ q.writes = One(k, rec)
         /\ q.old = old /\ Op(q) = (IF live THEN "unindex" ELSE "lookup") /\ Key(q) = k
<1>1. PICK plan : plan = CasPlan(k, live)
  OBVIOUS
<1>2. CASE live
  <2>1. Len(plan) = 9 /\ DOMAIN plan = 1..9 /\ plan[1].op = "unindex" /\ plan[1].key = k
    BY <1>1, <1>2 DEF CasPlan, Plan
  <2>2. Formed(q) /\ q # NoRequest /\ q.kind = "cas" /\ q.writes = One(k, rec) /\ q.old = old
        /\ Op(q) = plan[1].op /\ Key(q) = plan[1].key /\ q.plan = plan
    <3>1. PICK w \in Writes : w = One(k, rec)
      BY <1>1, <2>1, OneWrite
    <3>2. q = Opened("cas", w, old, plan) /\ old \in DbRecord \cup {None} /\ Len(plan) \in Nat \ {0} /\ DOMAIN plan = 1..Len(plan)
      BY <1>1, <2>1, <3>1
    <3>3. /\ Formed(q) /\ q # NoRequest /\ q.kind = "cas" /\ q.writes = w /\ q.old = old /\ q.plan = plan
          /\ q.todo = Touched(w) /\ Op(q) = plan[1].op /\ Key(q) = plan[1].key
      BY <3>1, <3>2, OpenedFormed
    <3> QED BY <3>1, <3>3
  <2> QED BY <1>1, <1>2, <2>1, <2>2 DEF Shape, CasShape, One
<1>3. CASE ~live
  <2>1. Len(plan) = 8 /\ DOMAIN plan = 1..8 /\ plan[1].op = "lookup" /\ plan[1].key = k
    BY <1>1, <1>3 DEF CasPlan, Plan
  <2>2. Formed(q) /\ q # NoRequest /\ q.kind = "cas" /\ q.writes = One(k, rec) /\ q.old = old
        /\ Op(q) = plan[1].op /\ Key(q) = plan[1].key /\ q.plan = plan
    <3>1. PICK w \in Writes : w = One(k, rec)
      BY <1>1, <2>1, OneWrite
    <3>2. q = Opened("cas", w, old, plan) /\ old \in DbRecord \cup {None} /\ Len(plan) \in Nat \ {0} /\ DOMAIN plan = 1..Len(plan)
      BY <1>1, <2>1, <3>1
    <3>3. /\ Formed(q) /\ q # NoRequest /\ q.kind = "cas" /\ q.writes = w /\ q.old = old /\ q.plan = plan
          /\ q.todo = Touched(w) /\ Op(q) = plan[1].op /\ Key(q) = plan[1].key
      BY <3>1, <3>2, OpenedFormed
    <3> QED BY <3>1, <3>3
  <2> QED BY <1>1, <1>3, <2>1, <2>2 DEF Shape, CasShape, One
<1> QED BY <1>2, <1>3

LEMMA TxOpens ==
  ASSUME NEW writes \in Writes, NEW q, q = Opened("tx", writes, None, TxPlan)
  PROVE  /\ Shape(q) /\ q # NoRequest /\ q.kind = "tx" /\ q.writes = writes
         /\ q.todo = Touched(writes) /\ Op(q) = "log" /\ Key(q) = None
<1>1. PICK plan : plan = TxPlan
  OBVIOUS
<1>2. Len(plan) = 2 /\ DOMAIN plan = 1..2 /\ plan[1].op = "log" /\ plan[1].key = None
  BY <1>1 DEF TxPlan, Plan
<1>3. Formed(q) /\ q # NoRequest /\ q.kind = "tx" /\ q.writes = writes /\ q.todo = Touched(writes)
      /\ Op(q) = plan[1].op /\ Key(q) = plan[1].key /\ q.plan = plan
  <2>1. PICK w \in Writes : w = writes
    BY <1>1, <1>2
  <2>2. q = Opened("tx", w, None, plan) /\ Len(plan) \in Nat \ {0} /\ DOMAIN plan = 1..Len(plan)
    BY <1>1, <1>2, <2>1
  <2>3. /\ Formed(q) /\ q # NoRequest /\ q.kind = "tx" /\ q.writes = w /\ q.old = None /\ q.plan = plan
        /\ q.todo = Touched(w) /\ Op(q) = plan[1].op /\ Key(q) = plan[1].key
    BY <2>1, <2>2, OpenedFormed
  <2> QED BY <2>1, <2>3
<1> QED BY <1>1, <1>2, <1>3 DEF Shape, TxShape

LEMMA PurgeOpens ==
  ASSUME NEW k \in Keys, NEW old \in DbRecord \cup {None},
         NEW q, q = Opened("purge", NoWrites, old, PurgePlan(k))
  PROVE  /\ Shape(q) /\ q # NoRequest /\ q.kind = "purge" /\ q.writes = NoWrites
         /\ q.old = old /\ Op(q) = "unindex" /\ Key(q) = k
<1>1. PICK plan : plan = PurgePlan(k)
  OBVIOUS
<1>2. Len(plan) = 2 /\ DOMAIN plan = 1..2 /\ plan[1].op = "unindex" /\ plan[1].key = k
  BY <1>1 DEF PurgePlan, Plan
<1>3. NoWrites \in Writes
  BY OneWrite, RecordAssumption DEF NoWrites, Writes
<1>4. Formed(q) /\ q # NoRequest /\ q.kind = "purge" /\ q.writes = NoWrites /\ q.old = old
      /\ Op(q) = plan[1].op /\ Key(q) = plan[1].key /\ q.plan = plan
  <2>1. PICK w \in Writes : w = NoWrites
    BY <1>1, <1>2, <1>3
  <2>2. q = Opened("purge", w, old, plan) /\ old \in DbRecord \cup {None} /\ Len(plan) \in Nat \ {0} /\ DOMAIN plan = 1..Len(plan)
    BY <1>1, <1>2, <1>3, <2>1
  <2>3. /\ Formed(q) /\ q # NoRequest /\ q.kind = "purge" /\ q.writes = w /\ q.old = old /\ q.plan = plan
        /\ q.todo = Touched(w) /\ Op(q) = plan[1].op /\ Key(q) = plan[1].key
    BY <2>1, <2>2, OpenedFormed
  <2> QED BY <2>1, <2>3
<1> QED BY <1>1, <1>2, <1>4 DEF Shape, PurgeShape

(* A write begins only if the log has room for it.                         *)
LEMMA Begun ==
  ASSUME ViewInv, NEW t \in Threads, NEW kind, NEW writes, NEW old, NEW plan, NEW q,
         Begin(t, kind, writes, old, plan), q = Opened(kind, writes, old, plan),
         Shape(q), q # NoRequest, Op(q) \notin {"create", "add"}, q.kind = kind,
         MayWrite \/ kind = "purge",
         IF kind \in {"cas", "tx"} THEN wal_lock = None /\ wal_lock' = t ELSE wal_lock' = wal_lock
  PROVE  ViewInv' /\ req' = [req EXCEPT ![t] = q] /\ req[t] = NoRequest
<1>1. /\ req[t] = NoRequest /\ kind \in setting.ops[t]
      /\ UNCHANGED <<setting, tree, indexes, cache, log, watcher, now, restarts>>
  BY DEF Begin
<1>2. req' = [req EXCEPT ![t] = q]
  <2>1. PICK p : p = [NoRequest EXCEPT !.kind = kind, !.plan = plan, !.writes = writes, !.old = old,
                                       !.todo = Touched(writes)]
    OBVIOUS
  <2>2. PICK nr : nr = NoRequest
    OBVIOUS
  <2>3. /\ nr = [kind |-> nr.kind, plan |-> nr.plan, at |-> nr.at, writes |-> nr.writes, todo |-> nr.todo,
                 old |-> nr.old, set |-> nr.set]
        /\ nr.at = 1 /\ nr.set = 0
    BY <2>2 DEF NoRequest
  <2>4. /\ p = [kind |-> p.kind, plan |-> p.plan, at |-> p.at, writes |-> p.writes, todo |-> p.todo,
                old |-> p.old, set |-> p.set]
        /\ p.kind = kind /\ p.plan = plan /\ p.writes = writes /\ p.old = old /\ p.todo = Touched(writes)
        /\ p.at = 1 /\ p.set = 0
    BY <2>1, <2>2, <2>3
  <2>5. q = p
    BY <2>4 DEF Opened
  <2> QED BY <2>1, <2>5 DEF Begin, Touched
<1>3. req = [u \in Threads |-> req[u]]
  BY DEF ViewInv, Requests
<1>4. req' = [u \in Threads |-> IF u = t THEN q ELSE req[u]]
  BY <1>2, <1>3
<1>5. (\A u \in Threads : req'[u] = IF u = t THEN q ELSE req[u]) /\ req' = [u \in Threads |-> req'[u]]
  BY <1>4
<1>6. \A u \in Threads : Shape(req'[u]) /\ (req'[u] # NoRequest => req'[u].kind \in setting'.ops[u])
  BY <1>1, <1>5 DEF ViewInv, Requests
<1>7. NoRequest.kind = "none"
  BY DEF NoRequest
<1>8. ASSUME NEW u \in Threads
      PROVE  wal_lock' = u <=> req'[u].kind \in {"cas", "tx"}
  <2>1. \A s \in Threads : (wal_lock = s <=> req[s].kind \in {"cas", "tx"}) /\ None # s
    BY ViewsAssumption DEF ViewInv, Requests
  <2> QED BY <1>1, <1>5, <1>7, <2>1
<1>9. \A u \in Threads : Named(req'[u])
  BY <1>5 DEF Named, ViewInv, Requests
<1>10. Requests'
  BY <1>5, <1>6, <1>8, <1>9 DEF Requests, Named
<1>11. wal_lock' \in Threads \cup {None}
  BY DEF ViewInv
<1>12. Pending = {u \in Threads : req[u].kind \notin {"none", "purge"} /\ Logs(req[u])} /\ IsFiniteSet(Pending)
  BY PendingLogs
<1>13. Pending' = {u \in Threads : req'[u].kind \notin {"none", "purge"} /\ Logs(req'[u])}
  BY DEF Pending, Logs
<1>14. Len(log) \in Nat /\ setting.max_writes \in Nat /\ Cardinality(Pending) \in Nat
       /\ Len(log) + Cardinality(Pending) <= setting.max_writes
  BY <1>12, ViewsAssumption, LenProperties, FS_CardinalityType DEF ViewInv, Workload
<1>15. Len(log') + Cardinality(Pending') <= setting.max_writes
  <2>1. CASE kind = "purge"
    <3>1. Pending' \subseteq Pending
      BY <1>5, <1>12, <1>13, <2>1
    <3>2. Cardinality(Pending') <= Cardinality(Pending) /\ Cardinality(Pending') \in Nat
      BY <1>12, <3>1, FS_Subset, FS_CardinalityType
    <3> QED BY <1>1, <1>14, <3>2
  <2>2. CASE kind # "purge"
    <3>1. Pending' \subseteq Pending \cup {t}
      BY <1>5, <1>12, <1>13
    <3>2. IsFiniteSet(Pending \cup {t}) /\ Cardinality(Pending \cup {t}) <= Cardinality(Pending) + 1
          /\ Cardinality(Pending \cup {t}) \in Nat
      <4>1. IsFiniteSet(Pending \cup {t})
            /\ Cardinality(Pending \cup {t}) = IF t \in Pending THEN Cardinality(Pending) ELSE Cardinality(Pending) + 1
        BY <1>12, FS_AddElement
      <4> QED BY <1>14, <4>1
    <3>3. Cardinality(Pending') <= Cardinality(Pending \cup {t}) /\ Cardinality(Pending') \in Nat
      BY <3>1, <3>2, FS_Subset, FS_CardinalityType
    <3> QED BY <1>1, <1>14, <2>2, <3>2, <3>3 DEF MayWrite
  <2> QED BY <2>1, <2>2
<1>16. ViewInv'
  BY <1>1, <1>10, <1>11, <1>15, TypedBy DEF ViewInv, Watching
<1> QED BY <1>1, <1>2, <1>16

(* What a request that begins is about to do.                              *)
Opening(q) ==
  /\ Shape(q) /\ q # NoRequest /\ \A k \in Keys : q.writes[k] \in Records \cup {Gone, None}
  /\ \/ q.kind \in {"put", "delete"} /\ Op(q) = "unindex" /\ q.old = tree[Key(q)]
     \/ q.kind = "cas" /\ Op(q) = (IF Live(Key(q)) THEN "unindex" ELSE "lookup") /\ q.old = tree[Key(q)]
     \/ q.kind = "tx" /\ Op(q) = "log"
     \/ /\ q.kind = "purge" /\ Op(q) = "unindex" /\ q.old = tree[Key(q)]
        /\ tree[Key(q)] # None /\ is_expired(tree[Key(q)])

(* Whatever request begins, it changes nothing but the mutex.              *)
LEMMA RequestOpens ==
  ASSUME ViewInv, NEW t \in Threads, Request(t)
  PROVE  /\ ViewInv' /\ UNCHANGED <<setting, tree, indexes, cache, log, watcher, now, restarts>>
         /\ req[t] = NoRequest /\ \E q : req' = [req EXCEPT ![t] = q] /\ Opening(q)
<1>1. \A k \in Keys : tree[k] \in DbRecord \cup {None}
  BY DEF ViewInv, Trees
<1>2. Records \subseteq DbRecord
  BY DEF Records, DbRecord, ViewInv
<1>3. setting.keys \subseteq Keys
  BY ViewsAssumption DEF ViewInv, Workload
<1>4. ASSUME NEW k \in Keys, NEW rec, rec \in Records \cup {Gone}, NEW j \in Keys
      PROVE  One(k, rec)[j] \in Records \cup {Gone, None}
  BY <1>4 DEF NoWrites, One
<1>5. ASSUME NEW k \in setting.keys, NEW rec \in Records, PutBegin(t, k, rec)
      PROVE  /\ ViewInv' /\ UNCHANGED <<setting, tree, indexes, cache, log, watcher, now, restarts>>
             /\ req[t] = NoRequest /\ \E q : req' = [req EXCEPT ![t] = q] /\ Opening(q)
  <2>1. PICK q, w, old, plan : q = Opened("put", w, old, plan) /\ w = One(k, rec)
                               /\ old = tree[k] /\ plan = PutPlan(k, rec)
    OBVIOUS
  <2>2. /\ Shape(q) /\ q # NoRequest /\ q.kind = "put" /\ q.writes = w /\ q.old = old /\ Op(q) = "unindex" /\ Key(q) = k
    BY <1>1, <1>2, <1>3, <2>1, PutOpens
  <2>3. Begin(t, "put", w, old, plan) /\ MayWrite /\ wal_lock' = wal_lock
    BY <1>5, <2>1 DEF PutBegin, One
  <2>4. ViewInv' /\ req' = [req EXCEPT ![t] = q] /\ req[t] = NoRequest
    BY <2>1, <2>2, <2>3, Begun
  <2>5. UNCHANGED <<setting, tree, indexes, cache, log, watcher, now, restarts>>
    BY <2>3 DEF Begin
  <2>6. Opening(q)
    BY <1>3, <1>4, <2>1, <2>2 DEF Opening
  <2> QED BY <2>4, <2>5, <2>6
<1>6. ASSUME NEW k \in setting.keys, NEW rec \in Records, CasBegin(t, k, rec)
      PROVE  /\ ViewInv' /\ UNCHANGED <<setting, tree, indexes, cache, log, watcher, now, restarts>>
             /\ req[t] = NoRequest /\ \E q : req' = [req EXCEPT ![t] = q] /\ Opening(q)
  <2>1. PICK q, w, old, plan : q = Opened("cas", w, old, plan) /\ w = One(k, rec)
                               /\ old = tree[k] /\ plan = CasPlan(k, Live(k))
    OBVIOUS
  <2>2. /\ Shape(q) /\ q # NoRequest /\ q.kind = "cas" /\ q.writes = w /\ q.old = old
        /\ Op(q) = (IF Live(k) THEN "unindex" ELSE "lookup") /\ Key(q) = k
    <3>1. PICK live \in BOOLEAN : live = Live(k)
      BY DEF Live
    <3> QED BY <1>1, <1>2, <1>3, <2>1, <3>1, CasOpens
  <2>3. Begin(t, "cas", w, old, plan) /\ MayWrite /\ wal_lock = None /\ wal_lock' = t
    BY <1>6, <2>1 DEF CasBegin, One
  <2>4. ViewInv' /\ req' = [req EXCEPT ![t] = q] /\ req[t] = NoRequest
    BY <2>1, <2>2, <2>3, Begun
  <2>5. UNCHANGED <<setting, tree, indexes, cache, log, watcher, now, restarts>>
    BY <2>3 DEF Begin
  <2>6. Opening(q)
    BY <1>3, <1>4, <2>1, <2>2 DEF Opening
  <2> QED BY <2>4, <2>5, <2>6
<1>7. ASSUME NEW k \in setting.keys, DeleteBegin(t, k)
      PROVE  /\ ViewInv' /\ UNCHANGED <<setting, tree, indexes, cache, log, watcher, now, restarts>>
             /\ req[t] = NoRequest /\ \E q : req' = [req EXCEPT ![t] = q] /\ Opening(q)
  <2>1. PICK q, w, old, plan : q = Opened("delete", w, old, plan) /\ w = One(k, Gone)
                               /\ old = tree[k] /\ plan = DeletePlan(k)
    OBVIOUS
  <2>2. /\ Shape(q) /\ q # NoRequest /\ q.kind = "delete" /\ q.writes = w /\ q.old = old /\ Op(q) = "unindex" /\ Key(q) = k
    BY <1>1, <1>3, <2>1, DeleteOpens
  <2>3. Begin(t, "delete", w, old, plan) /\ MayWrite /\ wal_lock' = wal_lock
    BY <1>7, <2>1 DEF DeleteBegin, One
  <2>4. ViewInv' /\ req' = [req EXCEPT ![t] = q] /\ req[t] = NoRequest
    BY <2>1, <2>2, <2>3, Begun
  <2>5. UNCHANGED <<setting, tree, indexes, cache, log, watcher, now, restarts>>
    BY <2>3 DEF Begin
  <2>6. Opening(q)
    BY <1>3, <1>4, <2>1, <2>2 DEF Opening
  <2> QED BY <2>4, <2>5, <2>6
<1>8. ASSUME NEW k \in setting.keys, PurgeBegin(t, k)
      PROVE  /\ ViewInv' /\ UNCHANGED <<setting, tree, indexes, cache, log, watcher, now, restarts>>
             /\ req[t] = NoRequest /\ \E q : req' = [req EXCEPT ![t] = q] /\ Opening(q)
  <2>1. PICK q, w, old, plan : q = Opened("purge", w, old, plan) /\ w = NoWrites
                               /\ old = tree[k] /\ plan = PurgePlan(k)
    OBVIOUS
  <2>2. /\ Shape(q) /\ q # NoRequest /\ q.kind = "purge" /\ q.writes = w /\ q.old = old /\ Op(q) = "unindex" /\ Key(q) = k
    BY <1>1, <1>3, <2>1, PurgeOpens
  <2>3. Begin(t, "purge", w, old, plan) /\ wal_lock' = wal_lock /\ tree[k] # None /\ is_expired(tree[k])
    BY <1>8, <2>1 DEF PurgeBegin
  <2>4. ViewInv' /\ req' = [req EXCEPT ![t] = q] /\ req[t] = NoRequest
    BY <2>1, <2>2, <2>3, Begun
  <2>5. UNCHANGED <<setting, tree, indexes, cache, log, watcher, now, restarts>>
    BY <2>3 DEF Begin
  <2>6. Opening(q)
    BY <1>3, <2>1, <2>2, <2>3 DEF Opening, NoWrites
  <2> QED BY <2>4, <2>5, <2>6
<1>9. ASSUME NEW writes \in TxWrites, TxCommit(t, writes)
      PROVE  /\ ViewInv' /\ UNCHANGED <<setting, tree, indexes, cache, log, watcher, now, restarts>>
             /\ req[t] = NoRequest /\ \E q : req' = [req EXCEPT ![t] = q] /\ Opening(q)
  <2>1. PICK q, old, plan : q = Opened("tx", writes, old, plan) /\ old = None /\ plan = TxPlan
    OBVIOUS
  <2>2. writes \in Writes /\ \A k \in Keys : writes[k] \in Records \cup {Gone, None}
    BY <1>2 DEF TxWrites, Writes
  <2>3. Shape(q) /\ q # NoRequest /\ q.kind = "tx" /\ q.writes = writes /\ Op(q) = "log"
    BY <2>1, <2>2, TxOpens
  <2>4. Begin(t, "tx", writes, old, plan) /\ MayWrite /\ wal_lock = None /\ wal_lock' = t
    BY <1>9, <2>1 DEF TxCommit
  <2>5. ViewInv' /\ req' = [req EXCEPT ![t] = q] /\ req[t] = NoRequest
    BY <2>1, <2>3, <2>4, Begun
  <2>6. UNCHANGED <<setting, tree, indexes, cache, log, watcher, now, restarts>>
    BY <2>4 DEF Begin
  <2>7. Opening(q)
    BY <2>2, <2>3 DEF Opening
  <2> QED BY <2>5, <2>6, <2>7
<1> QED BY <1>5, <1>6, <1>7, <1>8, <1>9 DEF Request

(* Every access keeps the types.                                           *)
LEMMA HandleTyped ==
  ASSUME ViewInv, NEW t \in Threads, Handle(t)
  PROVE  ViewInv'
BY NextKeyTyped, ReadTyped, LookupTyped, CreateTyped, PlainTyped DEF Handle

(* A stream that is not open is well typed.                                *)
LEMMA WatcherTyped == NoWatcher \in [on : BOOLEAN, rx : [queue : Seq(Events), lagged : BOOLEAN],
                                      view : [Keys -> Values \cup {"gone", None}], missed : BOOLEAN]
                      /\ NoWatcher.rx = WatchChannel!NewReceiver /\ NoWatcher.rx.queue = <<>>
                      /\ NoWatcher.rx.lagged = FALSE /\ NoWatcher.on = FALSE /\ NoWatcher.missed = FALSE
                      /\ NoWatcher.view = [k \in Keys |-> None]
<1>1. <<>> \in Seq(Events)
  OBVIOUS
<1>2. PICK s \in Seq(Events) : s = <<>>
  BY <1>1
<1>3. NoWatcher = [on |-> FALSE, rx |-> [queue |-> s, lagged |-> FALSE], view |-> [k \in Keys |-> None],
                   missed |-> FALSE]
  BY <1>2 DEF NoWatcher, WatchChannel!NewReceiver
<1>4. PICK v \in [Keys -> Values \cup {"gone", None}] : v = [k \in Keys |-> None]
  OBVIOUS
<1>5. WatchChannel!NewReceiver = [queue |-> s, lagged |-> FALSE]
  BY <1>2 DEF WatchChannel!NewReceiver
<1> QED BY <1>2, <1>3, <1>4, <1>5

(* Streams.                                                                *)
Watchers == [on : BOOLEAN, rx : [queue : Seq(Events), lagged : BOOLEAN],
             view : [Keys -> Values \cup {"gone", None}], missed : BOOLEAN]

(* The receiver after the error Lagged has been dropped.                   *)
LEMMA LaggedFacts ==
  ASSUME NEW S, NEW rx \in [queue : S, lagged : BOOLEAN]
  PROVE  \E ry \in [queue : S, lagged : BOOLEAN] :
           ry = [rx EXCEPT !.lagged = FALSE] /\ ry.queue = rx.queue /\ ry.lagged = FALSE
<1>1. /\ [rx EXCEPT !.lagged = FALSE] \in [queue : S, lagged : BOOLEAN]
      /\ [rx EXCEPT !.lagged = FALSE].queue = rx.queue /\ [rx EXCEPT !.lagged = FALSE].lagged = FALSE
  OBVIOUS
<1> QED BY <1>1

(* The client of a watch stream keeps the types.                           *)
LEMMA WatchTyped ==
  ASSUME ViewInv, Watch \/ WatchNext
  PROVE  ViewInv'
<1>1. UNCHANGED <<setting, tree, indexes, cache, wal_lock, log, req, now, restarts>>
  BY DEF Watch, WatchNext
<1>2. Requests' /\ Pending' = Pending
  BY <1>1 DEF ViewInv, Requests, Pending
<1>3. Watching
  BY DEF ViewInv
<1>4. WatchCapacity \in Nat \ {0} /\ Len(<<>>) = 0
  BY ViewsAssumption
<1>5. ASSUME Watch PROVE Watching'
  <2>1. watcher' = [NoWatcher EXCEPT !.on = TRUE]
    BY <1>5 DEF Watch
  <2>2. PICK nw : nw = NoWatcher
    OBVIOUS
  <2>3. nw \in Watchers /\ nw.rx.queue = <<>>
    BY <2>2, WatcherTyped DEF Watchers
  <2>4. [nw EXCEPT !.on = TRUE] \in Watchers /\ [nw EXCEPT !.on = TRUE].rx = nw.rx
    BY <2>3 DEF Watchers
  <2> QED BY <1>4, <2>1, <2>2, <2>3, <2>4 DEF Watching, Watchers
<1>6. ASSUME WatchNext PROVE Watching'
  <2>1. PICK rx \in [queue : Seq(Events), lagged : BOOLEAN] : rx = watcher.rx /\ Len(rx.queue) <= WatchCapacity
    BY <1>3 DEF Watching
  <2>2. CASE rx.lagged
    <3>1. watcher' = [watcher EXCEPT !.rx = [rx EXCEPT !.lagged = FALSE], !.missed = TRUE]
      BY <1>6, <2>1, <2>2 DEF WatchNext, WatchChannel!Popped
    <3>2. PICK ry \in [queue : Seq(Events), lagged : BOOLEAN] : ry = [rx EXCEPT !.lagged = FALSE] /\ ry.queue = rx.queue
      BY LaggedFacts
    <3>3. watcher' = [watcher EXCEPT !.rx = ry, !.missed = TRUE]
      BY <3>1, <3>2
    <3> QED BY <1>3, <2>1, <3>2, <3>3 DEF Watching
  <2>3. CASE ~rx.lagged
    <3>1. rx.queue # <<>>
      BY <1>6, <2>1, <2>3 DEF WatchNext
    <3>2. PICK event : event = Head(rx.queue)
      OBVIOUS
    <3>3. watcher' = [watcher EXCEPT !.rx = [rx EXCEPT !.queue = Tail(rx.queue)], !.view[event.key] = event.new_value]
      BY <1>6, <2>1, <2>3, <3>2 DEF WatchNext, WatchChannel!Popped
    <3>4. event \in Events /\ Tail(rx.queue) \in Seq(Events) /\ Len(Tail(rx.queue)) = Len(rx.queue) - 1 /\ Len(rx.queue) \in Nat
      BY <2>1, <3>1, <3>2, HeadTailProperties, LenProperties
    <3>5. PICK s \in Seq(Events) : s = Tail(rx.queue)
      BY <3>4
    <3>6. PICK ry \in [queue : Seq(Events), lagged : BOOLEAN] :
            ry = [rx EXCEPT !.queue = s] /\ ry.queue = s /\ ry.lagged = rx.lagged
      <4>1. rx \in [queue : Seq(Events), lagged : BOOLEAN] /\ s \in Seq(Events)
        BY <2>1, <3>5
      <4>2. /\ [rx EXCEPT !.queue = s] \in [queue : Seq(Events), lagged : BOOLEAN]
            /\ [rx EXCEPT !.queue = s].queue = s /\ [rx EXCEPT !.queue = s].lagged = rx.lagged
        BY <4>1
      <4> QED BY <4>2
    <3>7. watcher' = [watcher EXCEPT !.rx = ry, !.view[event.key] = event.new_value]
      BY <3>3, <3>5, <3>6
    <3>8. event.key \in Keys /\ event.new_value \in Values \cup {"gone"}
      BY <3>4 DEF Events
    <3>9. Len(s) <= WatchCapacity
      BY <1>4, <2>1, <3>4, <3>5
    <3> QED BY <1>3, <2>1, <3>6, <3>7, <3>8, <3>9 DEF Watching
  <2> QED BY <2>2, <2>3
<1> QED BY <1>1, <1>2, <1>5, <1>6, TypedBy DEF ViewInv

(* Nothing is under way, as after a start.                                 *)
Fresh == req = [t \in Threads |-> NoRequest] /\ wal_lock = None

NoneOpen == Requests /\ Pending = {}

(* Then no request waits to log.                                           *)
LEMMA FreshOpen == Fresh => NoneOpen
<1> SUFFICES ASSUME Fresh PROVE NoneOpen
  OBVIOUS
<1>1. \A t \in Threads : req[t] = NoRequest
  BY DEF Fresh
<1>2. NoRequest.kind = "none"
  BY DEF NoRequest
<1>3. Pending = {}
  BY <1>1, <1>2 DEF Pending
<1>4. \A t \in Threads : Shape(req[t]) /\ Named(req[t]) /\ req[t].kind = "none" /\ t # None
  BY <1>1, <1>2, ViewsAssumption DEF Shape, Named
<1>5. \A t \in Threads : Shape(req[t]) /\ (req[t] # NoRequest => req[t].kind \in setting.ops[t])
  BY <1>1, <1>4
<1> QED BY <1>1, <1>3, <1>4, <1>5 DEF Requests, NoneOpen, Fresh

(* A restart keeps the types.                                              *)
LEMMA RestartTyped ==
  ASSUME ViewInv, Restart
  PROVE  ViewInv'
<1>1. PICK new : new = Rebuilt[Len(log)]
  OBVIOUS
<1>2. /\ tree' = new.tree /\ indexes' = new.indexes /\ restarts' = restarts + 1
      /\ cache' = [k \in Keys |-> None] /\ wal_lock' = None /\ req' = [t \in Threads |-> NoRequest]
      /\ watcher' = NoWatcher /\ UNCHANGED <<setting, log, now>>
  BY <1>1 DEF Restart
<1>3. WellBuilt(new)
  BY <1>1, RebuiltBuilt DEF ViewInv
<1>4. tree' \in Trees /\ indexes' \in Indexes
  BY <1>2, <1>3 DEF WellBuilt
<1>5. Requests' /\ Pending' = {}
  <2>1. Fresh' => NoneOpen'
    BY FreshOpen, PTL
  <2> QED BY <1>2, <2>1 DEF Fresh, NoneOpen
<1>6. Watching'
  BY <1>2, WatcherTyped, ViewsAssumption DEF Watching
<1>7. Cardinality(Pending') = 0
  BY <1>5, FS_EmptySet
<1>8. Len(log) \in Nat /\ setting.max_writes \in Nat /\ Len(log) <= setting.max_writes
  <2>1. Cardinality(Pending) \in Nat
    BY PendingLogs, FS_CardinalityType
  <2> QED BY <2>1, ViewsAssumption, LenProperties DEF ViewInv, Workload
<1>9. Len(log') + Cardinality(Pending') <= setting'.max_writes
  BY <1>2, <1>7, <1>8
<1> QED BY <1>2, <1>4, <1>5, <1>6, <1>9 DEF ViewInv, Trees, Indexes

(* The types hold at the start ...                                         *)
LEMMA ViewInit == Init => ViewInv
<1> SUFFICES ASSUME Init PROVE ViewInv
  OBVIOUS
<1>1. Requests /\ Pending = {}
  BY FreshOpen DEF Init, Fresh, NoneOpen
<1>2. Cardinality(Pending) = 0
  BY <1>1, FS_EmptySet
<1>3. tree \in Trees /\ indexes \in Indexes
  BY EmptyBuilt DEF Init, WellBuilt
<1>4. Watching
  BY WatcherTyped, ViewsAssumption DEF Watching, Init
<1>5. log \in Seq(Writes) /\ Len(log) = 0 /\ setting.max_writes \in Nat
  BY ViewsAssumption DEF Init, Workload
<1> QED BY <1>1, <1>2, <1>3, <1>4, <1>5 DEF Init, ViewInv

(* ... and every step keeps them.                                          *)
LEMMA ViewStep == ViewInv /\ [Next]_vars => ViewInv'
<1> SUFFICES ASSUME ViewInv, [Next]_vars PROVE ViewInv'
  OBVIOUS
<1>1. ASSUME NEW t \in Threads, Request(t) PROVE ViewInv'
  BY <1>1, RequestOpens
<1>2. ASSUME NEW t \in Threads, Handle(t) PROVE ViewInv'
  BY <1>2, HandleTyped
<1>3. CASE Watch \/ WatchNext
  BY <1>3, WatchTyped
<1>4. CASE Tick
  <2>1. now' = now + 1 /\ UNCHANGED <<setting, tree, indexes, cache, wal_lock, log, req, watcher, restarts>>
    BY <1>4 DEF Tick
  <2>2. Requests' /\ Pending' = Pending /\ Watching'
    BY <2>1 DEF ViewInv, Requests, Pending, Watching
  <2> QED BY <2>1, <2>2 DEF ViewInv, Trees, Indexes
<1>5. CASE Restart
  BY <1>5, RestartTyped
<1>6. CASE UNCHANGED vars
  <2>1. Requests' /\ Pending' = Pending /\ Watching'
    BY <1>6 DEF vars, ViewInv, Requests, Pending, Watching
  <2> QED BY <1>6, <2>1 DEF vars, ViewInv, Trees, Indexes
<1> QED BY <1>1, <1>2, <1>3, <1>4, <1>5, <1>6 DEF Next

(* The types always hold.                                                  *)
LEMMA ViewAlways == Spec => []ViewInv
BY ViewInit, ViewStep, PTL DEF Spec

(* The mutex is held by whoever serves a cas or a commit and by nobody     *)
(* else, the log stays within its bound and the read side keeps its types, *)
(* for any threads, keys, values and workloads, across restarts.           *)
THEOREM ViewsTyped == Spec => []TypeOK
<1>1. ViewInv => TypeOK
  <2> SUFFICES ASSUME ViewInv PROVE TypeOK
    OBVIOUS
  <2>1. Cardinality(Pending) \in Nat
    BY PendingLogs, FS_CardinalityType
  <2>2. Len(log) <= setting.max_writes
    BY <2>1, ViewsAssumption, LenProperties DEF ViewInv, Workload
  <2> QED BY <2>2 DEF ViewInv, TypeOK, Requests, Watching, Trees, Indexes
<1> QED BY <1>1, ViewAlways, PTL
-----------------------------------------------------------------------------
(* Steps.                                                                  *)

(* op follows the access that r is about to do.                            *)
After(r, op) ==
  /\ r.kind = "put" =>
       /\ Op(r) # "notify" /\ (Op(r) = "unindex" => op = "lookup")
       /\ Op(r) = "lookup" => op \in {"create", "add", PutNext(r)}
       /\ (Op(r) = "create" => op = "add") /\ (Op(r) = "add" => op = PutNext(r))
       /\ (Op(r) = "fill" => op = "log") /\ (Op(r) = "log" => op = "insert") /\ (Op(r) = "insert" => op = "notify")
  /\ r.kind = "delete" =>
       /\ Op(r) # "notify" /\ (Op(r) = "unindex" => op = "remove") /\ (Op(r) = "remove" => op = "invalidate")
       /\ (Op(r) = "invalidate" => op = "log") /\ (Op(r) = "log" => op = "notify")
  /\ r.kind = "cas" =>
       /\ Op(r) # "unlock" /\ (Op(r) = "unindex" => op = "lookup")
       /\ Op(r) = "lookup" => op \in {"create", "add", "invalidate"}
       /\ (Op(r) = "create" => op = "add") /\ (Op(r) = "add" => op = "invalidate")
       /\ (Op(r) = "invalidate" => op = "log") /\ (Op(r) = "log" => op = "insert")
       /\ (Op(r) = "insert" => op = "notify") /\ (Op(r) = "notify" => op = "unlock")
  /\ r.kind = "tx" =>
       /\ Op(r) # "unlock" /\ (Op(r) = "log" => op = "next") /\ (Op(r) = "read" => op = "unindex")
       /\ Op(r) = "unindex" => op = IF r.writes[Key(r)] = Gone THEN "remove" ELSE "insert"
       /\ (Op(r) = "insert" => op = "lookup") /\ (Op(r) = "lookup" => op \in {"create", "add", "notify"})
       /\ (Op(r) = "create" => op = "add") /\ (Op(r) = "add" => op = "notify") /\ (Op(r) = "remove" => op = "notify")
       /\ (Op(r) = "notify" => op = "invalidate") /\ (Op(r) = "invalidate" => op = "next")
  /\ r.kind = "purge" => Op(r) = "unindex" /\ op = "remove"

(* q is what is left to do of r after one access.                          *)
Advances(r, q) ==
  /\ Op(r) = "next" =>
       /\ q # NoRequest /\ r.kind = "tx" /\ q.kind = "tx" /\ q.writes = r.writes
       /\ \/ r.todo = {} /\ q.todo = {} /\ Op(q) = "unlock" /\ Key(q) = None
          \/ \E k \in r.todo : Op(q) = "read" /\ Key(q) = k /\ q.todo = r.todo \ {k}
  /\ Op(r) # "next" /\ q = NoRequest =>
       \/ r.kind \in {"put", "delete"} /\ Op(r) = "notify"
       \/ r.kind \in {"cas", "tx"} /\ Op(r) = "unlock"
       \/ r.kind = "purge" /\ Op(r) = "remove"
  /\ Op(r) # "next" /\ q # NoRequest =>
       /\ q.kind = r.kind /\ q.writes = r.writes /\ q.todo = r.todo /\ Key(q) = Key(r) /\ After(r, Op(q))

(* An access that goes on along the plan.                                  *)
LEMMA MovedAdvances ==
  ASSUME NEW r, Goes(r), Op(r) # "next", NEW q, Moved(r, q, Op(q)), After(r, Op(q))
  PROVE  Advances(r, q)
BY DEF Advances, Moved

(* An access that goes on to the next one of the plan.                     *)
LEMMA RestAdvances ==
  ASSUME NEW r, Goes(r), Op(r) \notin {"next", "lookup"}, NEW q, q = Ahead(r, 1)
  PROVE  Advances(r, q)
<1>1. \A op : Moved(r, q, op) => Op(q) = op /\ q # NoRequest /\ q.kind = r.kind /\ q.writes = r.writes
                               /\ q.todo = r.todo /\ Key(q) = Key(r)
  BY DEF Moved
<1>2. CASE r.kind = "put"
  BY <1>1, <1>2 DEF Goes, PutGoes, Advances, After
<1>3. CASE r.kind = "delete"
  BY <1>1, <1>3 DEF Goes, DeleteGoes, Advances, After
<1>4. CASE r.kind = "cas"
  BY <1>1, <1>4 DEF Goes, CasGoes, Advances, After
<1>5. CASE r.kind = "tx"
  BY <1>1, <1>5 DEF Goes, TxGoes, Advances, After
<1>6. CASE r.kind = "purge"
  BY <1>1, <1>6 DEF Goes, PurgeGoes, Advances, After
<1> QED BY <1>2, <1>3, <1>4, <1>5, <1>6 DEF Goes

(* Every access of a thread: what it is, and where the request goes.       *)
LEMMA HandleAdvances ==
  ASSUME ViewInv, NEW t \in Threads, Handle(t)
  PROVE  /\ ViewInv' /\ UNCHANGED <<setting, now, restarts>>
         /\ req[t] # NoRequest /\ Goes(req[t]) /\ Op(req[t]) = Step(t).op /\ Key(req[t]) = Step(t).key
         /\ Advances(req[t], req'[t]) /\ \A u \in Threads : u # t => req'[u] = req[u]
         /\ req'[t] # NoRequest => Goes(req'[t])
<1> DEFINE r == req[t]
           q == req'[t]
<1>1. PICK op, step : Access(t, op, step)
  BY DEF Handle, NextKey, Read, Unindex, Lookup, Create, Add, Fill, Invalidate, Log, TreeInsert, TreeRemove,
         Notify, Unlock
<1>2. /\ r # NoRequest /\ Step(t).op = op /\ UNCHANGED <<setting, now, restarts>>
      /\ q = step /\ \A u \in Threads : u # t => req'[u] = req[u]
  BY <1>1 DEF Access, ViewInv, Requests
<1>3. Goes(r) /\ Op(r) = Step(t).op /\ Key(r) = Step(t).key
  BY <1>2, ShapeGoes DEF ViewInv, Requests, Step, Op, Key
<1>4. ViewInv'
  BY HandleTyped
<1>5. q # NoRequest => Goes(q)
  BY <1>4, ShapeGoes DEF ViewInv, Requests
<1>6. CASE NextKey(t)
  <2>1. Op(r) = "next" /\ Shape(r)
    BY <1>3, <1>6 DEF NextKey, Access, ViewInv, Requests
  <2>2. (r.todo = {} /\ q = Done(r)) \/ \E k \in r.todo : q = Entering(r, k)
    <3>1. CASE r.todo = {} /\ Access(t, "next", Done(r))
      <4>1. q = Done(r)
        BY <3>1 DEF Access, ViewInv, Requests
      <4> QED BY <3>1, <4>1
    <3>2. ASSUME NEW k \in r.todo, Access(t, "next", Entering(r, k)) PROVE q = Entering(r, k)
      BY <3>2 DEF Access, ViewInv, Requests
    <3>3. \/ r.todo = {} /\ Access(t, "next", Done(r))
          \/ \E k \in r.todo : Access(t, "next", Entering(r, k))
      BY <1>6 DEF NextKey, Done, Entering
    <3> QED BY <3>1, <3>2, <3>3
  <2>3. r.kind = "tx" /\ q.kind = "tx" /\ q # NoRequest /\ q.writes = r.writes
        /\ \/ r.todo = {} /\ q.todo = {} /\ Op(q) = "unlock" /\ Key(q) = None
           \/ \E k \in r.todo : Op(q) = "read" /\ Key(q) = k /\ q.todo = r.todo \ {k}
    BY <1>2, <2>1, <2>2, NextGoes
  <2>4. Advances(r, q)
    BY <2>1, <2>3 DEF Advances
  <2> QED BY <1>2, <1>3, <1>4, <1>5, <2>4
<1>7. CASE Read(t)
  <2>1. Op(r) = "read" /\ Moved(r, q, "unindex") /\ r.kind = "tx"
    BY <1>3, <1>7, ReadTyped DEF Read, Access
  <2>2. Advances(r, q)
    BY <2>1 DEF Advances, After, Moved
  <2> QED BY <1>2, <1>3, <1>4, <1>5, <2>2
<1>8. CASE Lookup(t)
  <2>1. Op(r) = "lookup"
    BY <1>3, <1>8 DEF Lookup, Access
  <2>2. Moved(r, q, Op(q)) /\ (Op(q) \in {"create", "add"} \/ q = Ahead(r, 3))
    BY <1>8, LookupTyped
  <2>3. q = Ahead(r, 3) => Op(q) = CASE r.kind = "put" -> PutNext(r) [] r.kind = "cas" -> "invalidate" [] OTHER -> "notify"
    BY <1>3, <2>1 DEF Goes, PutGoes, DeleteGoes, CasGoes, TxGoes, PurgeGoes, Moved
  <2>4. r.kind \in {"put", "cas", "tx"}
    BY <1>3, <2>1 DEF Goes, DeleteGoes, PurgeGoes
  <2>5. After(r, Op(q))
    BY <2>1, <2>2, <2>3, <2>4 DEF After
  <2>6. Advances(r, q)
    BY <1>3, <2>1, <2>2, <2>5, MovedAdvances
  <2> QED BY <1>2, <1>3, <1>4, <1>5, <2>6
<1>9. CASE Create(t)
  <2>1. Op(r) = "create" /\ Moved(r, q, "add")
    BY <1>3, <1>9, CreateTyped DEF Create, Access
  <2>2. r.kind \in {"put", "cas", "tx"}
    BY <1>3, <2>1 DEF Goes, DeleteGoes, PurgeGoes
  <2>3. After(r, Op(q))
    BY <2>1, <2>2 DEF After, Moved
  <2>4. Advances(r, q)
    BY <1>3, <2>1, <2>3, MovedAdvances DEF Moved
  <2> QED BY <1>2, <1>3, <1>4, <1>5, <2>4
<1>10. CASE Unindex(t) \/ Add(t) \/ Fill(t) \/ Invalidate(t) \/ Log(t) \/ TreeInsert(t) \/ TreeRemove(t)
            \/ Notify(t) \/ Unlock(t)
  <2>1. PICK o : o \notin {"next", "lookup"} /\ Access(t, o, Rest(t))
    BY <1>10 DEF Unindex, Add, Fill, Invalidate, Log, TreeInsert, TreeRemove, Notify, Unlock
  <2>2. q = Ahead(r, 1) /\ Op(r) \notin {"next", "lookup"}
    BY <1>3, <2>1 DEF Access, ViewInv, Requests, Rest
  <2>3. Advances(r, q)
    BY <1>3, <2>2, RestAdvances
  <2> QED BY <1>2, <1>3, <1>4, <1>5, <2>3
<1> QED BY <1>6, <1>7, <1>8, <1>9, <1>10 DEF Handle
-----------------------------------------------------------------------------
(* Without times to live nothing ever expires.                             *)

(* A command none of whose records expires.                                *)
Lasting(w) == \A k \in Keys : w[k] \in DbRecord => w[k].expires_at = None

(* Neither the tree, nor a request, nor the log has a record that expires. *)
LastingInv ==
  ~setting.ttl =>
    /\ \A k \in Keys : tree[k] # None => tree[k].expires_at = None
    /\ \A t \in Threads : Lasting(req[t].writes) /\ req[t].kind # "purge"
    /\ \A i \in 1..Len(log) : Lasting(log[i])

(* What a thread's access may do to the tree and the log.                  *)
LEMMA HandleWrites ==
  ASSUME ViewInv, NEW t \in Threads, Handle(t)
  PROVE  /\ \/ tree' = tree
            \/ Op(req[t]) = "insert" /\ tree' = [tree EXCEPT ![Key(req[t])] = req[t].writes[Key(req[t])]]
            \/ Op(req[t]) = "remove" /\ tree' = [tree EXCEPT ![Key(req[t])] = None]
         /\ log' = log \/ (Op(req[t]) = "log" /\ log' = Append(log, req[t].writes))
<1>1. Op(req[t]) = Step(t).op /\ Key(req[t]) = Step(t).key
  BY DEF Op, Key, Step
<1>2. CASE TreeInsert(t)
  BY <1>1, <1>2 DEF TreeInsert, Access
<1>3. CASE TreeRemove(t)
  BY <1>1, <1>3 DEF TreeRemove, Access
<1>4. CASE Log(t)
  BY <1>1, <1>4 DEF Log, Access
<1>5. CASE NextKey(t) \/ Read(t) \/ Unindex(t) \/ Lookup(t) \/ Create(t) \/ Add(t) \/ Fill(t) \/ Invalidate(t)
           \/ Notify(t) \/ Unlock(t)
  BY <1>5 DEF NextKey, Read, Unindex, Lookup, Create, Add, Fill, Invalidate, Notify, Unlock
<1> QED BY <1>2, <1>3, <1>4, <1>5 DEF Handle

(* No request, no such record.                                             *)
LEMMA NoneLasts == Lasting(NoRequest.writes) /\ NoRequest.kind = "none"
BY RecordAssumption DEF Lasting, NoRequest, NoWrites

(* The workload never changes.                                             *)
LEMMA SettingKept ==
  ASSUME ViewInv, [Next]_vars
  PROVE  setting' = setting
<1>1. ASSUME NEW t \in Threads, Request(t) PROVE setting' = setting
  BY <1>1, RequestOpens
<1>2. ASSUME NEW t \in Threads, Handle(t) PROVE setting' = setting
  BY <1>2, HandleAdvances
<1>3. CASE Watch \/ WatchNext \/ Tick \/ Restart \/ UNCHANGED vars
  BY <1>3 DEF Watch, WatchNext, Tick, Restart, vars
<1> QED BY <1>1, <1>2, <1>3 DEF Next

(* Every step keeps LastingInv, a restart too: it loads what the log has.  *)
LEMMA LastingStep == ViewInv /\ LastingInv /\ [Next]_vars => LastingInv'
<1> SUFFICES ASSUME ViewInv, LastingInv, [Next]_vars, ~setting'.ttl PROVE LastingInv'
  BY DEF LastingInv
<1>0. setting' = setting
  BY SettingKept
<1>1. /\ \A k \in Keys : tree[k] # None => tree[k].expires_at = None
      /\ \A t \in Threads : Lasting(req[t].writes) /\ req[t].kind # "purge"
      /\ \A i \in 1..Len(log) : Lasting(log[i])
      /\ ~setting.ttl
  BY <1>0 DEF LastingInv
<1>2. ASSUME NEW t \in Threads, Request(t) PROVE LastingInv'
  <2>1. PICK q : /\ UNCHANGED <<setting, tree, indexes, cache, log, watcher, now, restarts>>
                 /\ req' = [req EXCEPT ![t] = q] /\ Opening(q)
    BY <1>2, RequestOpens
  <2>2. \A k \in Keys : q.writes[k] \in DbRecord => q.writes[k] \in Records
    BY <2>1, RecordFacts, RecordAssumption DEF Opening
  <2>3. Lasting(q.writes)
    BY <1>1, <2>2 DEF Lasting, Records
  <2>4. q.kind # "purge"
    <3>1. SUFFICES ASSUME q.kind = "purge" PROVE FALSE
      OBVIOUS
    <3>2. Goes(q) /\ is_expired(tree[Key(q)]) /\ tree[Key(q)] # None
      BY <2>1, <3>1, ShapeGoes DEF Opening
    <3>3. Key(q) \in Keys
      BY <3>1, <3>2 DEF Goes, PurgeGoes
    <3> QED BY <1>1, <3>2, <3>3 DEF is_expired
  <2>5. \A u \in Threads : req'[u] = IF u = t THEN q ELSE req[u]
    BY <2>1 DEF ViewInv, Requests
  <2> QED BY <1>1, <2>1, <2>3, <2>4, <2>5 DEF LastingInv, Lasting
<1>3. ASSUME NEW t \in Threads, Handle(t) PROVE LastingInv'
  <2> DEFINE r == req[t]
             q == req'[t]
  <2>1. /\ r # NoRequest /\ Goes(r) /\ Advances(r, q) /\ \A u \in Threads : u # t => req'[u] = req[u]
    BY <1>3, HandleAdvances
  <2>2. q = NoRequest \/ (q.writes = r.writes /\ q.kind = r.kind)
    BY <2>1 DEF Advances
  <2>3. \A u \in Threads : Lasting(req'[u].writes) /\ req'[u].kind # "purge"
    BY <1>1, <2>1, <2>2, NoneLasts
  <2>4. /\ \/ tree' = tree
           \/ Op(r) = "insert" /\ tree' = [tree EXCEPT ![Key(r)] = r.writes[Key(r)]]
           \/ Op(r) = "remove" /\ tree' = [tree EXCEPT ![Key(r)] = None]
        /\ log' = log \/ log' = Append(log, r.writes)
    BY <1>3, HandleWrites
  <2>5. Op(r) = "insert" => Key(r) \in Keys /\ r.writes[Key(r)] \in DbRecord
    BY <2>1 DEF Goes, PutGoes, DeleteGoes, CasGoes, TxGoes, PurgeGoes
  <2>6. \A k \in Keys : tree'[k] # None => tree'[k].expires_at = None
    BY <1>1, <2>4, <2>5 DEF Lasting, ViewInv, Trees
  <2>7. \A i \in 1..Len(log') : Lasting(log'[i])
    <3>1. CASE log' = log
      BY <1>1, <3>1
    <3>2. CASE log' = Append(log, r.writes)
      <4>1. r.writes \in Writes /\ log \in Seq(Writes)
        BY <2>1 DEF Goes, Formed, ViewInv
      <4>2. /\ Len(log') = Len(log) + 1 /\ Len(log) \in Nat
            /\ \A i \in 1..Len(log) : log'[i] = log[i]
            /\ log'[Len(log) + 1] = r.writes
        BY <3>2, <4>1, AppendProperties
      <4>3. ASSUME NEW i \in 1..Len(log') PROVE Lasting(log'[i])
        BY <1>1, <4>2, <4>3
      <4> QED BY <4>3
    <3> QED BY <2>4, <3>1, <3>2
  <2> QED BY <2>3, <2>6, <2>7 DEF LastingInv, Lasting
<1>4. CASE Watch \/ WatchNext \/ Tick \/ UNCHANGED vars
  <2>1. UNCHANGED <<setting, tree, log, req>>
    BY <1>4 DEF Watch, WatchNext, Tick, vars
  <2> QED BY <1>1, <2>1 DEF LastingInv, Lasting
<1>5. CASE Restart
  <2>1. PICK new : new = Rebuilt[Len(log)]
    OBVIOUS
  <2>2. tree' = new.tree /\ req' = [t \in Threads |-> NoRequest] /\ log' = log
    BY <1>5, <2>1 DEF Restart
  <2>3. WellBuilt(new)
    BY <2>1, RebuiltBuilt DEF ViewInv
  <2>4. ASSUME NEW k \in Keys, new.tree[k] # None PROVE new.tree[k].expires_at = None
    <3>1. new.tree[k] \in DbRecord
      BY <2>3, <2>4 DEF WellBuilt, Trees
    <3>2. PICK i \in 1..Len(log) : new.tree[k] = log[i][k]
      BY <2>3, <2>4 DEF WellBuilt
    <3> QED BY <1>1, <3>1, <3>2 DEF Lasting
  <2>5. \A t \in Threads : req'[t] = NoRequest
    BY <2>2
  <2>6. \A t \in Threads : Lasting(req'[t].writes) /\ req'[t].kind # "purge"
    BY <2>5, NoneLasts
  <2> QED BY <1>1, <2>2, <2>4, <2>6 DEF LastingInv, Lasting
<1> QED BY <1>2, <1>3, <1>4, <1>5 DEF Next
-----------------------------------------------------------------------------
(* The cache.                                                              *)

(* The request has yet to take k out of the cache.                         *)
Clearing(r, k) ==
  /\ r # NoRequest
  /\ \/ r.kind = "delete" /\ Key(r) = k /\ Op(r) \in {"unindex", "remove", "invalidate"}
     \/ r.kind = "cas" /\ Key(r) = k /\ Op(r) \in {"unindex", "lookup", "create", "add", "invalidate"}
     \/ r.kind = "tx" /\ k \in r.todo /\ Op(r) # "unlock"
     \/ r.kind = "tx" /\ Key(r) = k /\ Op(r) \notin {"log", "next", "unlock"}

(* A put has filled the cache, but not yet inserted its record; a cas has  *)
(* taken k out of the cache, but not yet inserted its record.              *)
Filled(r, k) == r # NoRequest /\ r.kind = "put" /\ Key(r) = k /\ Op(r) \in {"log", "insert"}
Cleared(r, k) == r # NoRequest /\ r.kind = "cas" /\ Key(r) = k /\ Op(r) \in {"log", "insert"}

(* The premise of CacheCoherent.                                           *)
OnePut == ~setting.ttl /\ Cardinality(Writers({"put"})) <= 1

(* A key in the cache has the tree's value, or that of a put which will    *)
(* insert it, or will be taken out.                                        *)
Backed(k) ==
  cache[k] # None =>
    \/ tree[k] # None /\ tree[k].value = cache[k]
    \/ \E t \in Threads : Clearing(req[t], k)
    \/ \E t \in Threads : Filled(req[t], k) /\ req[t].writes[k].value = cache[k]

(* What a put has filled in stays until it is taken out.                   *)
FilledIn(t, k) == Filled(req[t], k) => cache[k] \in {None, req[t].writes[k].value}

(* What a put fills in after a cas has taken k out, it logs after the cas. *)
FilledAfter(t, k) ==
  Cleared(req[t], k) /\ cache[k] # None => \E u \in Threads : Filled(req[u], k) /\ Op(req[u]) = "log"

(* What makes the cache coherent, key by key.                              *)
CacheInv == OnePut => \A k \in Keys : Backed(k) /\ \A t \in Threads : FilledIn(t, k) /\ FilledAfter(t, k)

(* A set with at most one element.                                         *)
LEMMA AtMostOne ==
  ASSUME NEW S, IsFiniteSet(S), Cardinality(S) <= 1, NEW t \in S, NEW u \in S
  PROVE  t = u
<1> SUFFICES ASSUME t # u PROVE FALSE
  OBVIOUS
<1>1. {t} \cup {u} \subseteq S /\ u \notin {t}
  OBVIOUS
<1>2. IsFiniteSet({t}) /\ Cardinality({t}) = 1
  BY FS_Singleton
<1>3. IsFiniteSet({t} \cup {u}) /\ Cardinality({t} \cup {u}) = 2
  BY <1>1, <1>2, FS_AddElement
<1>4. Cardinality({t} \cup {u}) <= Cardinality(S)
  BY <1>1, FS_Subset
<1>5. Cardinality(S) \in Nat
  BY FS_CardinalityType
<1> QED BY <1>3, <1>4, <1>5

(* Under OnePut no two requests are puts.                                  *)
LEMMA PutterUnique ==
  ASSUME ViewInv, OnePut, NEW t \in Threads, NEW u \in Threads, req[t] # NoRequest, req[u] # NoRequest,
         req[t].kind = "put", req[u].kind = "put"
  PROVE  t = u
<1>1. t \in Writers({"put"}) /\ u \in Writers({"put"})
  BY DEF ViewInv, Requests, Writers
<1>2. IsFiniteSet(Writers({"put"})) /\ Cardinality(Writers({"put"})) <= 1
  BY FS_Subset, ViewsAssumption DEF Writers, OnePut
<1> QED BY <1>1, <1>2, AtMostOne

(* Steps that change neither the tree nor the cache.                       *)
LEMMA CacheQuiet ==
  ASSUME CacheInv, NEW t \in Threads, \A u \in Threads : u # t => req'[u] = req[u],
         tree' = tree, cache' = cache, setting' = setting,
         \A k \in Keys : Clearing(req[t], k) => Clearing(req'[t], k),
         \A k \in Keys : /\ Filled(req[t], k) <=> Filled(req'[t], k)
                         /\ Filled(req[t], k) => req'[t].writes = req[t].writes /\ Op(req'[t]) = Op(req[t]),
         \A k \in Keys : Cleared(req'[t], k) => Cleared(req[t], k)
  PROVE  CacheInv'
<1> SUFFICES ASSUME OnePut', NEW k \in Keys
             PROVE  Backed(k)' /\ \A u \in Threads : FilledIn(u, k)' /\ FilledAfter(u, k)'
  BY DEF CacheInv
<1>1. OnePut
  BY DEF OnePut, Writers
<1>2. Backed(k) /\ \A u \in Threads : FilledIn(u, k) /\ FilledAfter(u, k)
  BY <1>1 DEF CacheInv
<1>3. \A u \in Threads : /\ Clearing(req[u], k) => Clearing(req'[u], k)
                         /\ Filled(req[u], k) <=> Filled(req'[u], k)
                         /\ Filled(req[u], k) => req'[u].writes = req[u].writes /\ Op(req'[u]) = Op(req[u])
                         /\ Cleared(req'[u], k) => Cleared(req[u], k)
  OBVIOUS
<1>4. Backed(k)'
  BY <1>2, <1>3 DEF Backed, Clearing, Filled
<1>5. ASSUME NEW u \in Threads PROVE FilledIn(u, k)' /\ FilledAfter(u, k)'
  BY <1>2, <1>3 DEF FilledIn, FilledAfter, Filled, Cleared
<1> QED BY <1>4, <1>5

(* Every access keeps CacheInv.                                            *)
LEMMA CacheHandle ==
  ASSUME ViewInv, LastingInv, CacheInv, NEW t \in Threads, Handle(t)
  PROVE  CacheInv'
<1> DEFINE r == req[t]
           q == req'[t]
           a == Key(r)
<1>1. /\ setting' = setting /\ r # NoRequest /\ Goes(r) /\ Advances(r, q) /\ Op(r) = Step(t).op /\ a = Step(t).key
      /\ \A u \in Threads : u # t => req'[u] = req[u]
  BY HandleAdvances
<1> SUFFICES ASSUME OnePut PROVE CacheInv'
  BY <1>1 DEF CacheInv, OnePut, Writers
<1>2. \A k \in Keys : Backed(k) /\ \A u \in Threads : FilledIn(u, k) /\ FilledAfter(u, k)
  BY DEF CacheInv
<1>3. r.kind = "put" => PutNext(r) = "fill" /\ PutGoes(r)
  BY <1>1 DEF LastingInv, OnePut, Lasting, PutNext, Goes, PutGoes
<1>4. r.kind # "purge"
  BY DEF LastingInv, OnePut
<1>5. Op(r) \in {"log", "insert", "remove", "fill", "invalidate"} \/ (tree' = tree /\ cache' = cache)
  <2>1. CASE NextKey(t) \/ Read(t) \/ Unindex(t) \/ Lookup(t) \/ Create(t) \/ Add(t) \/ Notify(t) \/ Unlock(t)
    BY <2>1 DEF NextKey, Read, Unindex, Lookup, Create, Add, Notify, Unlock
  <2>2. CASE Fill(t) \/ Invalidate(t) \/ Log(t) \/ TreeInsert(t) \/ TreeRemove(t)
    BY <1>1, <2>2 DEF Fill, Invalidate, Log, TreeInsert, TreeRemove, Access
  <2> QED BY <2>1, <2>2 DEF Handle
(* What the step does to the request, for any key.                         *)
<1>6. ASSUME NEW k \in Keys
      PROVE  /\ Clearing(r, k) /\ Op(r) # "invalidate" => Clearing(q, k)
             /\ Clearing(r, k) /\ k # a => Clearing(q, k)
             /\ Filled(r, k) /\ Op(r) = "log" => Filled(q, k) /\ Op(q) = "insert" /\ q.writes = r.writes
             /\ Filled(q, k) => Op(r) \in {"fill", "log"} /\ r.kind = "put" /\ a = k /\ q.writes = r.writes
             /\ Cleared(q, k) => Op(r) \in {"invalidate", "log"} /\ r.kind = "cas" /\ a = k
             /\ Filled(r, k) => Op(r) \in {"log", "insert"}
  <2>1. CASE r.kind = "put"
    BY <1>1, <1>3, <2>1 DEF Advances, After, PutGoes, Clearing, Filled, Cleared
  <2>2. CASE r.kind = "delete"
    <3>1. DeleteGoes(r)
      BY <1>1, <2>2 DEF Goes
    <3> QED BY <1>1, <2>2, <3>1 DEF Advances, After, DeleteGoes, Clearing, Filled, Cleared
  <2>3. CASE r.kind = "cas"
    <3>1. CasGoes(r)
      BY <1>1, <2>3 DEF Goes
    <3> QED BY <1>1, <2>3, <3>1 DEF Advances, After, CasGoes, Clearing, Filled, Cleared
  <2>4. CASE r.kind = "tx"
    <3>1. TxGoes(r)
      BY <1>1, <2>4 DEF Goes
    <3>2. ~Filled(r, k) /\ ~Filled(q, k) /\ ~Cleared(q, k)
      BY <1>1, <2>4 DEF Advances, Filled, Cleared
    <3>3. CASE Op(r) = "next" /\ Clearing(r, k)
      <4>1. k \in r.todo /\ q # NoRequest /\ q.kind = "tx"
        BY <1>1, <2>4, <3>3 DEF Clearing, Advances
      <4>2. PICK j \in r.todo : Op(q) = "read" /\ Key(q) = j /\ q.todo = r.todo \ {j}
        BY <1>1, <3>3, <4>1 DEF Advances
      <4>3. Clearing(q, k)
        BY <4>1, <4>2 DEF Clearing
      <4> QED BY <3>2, <3>3, <4>3
    <3>4. CASE Op(r) # "next" /\ Clearing(r, k)
      <4>1. Op(r) # "unlock"
        BY <3>4, <2>4 DEF Clearing
      <4>2. q # NoRequest /\ q.kind = "tx" /\ q.todo = r.todo /\ Key(q) = Key(r) /\ After(r, Op(q))
        BY <1>1, <2>4, <3>4, <4>1 DEF Advances
      <4>3. Op(q) # "unlock" /\ (Op(r) \notin {"log", "invalidate"} => Op(q) \notin {"log", "next"})
        BY <2>4, <3>1, <3>4, <4>1, <4>2 DEF After, TxGoes
      <4>4. k \in r.todo => Clearing(q, k)
        BY <4>2, <4>3 DEF Clearing
      <4>5. k \notin r.todo => k = a /\ Op(r) \notin {"log", "next"}
        BY <2>4, <3>4 DEF Clearing
      <4>6. k \notin r.todo /\ Op(r) # "invalidate" => Clearing(q, k)
        BY <4>2, <4>3, <4>5 DEF Clearing
      <4> QED BY <3>2, <4>4, <4>5, <4>6
    <3> QED BY <3>2, <3>3, <3>4
  <2> QED BY <1>1, <1>4, <2>1, <2>2, <2>3, <2>4 DEF Goes
<1>7. CASE tree' = tree /\ cache' = cache /\ Op(r) \notin {"log", "insert", "remove", "fill", "invalidate"}
  <2>1. \A k \in Keys : Clearing(r, k) => Clearing(q, k)
    BY <1>6, <1>7
  <2>2. \A k \in Keys : ~Filled(r, k) /\ ~Filled(q, k) /\ ~Cleared(q, k)
    BY <1>6, <1>7
  <2> QED BY <1>1, <1>7, <2>1, <2>2, CacheQuiet
<1>8. \A k \in Keys : \A u \in Threads : FilledIn(u, k) /\ FilledAfter(u, k)
  BY <1>2
<1>9. SUFFICES ASSUME Op(r) \in {"log", "insert", "remove", "fill", "invalidate"}, NEW k \in Keys
               PROVE  Backed(k)' /\ \A u \in Threads : FilledIn(u, k)' /\ FilledAfter(u, k)'
  BY <1>5, <1>7 DEF CacheInv
<1>10. \A u \in Threads \ {t} : req'[u] = req[u]
  BY <1>1
<1>11. /\ Clearing(r, k) /\ Op(r) # "invalidate" => Clearing(q, k)
       /\ Clearing(r, k) /\ k # a => Clearing(q, k)
       /\ Filled(r, k) /\ Op(r) = "log" => Filled(q, k) /\ Op(q) = "insert" /\ q.writes = r.writes
       /\ Filled(q, k) => Op(r) \in {"fill", "log"} /\ r.kind = "put" /\ a = k /\ q.writes = r.writes
       /\ Cleared(q, k) => Op(r) \in {"invalidate", "log"} /\ r.kind = "cas" /\ a = k
       /\ Filled(r, k) => Op(r) \in {"log", "insert"} /\ a = k
  BY <1>6 DEF Filled
<1> HIDE DEF r, q, a
<1>12. CASE Op(r) = "log"
  <2>1. tree' = tree /\ cache' = cache /\ wal_lock \in {None, t}
    <3>1. Log(t)
      BY <1>1, <1>12 DEF Handle, NextKey, Read, Unindex, Lookup, Create, Add, Fill, Invalidate, TreeInsert, TreeRemove, Notify, Unlock, Access
    <3> QED BY <3>1 DEF Log
  <2>2. Backed(k)'
    BY <1>2, <1>10, <1>11, <1>12, <2>1 DEF Backed, r, q
  <2>3. ASSUME NEW u \in Threads PROVE FilledIn(u, k)'
    <3>1. Filled(q, k) => Filled(r, k) /\ q.writes = r.writes
      BY <1>1, <1>11, <1>12 DEF Filled, a
    <3> QED BY <1>8, <1>10, <2>1, <3>1 DEF FilledIn, r, q
  <2>4. ASSUME NEW u \in Threads PROVE FilledAfter(u, k)'
    <3>1. SUFFICES ASSUME Cleared(req'[u], k), cache[k] # None
                   PROVE  \E v \in Threads : Filled(req'[v], k) /\ Op(req'[v]) = "log"
      BY <2>1 DEF FilledAfter
    <3>2. Cleared(req[u], k)
      <4>1. CASE u = t
        BY <1>1, <1>11, <1>12, <3>1, <4>1 DEF Cleared, r, q, a
      <4>2. CASE u # t
        BY <1>10, <3>1, <4>2
      <4> QED BY <4>1, <4>2
    <3>3. PICK v \in Threads : Filled(req[v], k) /\ Op(req[v]) = "log"
      BY <1>8, <3>1, <3>2 DEF FilledAfter
    <3>4. v # t
      <4>1. SUFFICES ASSUME v = t PROVE FALSE
        OBVIOUS
      <4>2. u # t
        BY <3>2, <3>3, <4>1 DEF Filled, Cleared
      <4>3. wal_lock = u
        BY <3>2 DEF Cleared, ViewInv, Requests
      <4> QED BY <2>1, <4>2, <4>3, ViewsAssumption
    <3> QED BY <1>10, <3>3, <3>4
  <2> QED BY <2>2, <2>3, <2>4
<1>13. CASE Op(r) = "fill"
  <2>1. Fill(t)
    BY <1>1, <1>13 DEF Handle, NextKey, Read, Unindex, Lookup, Create, Add, Log, Invalidate, TreeInsert, TreeRemove, Notify, Unlock, Access
  <2>2. PICK victims \in SUBSET (Keys \ {a}) :
          cache' = [j \in Keys |-> IF j \in victims THEN None ELSE IF j = a THEN r.writes[j].value ELSE cache[j]]
    BY <1>1, <2>1 DEF Fill, r, a
  <2>3. tree' = tree
    BY <2>1 DEF Fill
  <2>4. r.kind = "put" /\ a \in Keys /\ q.kind = "put" /\ Op(q) = "log" /\ Key(q) = a /\ q.writes = r.writes /\ q # NoRequest
    <3>1. r.kind = "put"
      BY <1>1, <1>13 DEF Goes, DeleteGoes, CasGoes, TxGoes, PurgeGoes
    <3> QED BY <1>1, <1>3, <1>13, <3>1 DEF Advances, After, PutGoes, a
  <2>5. Filled(q, a) /\ ~Filled(r, k) /\ ~Clearing(r, k) /\ ~Cleared(q, k)
    BY <1>11, <1>13, <2>4 DEF Filled, Clearing
  <2>6. CASE k = a
    <3>1. cache'[k] = r.writes[k].value
      BY <2>2, <2>4, <2>6
    <3>2. Backed(k)'
      BY <2>4, <2>5, <2>6, <3>1 DEF Backed, q
    <3>3. ASSUME NEW u \in Threads PROVE FilledIn(u, k)'
      <4>1. CASE u = t
        BY <2>4, <2>6, <3>1, <4>1 DEF FilledIn, q
      <4>2. CASE u # t
        BY <1>1, <1>10, <2>4, <4>2, PutterUnique DEF FilledIn, Filled, r
      <4> QED BY <4>1, <4>2
    <3>4. ASSUME NEW u \in Threads PROVE FilledAfter(u, k)'
      BY <2>4, <2>5, <2>6 DEF FilledAfter, q
    <3> QED BY <3>2, <3>3, <3>4
  <2>7. CASE k # a
    <3>1. cache'[k] \in {None, cache[k]}
      BY <2>2, <2>7
    <3>2. ~Filled(q, k)
      BY <1>11, <2>7
    <3>3. \A u \in Threads : /\ Clearing(req[u], k) => Clearing(req'[u], k)
                             /\ Filled(req[u], k) => u # t /\ req'[u] = req[u]
                             /\ Filled(req'[u], k) => u # t /\ req'[u] = req[u]
                             /\ Cleared(req'[u], k) => u # t /\ req'[u] = req[u]
      BY <1>10, <2>5, <3>2 DEF r, q
    <3>4. Backed(k)'
      BY <1>2, <2>3, <3>1, <3>3 DEF Backed
    <3>5. ASSUME NEW u \in Threads PROVE FilledIn(u, k)' /\ FilledAfter(u, k)'
      BY <1>8, <3>1, <3>3 DEF FilledIn, FilledAfter
    <3> QED BY <3>4, <3>5
  <2> QED BY <2>6, <2>7
<1>14. CASE Op(r) = "invalidate"
  <2>1. Invalidate(t)
    BY <1>1, <1>14 DEF Handle, NextKey, Read, Unindex, Lookup, Create, Add, Log, Fill, TreeInsert, TreeRemove, Notify, Unlock, Access
  <2>2. cache' = [cache EXCEPT ![a] = None] /\ tree' = tree
    BY <1>1, <2>1 DEF Invalidate
  <2>3. CASE k = a
    <3>1. cache'[k] = None
      BY <2>2, <2>3 DEF ViewInv
    <3> QED BY <3>1 DEF Backed, FilledIn, FilledAfter
  <2>4. CASE k # a
    <3>1. cache'[k] = cache[k]
      BY <2>2, <2>4 DEF ViewInv
    <3>2. \A u \in Threads : /\ Clearing(req[u], k) => Clearing(req'[u], k)
                             /\ Filled(req[u], k) => u # t /\ req'[u] = req[u]
                             /\ Filled(req'[u], k) => u # t /\ req'[u] = req[u]
                             /\ Cleared(req'[u], k) => u # t /\ req'[u] = req[u]
      BY <1>10, <1>11, <1>14, <2>4 DEF r, q
    <3>3. Backed(k)'
      BY <1>2, <2>2, <3>1, <3>2 DEF Backed
    <3>4. ASSUME NEW u \in Threads PROVE FilledIn(u, k)' /\ FilledAfter(u, k)'
      BY <1>8, <3>1, <3>2 DEF FilledIn, FilledAfter
    <3> QED BY <3>3, <3>4
  <2> QED BY <2>3, <2>4
<1>15. CASE Op(r) \in {"insert", "remove"}
  <2>1. TreeInsert(t) \/ TreeRemove(t)
    BY <1>1, <1>15 DEF Handle, NextKey, Read, Unindex, Lookup, Create, Add, Log, Fill, Invalidate, Notify, Unlock, Access
  <2>2. /\ cache' = cache
        /\ Op(r) = "insert" => tree' = [tree EXCEPT ![a] = r.writes[a]]
        /\ Op(r) = "remove" => tree' = [tree EXCEPT ![a] = None]
    BY <1>1, <1>15, <2>1 DEF TreeInsert, TreeRemove, Access, r
  <2>3. ~Filled(q, k) /\ ~Cleared(q, k) /\ (Clearing(r, k) => Clearing(q, k))
    BY <1>11, <1>15
  <2>4. ASSUME NEW u \in Threads PROVE FilledIn(u, k)' /\ FilledAfter(u, k)'
    <3>1. \A v \in Threads : (Filled(req'[v], k) \/ Cleared(req'[v], k)) => req'[v] = req[v]
      BY <1>10, <2>3 DEF q
    <3>2. \A v \in Threads : Filled(req[v], k) /\ Op(req[v]) = "log" => req'[v] = req[v]
      BY <1>10, <1>15 DEF r
    <3> QED BY <1>8, <2>2, <3>1, <3>2 DEF FilledIn, FilledAfter
  <2>5. Backed(k)'
    <3>1. CASE k # a
      <4>1. tree'[k] = tree[k]
        BY <1>15, <2>2, <3>1 DEF ViewInv, Trees
      <4>2. \A v \in Threads : Filled(req[v], k) => req'[v] = req[v]
        BY <1>10, <1>11, <3>1 DEF r
      <4>3. \A v \in Threads : Clearing(req[v], k) => Clearing(req'[v], k)
        BY <1>10, <2>3 DEF r, q
      <4> QED BY <1>2, <2>2, <4>1, <4>2, <4>3 DEF Backed
    <3>2. CASE k = a /\ Clearing(r, k)
      BY <2>3, <3>2 DEF Backed, q
    <3>3. CASE k = a /\ ~Clearing(r, k)
      <4>1. Op(r) = "insert" /\ r.kind \in {"put", "cas"}
        BY <1>1, <1>4, <1>15, <3>3 DEF Goes, PutGoes, DeleteGoes, CasGoes, TxGoes, Clearing, a
      <4>2. r.writes[a] \in DbRecord /\ tree'[k] = r.writes[k] /\ tree'[k] # None
        BY <1>1, <2>2, <3>3, <4>1, RecordFacts DEF Goes, PutGoes, CasGoes, a, ViewInv, Trees
      <4>3. CASE r.kind = "put"
        <5>1. Filled(r, k)
          BY <1>1, <3>3, <4>1, <4>3 DEF Filled, a
        <5>2. cache[k] \in {None, r.writes[k].value}
          BY <1>8, <5>1 DEF FilledIn, r
        <5> QED BY <2>2, <4>2, <5>2 DEF Backed
      <4>4. CASE r.kind = "cas"
        <5>1. Cleared(r, k)
          BY <1>1, <3>3, <4>1, <4>4 DEF Cleared, a
        <5>2. SUFFICES ASSUME cache[k] # None PROVE Backed(k)'
          BY <2>2 DEF Backed
        <5>3. PICK u \in Threads : Filled(req[u], k) /\ Op(req[u]) = "log"
          BY <1>8, <5>1, <5>2 DEF FilledAfter, r
        <5>4. u # t /\ req'[u] = req[u]
          BY <1>10, <4>1, <5>3 DEF r
        <5>5. cache[k] = req[u].writes[k].value
          BY <1>8, <5>2, <5>3 DEF FilledIn
        <5> QED BY <2>2, <5>3, <5>4, <5>5 DEF Backed
      <4> QED BY <4>1, <4>3, <4>4
    <3> QED BY <3>1, <3>2, <3>3
  <2> QED BY <2>4, <2>5
<1> QED BY <1>9, <1>12, <1>13, <1>14, <1>15

(* Whatever k is Settled for, no request touches.                          *)
LEMMA SettledQuiet ==
  ASSUME ViewInv, NEW k \in Keys, Settled(k), NEW t \in Threads, req[t] # NoRequest
  PROVE  Key(req[t]) # k /\ req[t].writes[k] = None /\ k \notin req[t].todo
<1>1. Goes(req[t])
  BY ShapeGoes DEF ViewInv, Requests
<1>2. req[t].at \in DOMAIN req[t].plan /\ req[t].todo \subseteq {j \in Keys : req[t].writes[j] # None}
  BY <1>1 DEF Goes, Formed
<1> QED BY <1>2 DEF Settled, Key

(* Every step does; a restart empties the cache.                           *)
LEMMA CacheStep == ViewInv /\ LastingInv /\ CacheInv /\ [Next]_vars => CacheInv'
<1> SUFFICES ASSUME ViewInv, LastingInv, CacheInv, [Next]_vars PROVE CacheInv'
  OBVIOUS
<1>1. ASSUME NEW t \in Threads, Request(t) PROVE CacheInv'
  <2>1. PICK q : /\ UNCHANGED <<setting, tree, indexes, cache, log, watcher, now, restarts>>
                 /\ req[t] = NoRequest /\ req' = [req EXCEPT ![t] = q] /\ Opening(q)
    BY <1>1, RequestOpens
  <2>2. req'[t] = q /\ \A u \in Threads : u # t => req'[u] = req[u]
    BY <2>1 DEF ViewInv, Requests
  <2>3. \A k \in Keys : ~Clearing(req[t], k) /\ ~Filled(req[t], k) /\ ~Filled(q, k) /\ ~Cleared(q, k)
    BY <2>1 DEF Clearing, Filled, Cleared, Opening
  <2> QED BY <2>1, <2>2, <2>3, CacheQuiet
<1>2. ASSUME NEW t \in Threads, Handle(t) PROVE CacheInv'
  BY <1>2, CacheHandle
<1>3. CASE Watch \/ WatchNext \/ Tick \/ UNCHANGED vars
  <2>1. UNCHANGED <<setting, tree, cache, req>>
    BY <1>3 DEF Watch, WatchNext, Tick, vars
  <2> QED BY <2>1 DEF CacheInv, OnePut, Writers, Backed, FilledIn, FilledAfter
<1>4. CASE Restart
  <2>1. \A k \in Keys : cache'[k] = None
    BY <1>4 DEF Restart
  <2> QED BY <2>1 DEF CacheInv, Backed, FilledIn, FilledAfter
<1> QED BY <1>1, <1>2, <1>3, <1>4 DEF Next

(* Both hold at the start.                                                 *)
LEMMA LastingInit == Init => LastingInv /\ CacheInv
<1> SUFFICES ASSUME Init PROVE LastingInv /\ CacheInv
  OBVIOUS
<1>1. \A k \in Keys : tree[k] = None /\ cache[k] = None
  BY DEF Init, EmptyViews
<1>2. \A t \in Threads : req[t] = NoRequest
  BY DEF Init
<1>3. Len(log) = 0
  BY DEF Init
<1> QED BY <1>1, <1>2, <1>3, NoneLasts DEF LastingInv, CacheInv, Backed, FilledIn, FilledAfter

(* They always hold.                                                       *)
LEMMA CacheAlways == Spec => [](ViewInv /\ LastingInv /\ CacheInv)
BY ViewInit, LastingInit, ViewStep, LastingStep, CacheStep, PTL DEF Spec

(* Without times to live, and as long as one thread at most serves puts,   *)
(* get answers with the tree's value of every key that no request is       *)
(* writing, however puts, deletes, cas, commits and restarts interleave.   *)
THEOREM CacheCorrect == Spec => []CacheCoherent
<1>1. ViewInv /\ LastingInv /\ CacheInv => CacheCoherent
  <2> SUFFICES ASSUME ViewInv, LastingInv, CacheInv, OnePut, NEW k \in Keys, Settled(k)
               PROVE  get(k) = IF Live(k) THEN tree[k].value ELSE None
    BY DEF CacheCoherent, OnePut, ReadsLatest
  <2>1. \A t \in Threads : ~Clearing(req[t], k) /\ ~Filled(req[t], k)
    BY SettledQuiet DEF Clearing, Filled
  <2>2. cache[k] # None => tree[k] # None /\ tree[k].value = cache[k]
    BY <2>1 DEF CacheInv, Backed
  <2>3. tree[k] # None => Live(k)
    BY DEF LastingInv, OnePut, Live, is_expired
  <2> QED BY <2>2, <2>3 DEF get
<1> QED BY <1>1, CacheAlways, PTL
-----------------------------------------------------------------------------
(* Writers that exclude each other.                                        *)

(* Only one request at a time is under way.                                *)
Solo == Sequential \/ (Exclusive /\ ~setting.ttl)

SoloInv == Solo => \A t, u \in Threads : req[t] # NoRequest /\ req[u] # NoRequest => t = u

(* One thread serves all, or the mutex keeps the writers apart.            *)
LEMMA SoloAlways == ViewInv /\ LastingInv => SoloInv
<1> SUFFICES ASSUME ViewInv, LastingInv, Solo, NEW t \in Threads, NEW u \in Threads,
                    req[t] # NoRequest, req[u] # NoRequest
             PROVE  t = u
  BY DEF SoloInv
<1>1. \A v \in {t, u} : Goes(req[v]) /\ req[v].kind \in setting.ops[v]
  BY ShapeGoes DEF ViewInv, Requests
<1>2. \A v \in {t, u} : req[v].kind \in All
  BY <1>1 DEF Goes, All
<1>3. CASE Sequential
  <2>1. t \in Writers(All) /\ u \in Writers(All)
    BY <1>1, <1>2 DEF Writers
  <2>2. IsFiniteSet(Writers(All)) /\ Cardinality(Writers(All)) <= 1
    BY <1>3, FS_Subset, ViewsAssumption DEF Writers, Sequential
  <2> QED BY <2>1, <2>2, AtMostOne
<1>4. CASE Exclusive /\ ~setting.ttl
  <2>1. \A v \in {t, u} : req[v].kind \in {"cas", "tx"}
    <3>1. ASSUME NEW v \in {t, u} PROVE req[v].kind \in {"cas", "tx"}
      <4>1. v \in Threads /\ v \notin Writers({"put", "delete"}) /\ req[v].kind # "purge"
        BY <1>4 DEF Exclusive, LastingInv
      <4>2. req[v].kind \notin {"put", "delete"}
        BY <1>1, <4>1 DEF Writers
      <4> QED BY <1>2, <4>1, <4>2 DEF All
    <3> QED BY <3>1
  <2>2. \A v \in {t, u} : wal_lock = v
    BY <2>1 DEF ViewInv, Requests
  <2> QED BY <2>2
<1> QED BY <1>3, <1>4 DEF Solo
-----------------------------------------------------------------------------
(* The index.                                                              *)

(* Between an Unindex of k and the request's own entry for k.              *)
Bare(r, k) ==
  /\ r # NoRequest /\ Key(r) = k
  /\ \/ r.kind \in {"put", "cas"} /\ Op(r) \in {"lookup", "create", "add"}
     \/ r.kind \in {"delete", "purge"} /\ Op(r) = "remove"
     \/ r.kind = "tx" /\ Op(r) \in {"insert", "remove", "lookup", "create", "add"}

(* The request's entry for k is there, its record is not yet in the tree.  *)
Added(r, k) ==
  r # NoRequest /\ Key(r) = k /\ r.kind \in {"put", "cas"} /\ Op(r) \in {"fill", "invalidate", "log", "insert"}

(* Expired records and a restart leave entries behind.                     *)
Exact == ~setting.ttl /\ restarts = 0

(* The index has k where rec belongs, and nowhere else.                    *)
Enters(ix, k, rec) == rec # None /\ Text[rec.value] # None => k \in ix[Text[rec.value]].keys

Only(ix, k, rec) == \A x \in Texts : k \in ix[x].keys => rec # None /\ Text[rec.value] = x

(* What a request knows of the tree and of the index.                      *)
Placed(r, tr, ix) ==
  r # NoRequest =>
    /\ Op(r) = "unindex" => r.old = tr[Key(r)]
    /\ Op(r) = "create" => ix[Text[r.writes[Key(r)].value]].made = 0
    /\ Op(r) = "add" => ix[Text[r.writes[Key(r)].value]].made = r.set /\ r.set # 0
    /\ r.kind = "tx" /\ Op(r) \in {"lookup", "create", "add"} => tr[Key(r)] = r.writes[Key(r)]

(* A set that was never made has no keys.                                  *)
Unmade(ix) == \A x \in Texts : ix[x].made = 0 => ix[x].keys = {}

Exactly(ix, k, rec) == Enters(ix, k, rec) /\ (Exact => Only(ix, k, rec))

(* The index has each key where its record in the tree belongs, or where   *)
(* the request that writes it has got.                                     *)
Indexed(k) ==
  /\ (\A t \in Threads : ~Bare(req[t], k) /\ ~Added(req[t], k)) => Exactly(indexes, k, tree[k])
  /\ \A t \in Threads : Bare(req[t], k) => Exactly(indexes, k, None)
  /\ \A t \in Threads : Added(req[t], k) => Exactly(indexes, k, req[t].writes[k])

(* All of it: the sets, the requests and the keys.                         *)
IndexInv ==
  Solo => /\ Unmade(indexes)
          /\ \A t \in Threads : Placed(req[t], tree, indexes)
          /\ \A k \in Keys : Indexed(k)

(* What an access of r, which leaves q to do, makes of the index.          *)
IndexMoved(r, q, ix, iy) ==
  LET a == Key(r)
      x == Text[r.writes[a].value]
  IN /\ Op(r) \notin {"unindex", "create", "add"} => iy = ix
     /\ Op(r) = "unindex" =>
          \A y \in Texts : /\ iy[y].made = ix[y].made
                           /\ r.old # None /\ Text[r.old.value] = y => iy[y].keys = ix[y].keys \ {a}
                           /\ ~(r.old # None /\ Text[r.old.value] = y) => iy[y].keys = ix[y].keys
     /\ Op(r) \in {"create", "add"} =>
          /\ x \in Texts /\ \A y \in Texts : y # x => iy[y] = ix[y]
          /\ Op(r) = "create" => iy[x].made = ix[x].made + 1 /\ iy[x].keys = {} /\ q.set = ix[x].made + 1
          /\ Op(r) = "add" /\ ix[x].made = r.set => iy[x].made = ix[x].made /\ iy[x].keys = ix[x].keys \cup {a}

(* Every access of a thread does that to the index.                        *)
LEMMA IndexEffect ==
  ASSUME ViewInv, NEW t \in Threads, Handle(t)
  PROVE  IndexMoved(req[t], req'[t], indexes, indexes')
<1>0. PICK r, a, x : r = req[t] /\ a = Key(r) /\ x = Text[r.writes[a].value]
  OBVIOUS
<1> SUFFICES
         /\ Op(r) \notin {"unindex", "create", "add"} => indexes' = indexes
         /\ Op(r) = "unindex" =>
              \A y \in Texts : /\ indexes'[y].made = indexes[y].made
                               /\ r.old # None /\ Text[r.old.value] = y => indexes'[y].keys = indexes[y].keys \ {a}
                               /\ ~(r.old # None /\ Text[r.old.value] = y) => indexes'[y].keys = indexes[y].keys
         /\ Op(r) \in {"create", "add"} =>
              /\ x \in Texts /\ \A y \in Texts : y # x => indexes'[y] = indexes[y]
              /\ Op(r) = "create" => indexes'[x].made = indexes[x].made + 1 /\ indexes'[x].keys = {}
                                     /\ req'[t].set = indexes[x].made + 1
              /\ Op(r) = "add" /\ indexes[x].made = r.set =>
                   indexes'[x].made = indexes[x].made /\ indexes'[x].keys = indexes[x].keys \cup {a}
  BY <1>0 DEF IndexMoved
<1>1. r # NoRequest /\ Goes(r) /\ Op(r) = Step(t).op /\ a = Step(t).key
  BY <1>0, HandleAdvances
<1>2. indexes \in Indexes
  BY DEF ViewInv
<1>3. CASE Unindex(t)
  <2>1. Op(r) = "unindex"
    BY <1>0, <1>1, <1>3 DEF Unindex, Access
  <2>2. r.old \in DbRecord \cup {None}
    BY <1>0, <1>1 DEF Goes, Formed
  <2>3. ASSUME NEW y \in Texts
        PROVE  indexes'[y] = IF r.old # None /\ y \in extract_index_keys(r.old.value)
                             THEN [indexes[y] EXCEPT !.keys = @ \ {a}] ELSE indexes[y]
    BY <1>0, <1>1, <1>3 DEF Unindex
  <2>4. ASSUME NEW y \in Texts
        PROVE  /\ indexes'[y].made = indexes[y].made
               /\ r.old # None /\ Text[r.old.value] = y => indexes'[y].keys = indexes[y].keys \ {a}
               /\ ~(r.old # None /\ Text[r.old.value] = y) => indexes'[y].keys = indexes[y].keys
    <3>1. indexes[y] \in [made : Nat, keys : SUBSET Keys]
      BY <1>2 DEF Indexes
    <3>2. y \in extract_index_keys(r.old.value) <=> Text[r.old.value] = y
      BY DEF extract_index_keys
    <3> QED BY <2>3, <3>1, <3>2
  <2> QED BY <2>1, <2>4
<1>4. CASE Create(t)
  <2>1. Op(r) = "create" /\ NewText(t) = x /\ x \in Texts
    BY <1>0, <1>1, <1>4, NewTextFacts DEF Create, Access
  <2>2. indexes' = [indexes EXCEPT ![x] = [made |-> indexes[x].made + 1, keys |-> {}]] /\ req'[t].set = indexes[x].made + 1
    BY <1>0, <1>4, <2>1, CreateTyped
  <2> QED BY <1>2, <2>1, <2>2 DEF Indexes
<1>5. CASE Add(t)
  <2>1. Op(r) = "add" /\ NewText(t) = x /\ x \in Texts
    BY <1>0, <1>1, <1>5, NewTextFacts DEF Add, Access
  <2>2. indexes' = IF indexes[x].made = r.set THEN [indexes EXCEPT ![x].keys = @ \cup {a}] ELSE indexes
    BY <1>0, <1>1, <1>5, <2>1 DEF Add
  <2>3. indexes[x] \in [made : Nat, keys : SUBSET Keys]
    BY <1>2, <2>1 DEF Indexes
  <2>4. CASE indexes[x].made = r.set
    <3>1. indexes' = [indexes EXCEPT ![x] = [indexes[x] EXCEPT !.keys = indexes[x].keys \cup {a}]]
      BY <2>2, <2>4
    <3>2. indexes'[x] = [indexes[x] EXCEPT !.keys = indexes[x].keys \cup {a}] /\ \A y \in Texts : y # x => indexes'[y] = indexes[y]
      BY <1>2, <2>1, <3>1 DEF Indexes
    <3> QED BY <2>1, <2>3, <2>4, <3>2
  <2>5. CASE indexes[x].made # r.set
    BY <2>1, <2>2, <2>5
  <2> QED BY <2>4, <2>5
<1>6. CASE NextKey(t) \/ Read(t) \/ Lookup(t) \/ Fill(t) \/ Invalidate(t) \/ Log(t) \/ TreeInsert(t) \/ TreeRemove(t)
           \/ Notify(t) \/ Unlock(t)
  <2>1. indexes' = indexes
    BY <1>6 DEF NextKey, Read, Lookup, Fill, Invalidate, Log, TreeInsert, TreeRemove, Notify, Unlock
  <2>2. Op(r) \notin {"unindex", "create", "add"}
    BY <1>0, <1>1, <1>6 DEF NextKey, Read, Lookup, Fill, Invalidate, Log, TreeInsert, TreeRemove, Notify, Unlock, Access
  <2> QED BY <2>1, <2>2
<1> QED BY <1>3, <1>4, <1>5, <1>6 DEF Handle

(* What an access does to the tree.                                        *)
LEMMA TreeEffect ==
  ASSUME ViewInv, NEW t \in Threads, Handle(t), NEW r, r = req[t], NEW a, a = Key(r)
  PROVE  /\ \A k \in Keys : k # a => tree'[k] = tree[k]
         /\ Op(r) \notin {"insert", "remove"} => tree' = tree
         /\ Op(r) = "insert" => a \in Keys /\ tree'[a] = r.writes[a]
         /\ Op(r) = "remove" => a \in Keys /\ tree'[a] = None
<1>1. r # NoRequest /\ Goes(r) /\ Op(r) = Step(t).op /\ a = Step(t).key
  BY HandleAdvances
<1>2. Op(r) \in {"insert", "remove"} => a \in Keys
  BY <1>1 DEF Goes, PutGoes, DeleteGoes, CasGoes, TxGoes, PurgeGoes
<1>3. CASE TreeInsert(t)
  BY <1>1, <1>2, <1>3 DEF TreeInsert, Access, ViewInv, Trees
<1>4. CASE TreeRemove(t)
  BY <1>1, <1>2, <1>4 DEF TreeRemove, Access, ViewInv, Trees
<1>5. CASE NextKey(t) \/ Read(t) \/ Unindex(t) \/ Lookup(t) \/ Create(t) \/ Add(t) \/ Fill(t) \/ Invalidate(t)
           \/ Log(t) \/ Notify(t) \/ Unlock(t)
  <2>1. tree' = tree
    BY <1>5 DEF NextKey, Read, Unindex, Lookup, Create, Add, Fill, Invalidate, Log, Notify, Unlock
  <2>2. Op(r) \notin {"insert", "remove"}
    BY <1>1, <1>5 DEF NextKey, Read, Unindex, Lookup, Create, Add, Fill, Invalidate, Log, Notify, Unlock, Access
  <2> QED BY <2>1, <2>2
<1> QED BY <1>3, <1>4, <1>5 DEF Handle

(* Where a request's access to a key takes the key.                        *)
LEMMA WindowMoves ==
  ASSUME NEW r, r # NoRequest, Goes(r), NEW q, Advances(r, q), NEW k \in Keys
  PROVE  /\ k # Key(r) => ~Bare(r, k) /\ ~Added(r, k) /\ ~Bare(q, k) /\ ~Added(q, k)
         /\ Op(r) = "unindex" => ~Bare(r, k) /\ ~Added(r, k) /\ (k = Key(r) => Bare(q, k))
         /\ Op(r) \in {"lookup", "create", "add"} /\ k = Key(r) => Bare(r, k)
         /\ Op(r) = "create" /\ k = Key(r) => Bare(q, k)
         /\ Op(r) = "add" => ~Bare(q, k)
         /\ Op(r) = "add" /\ k = Key(r) => (Added(q, k) <=> r.kind \in {"put", "cas"})
         /\ Op(r) \in {"fill", "invalidate", "log"} => ~Bare(r, k) /\ ~Bare(q, k) /\ (Added(r, k) <=> Added(q, k))
         /\ Op(r) = "insert" /\ k = Key(r) => \/ Bare(r, k) /\ Bare(q, k)
                                              \/ Added(r, k) /\ ~Bare(q, k) /\ ~Added(q, k)
         /\ Op(r) = "remove" => (k = Key(r) => Bare(r, k)) /\ ~Bare(q, k) /\ ~Added(q, k)
         /\ Op(r) \in {"next", "read", "notify", "unlock"} =>
              ~Bare(r, k) /\ ~Added(r, k) /\ ~Bare(q, k) /\ ~Added(q, k)
         /\ q # NoRequest /\ (Bare(q, k) \/ Added(q, k)) => Key(r) = k /\ q.writes = r.writes
<1>1. CASE r.kind = "put"
  BY <1>1 DEF Goes, PutGoes, Advances, After, PutNext, Bare, Added
<1>2. CASE r.kind = "delete"
  BY <1>2 DEF Goes, DeleteGoes, Advances, After, Bare, Added
<1>3. CASE r.kind = "cas"
  BY <1>3 DEF Goes, CasGoes, Advances, After, Bare, Added
<1>4. CASE r.kind = "tx"
  <2>1. TxGoes(r)
    BY <1>4 DEF Goes
  <2>2. CASE Op(r) = "next"
    <3>1. q.kind = "tx" /\ Op(q) \in {"unlock", "read"}
      BY <2>2 DEF Advances
    <3> QED BY <1>4, <2>2, <3>1 DEF Bare, Added
  <2>3. CASE Op(r) = "unlock"
    <3>1. q = NoRequest
      BY <1>4, <2>3 DEF Advances, After
    <3> QED BY <1>4, <2>3, <3>1 DEF Bare, Added
  <2>4. CASE Op(r) \notin {"next", "unlock"}
    <3>1. q # NoRequest /\ q.kind = "tx" /\ q.writes = r.writes /\ Key(q) = Key(r) /\ After(r, Op(q))
      BY <1>4, <2>4 DEF Advances
    <3>2. /\ (Op(r) = "log" => Op(q) = "next") /\ (Op(r) = "read" => Op(q) = "unindex")
          /\ Op(r) = "unindex" => Op(q) \in {"insert", "remove"}
          /\ (Op(r) = "insert" => Op(q) = "lookup")
          /\ (Op(r) = "create" => Op(q) = "add") /\ (Op(r) \in {"add", "remove"} => Op(q) = "notify")
          /\ (Op(r) = "notify" => Op(q) = "invalidate") /\ (Op(r) = "invalidate" => Op(q) = "next")
          /\ Op(r) = "lookup" => Op(q) \in {"create", "add", "notify"}
      BY <1>4, <3>1 DEF After
    <3> QED BY <1>4, <2>1, <2>4, <3>1, <3>2 DEF TxGoes, Bare, Added
  <2> QED BY <2>2, <2>3, <2>4
<1>5. CASE r.kind = "purge"
  BY <1>5 DEF Goes, PurgeGoes, Advances, After, Bare, Added
<1> QED BY <1>1, <1>2, <1>3, <1>4, <1>5 DEF Goes

(* With the same entries for k, an index is as good for k.                 *)
LEMMA SameEntries ==
  ASSUME NEW ix, NEW iy, NEW k, NEW rec \in DbRecord \cup {None},
         \A x \in Texts : k \in iy[x].keys <=> k \in ix[x].keys
  PROVE  (Enters(ix, k, rec) => Enters(iy, k, rec)) /\ (Only(ix, k, rec) => Only(iy, k, rec))
BY RecordFacts DEF Enters, Only

(* Every access keeps IndexInv.                                            *)
LEMMA IndexHandle ==
  ASSUME ViewInv, LastingInv, IndexInv, NEW t \in Threads, Handle(t)
  PROVE  IndexInv'
<1> DEFINE r == req[t]
           q == req'[t]
           a == Key(r)
           x == Text[r.writes[a].value]
<1>1. /\ setting' = setting /\ restarts' = restarts /\ r # NoRequest /\ Goes(r) /\ Advances(r, q)
      /\ Op(r) = Step(t).op /\ a = Step(t).key
      /\ \A u \in Threads : u # t => req'[u] = req[u]
  BY HandleAdvances
<1> SUFFICES ASSUME Solo PROVE IndexInv'
  BY <1>1 DEF IndexInv, Solo, Sequential, Exclusive, Writers
<1>2. \A u \in Threads : u # t => req[u] = NoRequest /\ req'[u] = NoRequest
  BY <1>1, SoloAlways DEF SoloInv
<1>3. Unmade(indexes) /\ Placed(r, tree, indexes) /\ \A k \in Keys : Indexed(k)
  BY DEF IndexInv
<1>4. \A k, u : u \in Threads /\ u # t => ~Bare(req[u], k) /\ ~Added(req[u], k) /\ ~Bare(req'[u], k) /\ ~Added(req'[u], k)
  BY <1>2 DEF Bare, Added
<1>5. Exact' = Exact
  BY <1>1 DEF Exact
<1>6. indexes \in Indexes /\ indexes' \in Indexes /\ tree \in Trees /\ tree' \in Trees /\ r.writes \in Writes /\ Gone # None
  BY <1>1, HandleAdvances, RecordAssumption DEF ViewInv, Goes, Formed
<1>7. /\ \A k \in Keys : k # a => tree'[k] = tree[k]
      /\ Op(r) \notin {"insert", "remove"} => tree' = tree
      /\ Op(r) = "insert" => a \in Keys /\ tree'[a] = r.writes[a]
      /\ Op(r) = "remove" => a \in Keys /\ tree'[a] = None
  BY TreeEffect
<1>8. /\ Op(r) \notin {"unindex", "create", "add"} => indexes' = indexes
      /\ Op(r) = "unindex" =>
           \A y \in Texts : /\ indexes'[y].made = indexes[y].made
                            /\ r.old # None /\ Text[r.old.value] = y => indexes'[y].keys = indexes[y].keys \ {a}
                            /\ ~(r.old # None /\ Text[r.old.value] = y) => indexes'[y].keys = indexes[y].keys
      /\ Op(r) \in {"create", "add"} =>
           /\ x \in Texts /\ \A y \in Texts : y # x => indexes'[y] = indexes[y]
           /\ Op(r) = "create" => indexes'[x].made = indexes[x].made + 1 /\ indexes'[x].keys = {}
                                  /\ q.set = indexes[x].made + 1
           /\ Op(r) = "add" /\ indexes[x].made = r.set =>
                indexes'[x].made = indexes[x].made /\ indexes'[x].keys = indexes[x].keys \cup {a}
  BY IndexEffect DEF IndexMoved
<1>9. /\ Op(r) = "create" => indexes[x].made = 0 /\ indexes[x].keys = {}
      /\ Op(r) = "add" => indexes[x].made = r.set /\ r.set # 0
  BY <1>1, <1>3, <1>8 DEF Placed, Unmade
<1>10. Unmade(indexes')
  <2>1. CASE Op(r) = "unindex"
    BY <1>3, <1>8, <2>1 DEF Unmade
  <2>2. CASE Op(r) = "create"
    BY <1>3, <1>6, <1>8, <1>9, <2>2 DEF Unmade
  <2>3. CASE Op(r) = "add"
    <3> QED BY <1>3, <1>8, <1>9, <2>3 DEF Unmade
  <2>4. CASE Op(r) \notin {"unindex", "create", "add"}
    BY <1>3, <1>8, <2>4
  <2> QED BY <2>1, <2>2, <2>3, <2>4
<1>11. Placed(q, tree', indexes')
  <2> SUFFICES ASSUME q # NoRequest PROVE Placed(q, tree', indexes')
    BY DEF Placed
  <2>1. Op(r) # "next" => q.kind = r.kind /\ q.writes = r.writes /\ Key(q) = a /\ After(r, Op(q))
    BY <1>1 DEF Advances
  <2>2. Op(r) = "next" => Op(q) \in {"unlock", "read"}
    BY <1>1 DEF Advances
  <2>3. /\ Op(q) = "unindex" => Op(r) = "read"
        /\ Op(q) = "create" => Op(r) = "lookup"
        /\ Op(q) = "add" => Op(r) \in {"lookup", "create"}
        /\ Op(q) = "lookup" /\ q.kind = "tx" => Op(r) = "insert"
    <3>1. CASE r.kind = "put"
      BY <1>1, <2>1, <2>2, <3>1 DEF Goes, PutGoes, After, PutNext
    <3>2. CASE r.kind = "delete"
      BY <1>1, <2>1, <2>2, <3>2 DEF Goes, DeleteGoes, After
    <3>3. CASE r.kind = "cas"
      BY <1>1, <2>1, <2>2, <3>3 DEF Goes, CasGoes, After
    <3>4. CASE r.kind = "tx"
      BY <1>1, <2>1, <2>2, <3>4 DEF Goes, TxGoes, After, Advances
    <3>5. CASE r.kind = "purge"
      BY <1>1, <2>1, <2>2, <3>5 DEF Goes, PurgeGoes, After
    <3> QED BY <1>1, <3>1, <3>2, <3>3, <3>4, <3>5 DEF Goes
  <2>4. Op(q) = "unindex" => q.old = tree'[Key(q)]
    <3>1. SUFFICES ASSUME Op(q) = "unindex" PROVE q.old = tree'[Key(q)]
      OBVIOUS
    <3>2. Read(t)
      BY <1>1, <2>3, <3>1 DEF Handle, NextKey, Unindex, Lookup, Create, Add, Log, Fill, Invalidate, TreeInsert, TreeRemove, Notify, Unlock, Access
    <3>3. q.old = tree[a] /\ tree' = tree
      BY <1>1, <3>2, ReadTyped DEF Read
    <3> QED BY <2>1, <2>3, <3>1, <3>3
  <2>5. CASE Op(r) = "lookup"
    <3>1. Lookup(t)
      BY <1>1, <2>5 DEF Handle, NextKey, Unindex, Read, Create, Add, Log, Fill, Invalidate, TreeInsert, TreeRemove, Notify, Unlock, Access
    <3>2. /\ Op(q) = "create" => indexes[NewText(t)].made = 0 /\ NewTexts(t) # {}
          /\ Op(q) = "add" => indexes[NewText(t)].made # 0 /\ q.set = indexes[NewText(t)].made /\ NewTexts(t) # {}
      <4>1. q = Ahead(r, 3) => Op(q) = CASE r.kind = "put" -> PutNext(r) [] r.kind = "cas" -> "invalidate" [] OTHER -> "notify"
        BY <1>1, <2>5 DEF Goes, PutGoes, DeleteGoes, CasGoes, TxGoes, PurgeGoes, Moved
      <4>2. q = Ahead(r, 3) => Op(q) \notin {"create", "add"}
        BY <4>1 DEF PutNext
      <4> QED BY <3>1, <4>2, LookupTyped
    <3>3. NewTexts(t) # {} => NewText(t) = x
      BY <1>1, <2>5, NewTextFacts
    <3>4. tree[a] = r.writes[a] \/ r.kind # "tx"
      BY <1>1, <1>3, <2>5 DEF Placed
    <3> QED BY <1>7, <1>8, <2>1, <2>3, <2>4, <2>5, <3>2, <3>3, <3>4 DEF Placed
  <2>6. CASE Op(r) = "create"
    <3>1. q.set = indexes'[x].made /\ q.set # 0
      <4>1. indexes[x].made = 0
        BY <1>9, <2>6
      <4>2. q.set = indexes[x].made + 1 /\ indexes'[x].made = indexes[x].made + 1
        BY <1>8, <2>6
      <4> HIDE DEF x, q
      <4> QED BY <4>1, <4>2
    <3>2. tree[a] = r.writes[a] \/ r.kind # "tx"
      BY <1>1, <1>3, <2>6 DEF Placed
    <3> QED BY <1>7, <2>1, <2>3, <2>4, <2>6, <3>1, <3>2 DEF Placed
  <2>7. CASE Op(r) \notin {"lookup", "create"}
    <3>1. Op(r) = "insert" => tree'[a] = r.writes[a]
      BY <1>7
    <3> QED BY <2>1, <2>2, <2>3, <2>4, <2>7, <3>1 DEF Placed
  <2> QED BY <2>5, <2>6, <2>7
<1>12. ASSUME NEW u \in Threads PROVE Placed(req'[u], tree', indexes')
  BY <1>2, <1>11 DEF Placed
<1>13. ASSUME NEW k \in Keys PROVE Indexed(k)'
  <2>1. /\ ~Bare(r, k) /\ ~Added(r, k) => Exactly(indexes, k, tree[k])
        /\ Bare(r, k) => Exactly(indexes, k, None)
        /\ Added(r, k) => Exactly(indexes, k, r.writes[k])
    BY <1>3, <1>4 DEF Indexed
  <2>2. SUFFICES /\ ~Bare(q, k) /\ ~Added(q, k) => Enters(indexes', k, tree'[k]) /\ (Exact => Only(indexes', k, tree'[k]))
                 /\ Bare(q, k) => (Exact => Only(indexes', k, None))
                 /\ Added(q, k) => Enters(indexes', k, q.writes[k]) /\ (Exact => Only(indexes', k, q.writes[k]))
    BY <1>4, <1>5 DEF Indexed, Exactly, Enters
  <2>3. tree[k] \in DbRecord \cup {None} /\ tree'[k] \in DbRecord \cup {None}
    BY <1>6 DEF Trees
  <2>4. CASE k # a
    <3>1. ~Bare(r, k) /\ ~Added(r, k) /\ ~Bare(q, k) /\ ~Added(q, k)
      BY <1>1, <2>4, WindowMoves
    <3>2. ASSUME NEW y \in Texts PROVE k \in indexes'[y].keys <=> k \in indexes[y].keys
      <4>1. CASE Op(r) = "unindex"
        BY <1>8, <2>4, <4>1
      <4>2. CASE Op(r) \in {"create", "add"}
        BY <1>8, <1>9, <2>4, <4>2
      <4>3. CASE Op(r) \notin {"unindex", "create", "add"}
        BY <1>8, <4>3
      <4> QED BY <4>1, <4>2, <4>3
    <3>3. Exactly(indexes, k, tree[k]) /\ tree'[k] = tree[k]
      BY <1>7, <2>1, <2>4, <3>1
    <3> QED BY <2>3, <3>1, <3>2, <3>3, SameEntries DEF Exactly
  <2>5. CASE k = a /\ Op(r) = "unindex"
    <3>1. ~Bare(r, k) /\ ~Added(r, k) /\ Bare(q, k) /\ ~Added(q, k)
      BY <1>1, <2>5, WindowMoves DEF Bare, Added
    <3>2. r.old = tree[k]
      BY <1>1, <1>3, <2>5 DEF Placed
    <3>3. ASSUME Exact, NEW y \in Texts PROVE k \notin indexes'[y].keys
      <4>1. k \in indexes[y].keys => tree[k] # None /\ Text[tree[k].value] = y
        BY <2>1, <3>1, <3>3 DEF Exactly, Only
      <4> QED BY <1>8, <2>5, <3>2, <4>1
    <3> QED BY <3>1, <3>3 DEF Only
  <2>6. CASE k = a /\ Op(r) = "lookup"
    <3>1. Bare(r, k) /\ indexes' = indexes /\ tree' = tree
      BY <1>1, <1>7, <1>8, <2>6, WindowMoves
    <3>2. Exact => \A y \in Texts : k \notin indexes[y].keys
      BY <2>1, <3>1 DEF Exactly, Only
    <3>3. Lookup(t)
      BY <1>1, <2>6 DEF Handle, NextKey, Unindex, Read, Create, Add, Log, Fill, Invalidate, TreeInsert, TreeRemove, Notify, Unlock, Access
    <3>4. ~Bare(q, k) => x = None
      <4>1. SUFFICES ASSUME ~Bare(q, k) PROVE x = None
        OBVIOUS
      <4>2. Moved(r, q, Op(q))
        BY <3>3, LookupTyped
      <4>3. Op(q) \notin {"create", "add"}
        BY <2>6, <3>1, <4>1, <4>2 DEF Bare, Moved
      <4>4. NewTexts(t) = {}
        BY <3>3, <4>3, LookupTyped
      <4> QED BY <1>1, <2>6, <4>4, NewTextFacts
    <3>5. ~Bare(q, k) /\ ~Added(q, k) => tree[k] = r.writes[k]
      <4>1. SUFFICES ASSUME ~Bare(q, k), ~Added(q, k) PROVE r.kind = "tx"
        BY <1>1, <1>3, <2>6 DEF Placed
      <4>2. q # NoRequest /\ q.kind = r.kind /\ Key(q) = a /\ After(r, Op(q))
        BY <1>1, <2>6 DEF Advances, After
      <4>3. r.kind \in {"put", "cas", "tx"}
        BY <1>1, <2>6 DEF Goes, DeleteGoes, PurgeGoes
      <4> QED BY <2>6, <4>1, <4>2, <4>3 DEF Bare, Added, After, PutNext
    <3>6. Bare(q, k) \/ Added(q, k) => q.writes = r.writes
      BY <1>1, WindowMoves DEF Bare, Added
    <3>7. ~Bare(q, k) => Enters(indexes', k, r.writes[k]) /\ (Exact => Only(indexes', k, r.writes[k]))
      BY <2>6, <3>1, <3>2, <3>4 DEF Enters, Only
    <3>8. Exact => Only(indexes', k, None)
      BY <3>1, <3>2 DEF Only
    <3> QED BY <3>1, <3>5, <3>6, <3>7, <3>8 DEF Added, Bare
  <2>7. CASE k = a /\ Op(r) = "create"
    <3>1. Bare(r, k) /\ Bare(q, k) /\ ~Added(q, k)
      BY <1>1, <2>7, WindowMoves DEF Bare, Added
    <3>2. Exact => \A y \in Texts : k \notin indexes[y].keys
      BY <2>1, <3>1 DEF Exactly, Only
    <3>3. Exact => \A y \in Texts : k \notin indexes'[y].keys
      BY <1>8, <2>7, <3>2
    <3> QED BY <3>1, <3>3 DEF Only
  <2>8. CASE k = a /\ Op(r) = "add"
    <3>1. Bare(r, k) /\ ~Bare(q, k) /\ (Added(q, k) <=> r.kind \in {"put", "cas"}) /\ (Added(q, k) => q.writes = r.writes)
      BY <1>1, <2>8, WindowMoves DEF Added
    <3>2. Exact => \A y \in Texts : k \notin indexes[y].keys
      BY <2>1, <3>1 DEF Exactly, Only
    <3>3. x \in Texts /\ k \in indexes'[x].keys /\ \A y \in Texts : y # x => indexes'[y].keys = indexes[y].keys
      BY <1>8, <1>9, <2>8
    <3>4. r.writes[k] # None
      BY <1>1, <2>8, RecordFacts DEF Goes, PutGoes, CasGoes, TxGoes, DeleteGoes, PurgeGoes
    <3>5. Enters(indexes', k, r.writes[k]) /\ (Exact => Only(indexes', k, r.writes[k]))
      BY <2>8, <3>2, <3>3, <3>4 DEF Enters, Only
    <3>6. ~Added(q, k) => tree'[k] = r.writes[k]
      <4>1. SUFFICES ASSUME ~Added(q, k) PROVE r.kind = "tx"
        BY <1>1, <1>3, <1>7, <2>8 DEF Placed
      <4> QED BY <1>1, <2>8, <3>1, <4>1 DEF Goes, DeleteGoes, PurgeGoes
    <3> QED BY <3>1, <3>5, <3>6
  <2>9. CASE k = a /\ Op(r) \in {"fill", "invalidate", "log", "insert", "remove", "next", "read", "notify", "unlock"}
    <3>1. indexes' = indexes
      BY <1>8, <2>9
    <3>2. CASE Op(r) \in {"fill", "invalidate", "log"}
      <4>1. tree' = tree /\ ~Bare(r, k) /\ ~Bare(q, k) /\ (Added(r, k) <=> Added(q, k)) /\ (Added(q, k) => q.writes = r.writes)
        BY <1>1, <1>7, <3>2, WindowMoves DEF Added
      <4> QED BY <2>1, <3>1, <4>1 DEF Exactly
    <3>3. CASE Op(r) = "insert"
      <4>1. tree'[k] = r.writes[k]
        BY <1>7, <2>9, <3>3
      <4>2. \/ Bare(r, k) /\ Bare(q, k)
            \/ Added(r, k) /\ ~Bare(q, k) /\ ~Added(q, k)
        BY <1>1, <2>9, <3>3, WindowMoves
      <4>3. Bare(q, k) => ~Added(q, k)
        BY DEF Bare, Added
      <4> QED BY <2>1, <3>1, <4>1, <4>2, <4>3 DEF Exactly
    <3>4. CASE Op(r) = "remove"
      <4>1. tree'[k] = None /\ Bare(r, k) /\ ~Bare(q, k) /\ ~Added(q, k)
        BY <1>1, <1>7, <2>9, <3>4, WindowMoves
      <4> QED BY <2>1, <3>1, <4>1 DEF Exactly
    <3>5. CASE Op(r) \in {"next", "read", "notify", "unlock"}
      <4>1. tree' = tree /\ ~Bare(r, k) /\ ~Added(r, k) /\ ~Bare(q, k) /\ ~Added(q, k)
        BY <1>1, <1>7, <3>5, WindowMoves
      <4> QED BY <2>1, <3>1, <4>1 DEF Exactly
    <3> QED BY <2>9, <3>2, <3>3, <3>4, <3>5
  <2>10. Op(r) \in {"fill", "invalidate", "log", "insert", "remove", "next", "read", "notify", "unlock", "unindex", "lookup",
                    "create", "add"}
    BY <1>1 DEF Goes, PutGoes, DeleteGoes, CasGoes, TxGoes, PurgeGoes
  <2> QED BY <2>4, <2>5, <2>6, <2>7, <2>8, <2>9, <2>10
<1> QED BY <1>10, <1>12, <1>13 DEF IndexInv

(* No request, no key on its way.                                          *)
LEMMA NothingPlaced ==
  \A k : ~Bare(NoRequest, k) /\ ~Added(NoRequest, k)
BY DEF Bare, Added

(* A request that begins keeps IndexInv: a cas that need not take an entry *)
(* away finds none.                                                        *)
LEMMA IndexRequest ==
  ASSUME ViewInv, LastingInv, IndexInv, SoloInv', NEW t \in Threads, Request(t)
  PROVE  IndexInv'
<1>1. PICK q : /\ UNCHANGED <<setting, tree, indexes, cache, log, watcher, now, restarts>>
               /\ req[t] = NoRequest /\ req' = [req EXCEPT ![t] = q] /\ Opening(q)
  BY RequestOpens
<1>2. req'[t] = q /\ \A u \in Threads : u # t => req'[u] = req[u]
  BY <1>1 DEF ViewInv, Requests
<1>3. Goes(q) /\ q # NoRequest
  BY <1>1, ShapeGoes DEF Opening
<1> SUFFICES ASSUME Solo' PROVE IndexInv'
  BY DEF IndexInv
<1>4. Solo /\ Exact' = Exact
  BY <1>1 DEF Solo, Sequential, Exclusive, Writers, Exact
<1>5. \A u \in Threads : req[u] = NoRequest
  <2>1. \A u \in Threads : u # t => req'[u] = NoRequest
    BY <1>2, <1>3 DEF SoloInv
  <2> QED BY <1>1, <1>2, <2>1
<1>6. Unmade(indexes') /\ \A k \in Keys : Exactly(indexes, k, tree[k])
  <2>1. Unmade(indexes) /\ \A k \in Keys : Indexed(k)
    BY <1>4 DEF IndexInv
  <2> QED BY <1>1, <1>5, <2>1, NothingPlaced DEF Indexed
<1>7. Placed(q, tree', indexes')
  BY <1>1 DEF Opening, Placed
<1>8. ASSUME NEW u \in Threads PROVE Placed(req'[u], tree', indexes')
  BY <1>2, <1>5, <1>7 DEF Placed
<1>9. ASSUME NEW k \in Keys PROVE Indexed(k)'
  <2>1. Exactly(indexes, k, tree[k])'
    BY <1>1, <1>4, <1>6 DEF Exactly
  <2>2. ASSUME NEW u \in Threads PROVE ~Added(req'[u], k)
    BY <1>1, <1>2, <1>5 DEF Opening, Added
  <2>3. ASSUME NEW u \in Threads, Bare(req'[u], k) PROVE Exactly(indexes, k, None)'
    <3>1. u = t /\ Key(q) = k /\ q.kind = "cas" /\ Op(q) = "lookup"
      BY <1>1, <1>2, <1>5, <2>3 DEF Opening, Bare
    <3>2. ~Live(k)
      BY <1>1, <3>1 DEF Opening
    <3>3. Exact => tree[k] = None
      BY <3>2 DEF LastingInv, Exact, Live, is_expired
    <3> QED BY <2>1, <1>1, <1>4, <3>3 DEF Exactly, Enters
  <2> QED BY <2>1, <2>2, <2>3 DEF Indexed
<1> QED BY <1>6, <1>8, <1>9 DEF IndexInv

(* Every step does; a restart rebuilds every entry a record needs.         *)
LEMMA IndexStep == ViewInv /\ LastingInv /\ IndexInv /\ SoloInv' /\ [Next]_vars => IndexInv'
<1> SUFFICES ASSUME ViewInv, LastingInv, IndexInv, SoloInv', [Next]_vars PROVE IndexInv'
  OBVIOUS
<1>1. ASSUME NEW t \in Threads, Request(t) PROVE IndexInv'
  BY <1>1, IndexRequest
<1>2. ASSUME NEW t \in Threads, Handle(t) PROVE IndexInv'
  BY <1>2, IndexHandle
<1>3. CASE Watch \/ WatchNext \/ Tick \/ UNCHANGED vars
  <2>1. UNCHANGED <<setting, tree, indexes, req, restarts>>
    BY <1>3 DEF Watch, WatchNext, Tick, vars
  <2> QED BY <2>1 DEF IndexInv, Solo, Sequential, Exclusive, Writers, Indexed, Exactly, Exact
<1>4. CASE Restart
  <2>1. PICK new : new = Rebuilt[Len(log)]
    OBVIOUS
  <2>2. /\ tree' = new.tree /\ indexes' = new.indexes /\ restarts' = restarts + 1
        /\ \A t \in Threads : req'[t] = NoRequest
    BY <1>4, <2>1 DEF Restart
  <2>3. WellBuilt(new)
    BY <2>1, RebuiltBuilt DEF ViewInv
  <2>4. ~Exact'
    BY <2>2 DEF Exact, ViewInv
  <2>5. Unmade(indexes') /\ \A k \in Keys : Enters(indexes', k, tree'[k])
    BY <2>2, <2>3 DEF WellBuilt, Unmade, Entered, Enters
  <2>6. ASSUME NEW k \in Keys PROVE Indexed(k)'
    BY <2>2, <2>4, <2>5, NothingPlaced DEF Indexed, Exactly
  <2>7. ASSUME NEW t \in Threads PROVE Placed(req'[t], tree', indexes')
    BY <2>2 DEF Placed
  <2> QED BY <2>5, <2>6, <2>7 DEF IndexInv
<1> QED BY <1>1, <1>2, <1>3, <1>4 DEF Next

(* IndexInv holds at the start.                                            *)
LEMMA IndexInit == Init => IndexInv
<1> SUFFICES ASSUME Init PROVE IndexInv
  OBVIOUS
<1>1. \A t \in Threads : req[t] = NoRequest
  BY DEF Init
<1>2. \A k \in Keys : tree[k] = None
  BY DEF Init, EmptyViews
<1>3. \A x \in Texts : indexes[x].keys = {}
  BY DEF Init, EmptyViews
<1>4. ASSUME NEW k \in Keys PROVE Indexed(k)
  BY <1>1, <1>2, <1>3, NothingPlaced DEF Indexed, Exactly, Enters, Only
<1> QED BY <1>1, <1>3, <1>4 DEF IndexInv, Unmade, Placed

(* It always holds.                                                        *)
LEMMA IndexAlways == Spec => [](ViewInv /\ LastingInv /\ IndexInv)
<1>1. Spec => [](ViewInv /\ LastingInv)
  BY CacheAlways, PTL
<1> QED BY <1>1, IndexInit, IndexStep, SoloAlways, PTL DEF Spec

(* A settled key is on no request's way.                                   *)
LEMMA SettledPlain ==
  ASSUME ViewInv, NEW k \in Keys, Settled(k), NEW t \in Threads
  PROVE  ~Bare(req[t], k) /\ ~Added(req[t], k)
BY SettledQuiet DEF Bare, Added

(* A first page as long as there are keys leaves no entry out.             *)
LEMMA WholePage ==
  ASSUME ViewInv, NEW x \in Texts, NEW k \in indexes[x].keys, Live(k)
  PROVE  k \in query(x, 0, Cardinality(Keys))
<1> DEFINE before == {j \in indexes[x].keys : j < k}
<1>1. indexes[x].keys \subseteq Keys
  BY DEF ViewInv, Indexes
<1>2. before \subseteq Keys \ {k} /\ k \in Keys /\ IsFiniteSet(Keys)
  <2>1. k \in Keys /\ k \in Nat
    BY <1>1, ViewsAssumption
  <2>2. ~(k < k)
    BY <2>1
  <2> QED BY <1>1, <2>1, <2>2, ViewsAssumption
<1>3. IsFiniteSet(Keys \ {k}) /\ Cardinality(Keys \ {k}) = Cardinality(Keys) - 1 /\ Cardinality(Keys) \in Nat
  BY <1>2, FS_RemoveElement, FS_CardinalityType
<1>4. Cardinality(before) <= Cardinality(Keys \ {k}) /\ Cardinality(before) \in Nat
  BY <1>2, <1>3, FS_Subset, FS_CardinalityType
<1> HIDE DEF before
<1>5. 0 <= Cardinality(before) /\ Cardinality(before) < 0 + Cardinality(Keys)
  BY <1>3, <1>4
<1> QED BY <1>5 DEF query, before

(* query finds every record that has the value asked for, restarts and     *)
(* expired records included, if the writers exclude each other.            *)
THEOREM IndexIsComplete == Spec => []IndexComplete
<1>1. ViewInv /\ LastingInv /\ IndexInv => IndexComplete
  <2> SUFFICES ASSUME ViewInv, LastingInv, IndexInv, Solo, NEW k \in Keys, Settled(k), Live(k),
                      Text[tree[k].value] # None
               PROVE  k \in query(Text[tree[k].value], 0, Cardinality(Keys))
    BY DEF IndexComplete, Complete, Solo
  <2>1. Enters(indexes, k, tree[k])
    BY SettledPlain DEF IndexInv, Indexed, Exactly
  <2>2. tree[k] \in DbRecord
    BY DEF Live, ViewInv, Trees
  <2>3. PICK x \in Texts : x = Text[tree[k].value]
    BY <2>2, RecordFacts
  <2>4. k \in indexes[x].keys
    BY <2>1, <2>3 DEF Enters, Live
  <2> QED BY <2>3, <2>4, WholePage
<1> QED BY <1>1, IndexAlways, PTL

(* query answers with nothing a scan with the same filter would not find,  *)
(* whatever page is asked for, if the writers exclude each other, nothing  *)
(* expires and the index was not rebuilt by a restart.                     *)
THEOREM IndexIsSound == Spec => []IndexSound
<1>1. ViewInv /\ LastingInv /\ IndexInv => IndexSound
  <2> SUFFICES ASSUME ViewInv, LastingInv, IndexInv, Solo, Exact, NEW x \in Texts,
                      NEW offset, NEW limit, NEW k \in query(x, offset, limit), Settled(k)
               PROVE  k \in range_scan(k, k, x)
    BY DEF IndexSound, Solo, Exact
  <2>1. k \in indexes[x].keys /\ Live(k)
    BY DEF query
  <2>2. k \in Keys /\ k \in Nat
    BY <2>1, ViewsAssumption DEF ViewInv, Indexes
  <2>3. Only(indexes, k, tree[k])
    BY <2>2, SettledPlain DEF IndexInv, Indexed, Exactly
  <2>4. Text[tree[k].value] = x /\ x # None
    BY <2>1, <2>3, ViewsAssumption DEF Only
  <2> QED BY <2>1, <2>2, <2>4 DEF range_scan, matches_filter
<1> QED BY <1>1, IndexAlways, PTL
-----------------------------------------------------------------------------
(* The watch stream.                                                       *)

(* The tree has the request's record of k, or is rid of k, and the event   *)
(* has not been sent yet.                                                  *)
Untold(r, k) ==
  /\ r # NoRequest /\ Key(r) = k
  /\ \/ r.kind \in {"put", "cas"} /\ Op(r) = "notify"
     \/ r.kind = "delete" /\ Op(r) \in {"invalidate", "log", "notify"}
     \/ r.kind = "tx" /\ Op(r) \in {"lookup", "create", "add", "notify"}

(* What a command leaves of a key in the tree.                             *)
Written(rec) == IF rec = Gone THEN None ELSE rec

(* An event with v is what a client should have last heard of a key whose  *)
(* record is rec; records that expire go without an event.                 *)
Tells(rec, v) ==
  \/ rec = None /\ (setting.ttl \/ v = "gone")
  \/ rec # None /\ v = rec.value

(* No event of k waits; the last one that does.                            *)
Absent(s, k) == \A i \in 1..Len(s) : s[i].key # k

Last(s, k, i) == i \in 1..Len(s) /\ s[i].key = k /\ \A j \in 1..Len(s) : j > i => s[j].key # k

(* The last event of k that waits, or if none waits the last one received, *)
(* is up to date.                                                          *)
Hears(s, view, k, rec) ==
  /\ \A i : Last(s, k, i) => Tells(rec, s[i].new_value)
  /\ Absent(s, k) /\ view[k] # None => Tells(rec, view[k])

(* The client has missed nothing.                                          *)
KeptUp == watcher.on /\ ~watcher.missed /\ ~watcher.rx.lagged

(* A key whose event is due has what the event says, any other has what    *)
(* was last said.                                                          *)
WatchInv ==
  Solo => /\ \A t \in Threads, k \in Keys : Untold(req[t], k) => tree[k] = Written(req[t].writes[k])
          /\ KeptUp => \A k \in Keys : (\A t \in Threads : ~Untold(req[t], k)) =>
                                         Hears(watcher.rx.queue, watcher.view, k, tree[k])

(* One more event.                                                         *)
LEMMA HearsMore ==
  ASSUME NEW s \in Seq(Events), NEW e \in Events, NEW view, NEW k \in Keys, NEW rec,
         k = e.key => Tells(rec, e.new_value),
         k # e.key => Hears(s, view, k, rec)
  PROVE  Hears(Append(s, e), view, k, rec)
<1>0. PICK z \in Seq(Events) : z = Append(s, e)
  BY AppendProperties
<1>1. /\ Len(s) \in Nat /\ Len(z) = Len(s) + 1 /\ z[Len(s) + 1] = e
      /\ \A i \in 1..Len(s) : z[i] = s[i]
  BY <1>0, AppendProperties, LenProperties
<1>2. CASE k = e.key
  <2>1. ASSUME NEW i, Last(z, k, i) PROVE i = Len(s) + 1
    <3>1. i \in 1..(Len(s) + 1) /\ Len(s) + 1 \in 1..Len(z) /\ z[Len(s) + 1].key = k
      BY <1>1, <1>2, <2>1 DEF Last
    <3>2. ~(Len(s) + 1 > i)
      BY <2>1, <3>1 DEF Last
    <3> QED BY <1>1, <3>1, <3>2
  <2>2. ~Absent(z, k)
    BY <1>1, <1>2 DEF Absent
  <2> QED BY <1>0, <1>1, <1>2, <2>1, <2>2 DEF Hears
<1>3. CASE k # e.key
  <2>1. ASSUME NEW i, Last(z, k, i) PROVE Last(s, k, i) /\ z[i] = s[i]
    <3>1. i \in 1..Len(s)
      BY <1>1, <1>3, <2>1 DEF Last
    <3> QED BY <1>1, <2>1, <3>1 DEF Last
  <2>2. Absent(z, k) => Absent(s, k)
    BY <1>1 DEF Absent
  <2> QED BY <1>0, <1>3, <2>1, <2>2 DEF Hears
<1> QED BY <1>2, <1>3

(* One event received.                                                     *)
LEMMA HearsNext ==
  ASSUME NEW s \in Seq(Events), s # <<>>, NEW view \in [Keys -> Values \cup {"gone", None}], NEW k \in Keys, NEW rec,
         Hears(s, view, k, rec), NEW e, e = Head(s)
  PROVE  Hears(Tail(s), [view EXCEPT ![e.key] = e.new_value], k, rec)
<1>0. PICK z, w : z \in Seq(Events) /\ z = Tail(s) /\ w = [view EXCEPT ![e.key] = e.new_value]
  BY HeadTailProperties
<1>1. /\ Len(z) = Len(s) - 1 /\ Len(s) \in Nat /\ Len(s) # 0 /\ s[1] = e /\ e \in Events
      /\ \A i \in 1..Len(z) : z[i] = s[i + 1]
  BY <1>0, HeadTailProperties, LenProperties, EmptySeq, ElementOfSeq
<1>2. ASSUME NEW i, Last(z, k, i) PROVE Last(s, k, i + 1) /\ z[i] = s[i + 1]
  <2>1. i \in 1..Len(z) /\ i \in Nat /\ i + 1 \in 1..Len(s) /\ s[i + 1].key = k
    BY <1>1, <1>2 DEF Last
  <2>2. ASSUME NEW j \in 1..Len(s), j > i + 1 PROVE s[j].key # k
    <3>1. j - 1 \in 1..Len(z) /\ j - 1 > i /\ (j - 1) + 1 = j
      BY <1>1, <2>1, <2>2
    <3>2. z[j - 1] = s[j]
      BY <1>1, <3>1
    <3> QED BY <1>2, <3>1, <3>2 DEF Last
  <2> QED BY <1>1, <2>1, <2>2 DEF Last
<1>3. ASSUME Absent(z, k), w[k] # None PROVE Tells(rec, w[k])
  <2>1. ASSUME NEW j \in 1..Len(s), j > 1 PROVE s[j].key # k
    <3>1. j - 1 \in 1..Len(z) /\ (j - 1) + 1 = j
      BY <1>1, <2>1
    <3>2. z[j - 1] = s[j]
      BY <1>1, <3>1
    <3> QED BY <1>3, <3>1, <3>2 DEF Absent
  <2>2. CASE e.key = k
    <3>1. Last(s, k, 1)
      BY <1>1, <2>1, <2>2 DEF Last
    <3>2. w[k] = e.new_value
      BY <1>0, <2>2
    <3> QED BY <1>1, <3>1, <3>2 DEF Hears
  <2>3. CASE e.key # k
    <3>1. ASSUME NEW j \in 1..Len(s) PROVE s[j].key # k
      <4>1. j = 1 \/ j > 1
        BY <1>1
      <4> QED BY <1>1, <2>1, <2>3, <4>1
    <3>2. w[k] = view[k]
      BY <1>0, <2>3
    <3> QED BY <1>3, <3>1, <3>2 DEF Hears, Absent
  <2> QED BY <2>2, <2>3
<1> QED BY <1>0, <1>2, <1>3 DEF Hears

(* When an event becomes due, and when it is sent.                         *)
LEMMA UntoldMoves ==
  ASSUME NEW r, r # NoRequest, Goes(r), NEW q, Advances(r, q), NEW k \in Keys
  PROVE  /\ k # Key(r) => ~Untold(r, k) /\ ~Untold(q, k)
         /\ Op(r) \notin {"insert", "remove", "notify"} => (Untold(r, k) <=> Untold(q, k))
         /\ Op(r) = "insert" /\ k = Key(r) => Untold(q, k) /\ r.writes[k] \in DbRecord
         /\ Op(r) = "remove" /\ k = Key(r) =>
              (Untold(q, k) /\ r.writes[k] = Gone) \/ (r.kind = "purge" /\ ~Untold(q, k))
         /\ Op(r) = "notify" => (k = Key(r) => Untold(r, k)) /\ ~Untold(q, k)
         /\ Untold(q, k) => q.writes = r.writes
<1>1. CASE r.kind = "put"
  BY <1>1 DEF Goes, PutGoes, Advances, After, PutNext, Untold
<1>2. CASE r.kind = "delete"
  <2>1. k = Key(r) => r.writes[k] = Gone
    BY <1>2 DEF Goes, DeleteGoes, NoWrites
  <2> QED BY <1>2, <2>1 DEF Goes, DeleteGoes, Advances, After, Untold
<1>3. CASE r.kind = "cas"
  BY <1>3 DEF Goes, CasGoes, Advances, After, Untold
<1>4. CASE r.kind = "tx"
  <2>1. TxGoes(r)
    BY <1>4 DEF Goes
  <2>2. CASE Op(r) = "next"
    <3>1. q.kind = "tx" /\ Op(q) \in {"unlock", "read"}
      BY <2>2 DEF Advances
    <3> QED BY <1>4, <2>2, <3>1 DEF Untold
  <2>3. CASE Op(r) = "unlock"
    <3>1. q = NoRequest
      BY <1>4, <2>3 DEF Advances, After
    <3> QED BY <1>4, <2>3, <3>1 DEF Untold
  <2>4. CASE Op(r) \notin {"next", "unlock"}
    <3>1. q # NoRequest /\ q.kind = "tx" /\ q.writes = r.writes /\ Key(q) = Key(r) /\ After(r, Op(q))
      BY <1>4, <2>4 DEF Advances
    <3>2. /\ (Op(r) = "log" => Op(q) = "next") /\ (Op(r) = "read" => Op(q) = "unindex")
          /\ Op(r) = "unindex" => Op(q) \in {"insert", "remove"}
          /\ (Op(r) = "insert" => Op(q) = "lookup")
          /\ (Op(r) = "create" => Op(q) = "add") /\ (Op(r) \in {"add", "remove"} => Op(q) = "notify")
          /\ (Op(r) = "notify" => Op(q) = "invalidate") /\ (Op(r) = "invalidate" => Op(q) = "next")
          /\ Op(r) = "lookup" => Op(q) \in {"create", "add", "notify"}
      BY <1>4, <3>1 DEF After
    <3> QED BY <1>4, <2>1, <2>4, <3>1, <3>2 DEF TxGoes, Untold
  <2> QED BY <2>2, <2>3, <2>4
<1>5. CASE r.kind = "purge"
  BY <1>5 DEF Goes, PurgeGoes, Advances, After, Untold
<1> QED BY <1>1, <1>2, <1>3, <1>4, <1>5 DEF Goes

(* What Notify, and nothing else a thread does, makes of the stream.       *)
LEMMA WatcherEffect ==
  ASSUME ViewInv, NEW t \in Threads, Handle(t)
  PROVE  /\ Op(req[t]) # "notify" => watcher' = watcher
         /\ Op(req[t]) = "notify" /\ KeptUp' =>
              /\ KeptUp /\ watcher'.view = watcher.view
              /\ \E e \in Events : /\ e.key = Key(req[t]) /\ e.new_value = req[t].writes[Key(req[t])].value
                                   /\ watcher'.rx.queue = Append(watcher.rx.queue, e)
<1> DEFINE r == req[t]
           k == Key(r)
           e == [key |-> k, new_value |-> r.writes[k].value]
<1>1. r # NoRequest /\ Goes(r) /\ Op(r) = Step(t).op /\ k = Step(t).key
  BY HandleAdvances
<1>2. CASE Notify(t)
  <2>1. Op(r) = "notify"
    BY <1>1, <1>2 DEF Notify, Access
  <2>2. k \in Keys /\ r.writes[k] \in DbRecord \cup {Gone}
    <3>1. r.kind = "delete" => k \in Keys /\ r.writes[k] = Gone
      BY <1>1 DEF Goes, DeleteGoes, NoWrites
    <3> QED BY <1>1, <2>1, <3>1 DEF Goes, PutGoes, CasGoes, TxGoes, PurgeGoes
  <2>3. e \in Events /\ e.key = k /\ e.new_value = r.writes[k].value
    BY <2>2 DEF Events, DbRecord, Gone
  <2>4. watcher' = IF watcher.on THEN [watcher EXCEPT !.rx = WatchChannel!Received(watcher.rx, e)] ELSE watcher
    BY <1>1, <1>2 DEF Notify
  <2>5. SUFFICES ASSUME KeptUp'
                 PROVE  KeptUp /\ watcher'.view = watcher.view /\ watcher'.rx.queue = Append(watcher.rx.queue, e)
    BY <2>1, <2>3
  <2> HIDE DEF e
  <2>6. watcher \in Watchers
    BY DEF ViewInv, Watching, Watchers
  <2>7. watcher.on
    BY <2>4, <2>5 DEF KeptUp
  <2>8. PICK ry : ry = WatchChannel!Received(watcher.rx, e)
    OBVIOUS
  <2>9. watcher'.rx = ry /\ watcher'.view = watcher.view /\ watcher'.missed = watcher.missed
    BY <2>4, <2>6, <2>7, <2>8 DEF Watchers
  <2>10. ~ry.lagged /\ ~watcher.missed
    BY <2>5, <2>9 DEF KeptUp
  <2>11. PICK rx \in [queue : Seq(Events), lagged : BOOLEAN] : rx = watcher.rx
    BY <2>6 DEF Watchers
  <2>12. ry = [rx EXCEPT !.queue = Append(rx.queue, e)]
    BY <2>8, <2>10, <2>11 DEF WatchChannel!Received
  <2>13. ry.queue = Append(rx.queue, e) /\ ry.lagged = rx.lagged
    BY <2>11, <2>12
  <2> QED BY <2>7, <2>9, <2>10, <2>11, <2>13 DEF KeptUp
<1>3. CASE NextKey(t) \/ Read(t) \/ Unindex(t) \/ Lookup(t) \/ Create(t) \/ Add(t) \/ Fill(t) \/ Invalidate(t)
           \/ Log(t) \/ TreeInsert(t) \/ TreeRemove(t) \/ Unlock(t)
  <2>1. watcher' = watcher
    BY <1>3 DEF NextKey, Read, Unindex, Lookup, Create, Add, Fill, Invalidate, Log, TreeInsert, TreeRemove, Unlock
  <2>2. Op(r) # "notify"
    BY <1>1, <1>3 DEF NextKey, Read, Unindex, Lookup, Create, Add, Fill, Invalidate, Log, TreeInsert, TreeRemove, Unlock, Access
  <2> QED BY <2>1, <2>2
<1> QED BY <1>2, <1>3 DEF Handle

(* Every access keeps WatchInv.                                            *)
LEMMA WatchHandle ==
  ASSUME ViewInv, LastingInv, WatchInv, NEW t \in Threads, Handle(t)
  PROVE  WatchInv'
<1> DEFINE r == req[t]
           q == req'[t]
           a == Key(r)
<1>1. /\ setting' = setting /\ r # NoRequest /\ Goes(r) /\ Advances(r, q)
      /\ \A u \in Threads : u # t => req'[u] = req[u]
  BY HandleAdvances
<1> SUFFICES ASSUME Solo PROVE WatchInv'
  BY <1>1 DEF WatchInv, Solo, Sequential, Exclusive, Writers
<1>2. \A u \in Threads : u # t => req[u] = NoRequest /\ req'[u] = NoRequest
  BY <1>1, SoloAlways DEF SoloInv
<1>3. \A k, u : u \in Threads /\ u # t => ~Untold(req[u], k) /\ ~Untold(req'[u], k)
  BY <1>2 DEF Untold
<1>4. /\ \A k \in Keys : k # a => tree'[k] = tree[k]
      /\ Op(r) \notin {"insert", "remove"} => tree' = tree
      /\ Op(r) = "insert" => a \in Keys /\ tree'[a] = r.writes[a]
      /\ Op(r) = "remove" => a \in Keys /\ tree'[a] = None
  BY TreeEffect
<1>5. ASSUME NEW k \in Keys
      PROVE  /\ Untold(r, k) => tree[k] = Written(r.writes[k])
             /\ KeptUp /\ ~Untold(r, k) => Hears(watcher.rx.queue, watcher.view, k, tree[k])
  BY <1>3 DEF WatchInv
<1>6. ASSUME NEW k \in Keys
      PROVE  /\ k # Key(r) => ~Untold(r, k) /\ ~Untold(q, k)
             /\ Op(r) \notin {"insert", "remove", "notify"} => (Untold(r, k) <=> Untold(q, k))
             /\ Op(r) = "insert" /\ k = Key(r) => Untold(q, k) /\ r.writes[k] \in DbRecord
             /\ Op(r) = "remove" /\ k = Key(r) =>
                  (Untold(q, k) /\ r.writes[k] = Gone) \/ (r.kind = "purge" /\ ~Untold(q, k))
             /\ Op(r) = "notify" => (k = Key(r) => Untold(r, k)) /\ ~Untold(q, k)
             /\ Untold(q, k) => q.writes = r.writes
  BY <1>1, UntoldMoves
<1>7. ASSUME NEW k \in Keys, Untold(q, k) PROVE tree'[k] = Written(q.writes[k])
  <2>1. k = a /\ q.writes = r.writes
    BY <1>6, <1>7
  <2>2. CASE Op(r) = "insert"
    BY <1>4, <1>6, <2>1, <2>2, RecordFacts DEF Written
  <2>3. CASE Op(r) = "remove"
    BY <1>4, <1>6, <1>7, <2>1, <2>3 DEF Written
  <2>4. CASE Op(r) \notin {"insert", "remove"}
    BY <1>4, <1>5, <1>6, <1>7, <2>1, <2>4
  <2> QED BY <2>2, <2>3, <2>4
<1>8. \A rec, v : Tells(rec, v)' <=> Tells(rec, v)
  BY <1>1 DEF Tells
<1>9. ASSUME KeptUp', NEW k \in Keys, ~Untold(q, k)
      PROVE  Hears(watcher.rx.queue, watcher.view, k, tree[k])'
  <2>1. CASE Op(r) = "notify"
    <3>1. KeptUp /\ watcher'.view = watcher.view /\ tree' = tree
      BY <1>4, <1>9, <2>1, WatcherEffect
    <3>2. PICK e \in Events : /\ e.key = a /\ e.new_value = r.writes[a].value
                              /\ watcher'.rx.queue = Append(watcher.rx.queue, e)
      BY <1>9, <2>1, WatcherEffect
    <3>3. k = e.key => Tells(tree[k], e.new_value)
      <4>1. SUFFICES ASSUME k = a PROVE Tells(tree[k], r.writes[k].value)
        BY <3>2
      <4>2. tree[k] = Written(r.writes[k])
        BY <1>5, <1>6, <2>1, <4>1
      <4>3. tree[k] \in DbRecord \cup {None} /\ Gone.value = "gone"
        BY DEF ViewInv, Trees, Gone
      <4>4. r.writes[k] # None
        <5>1. r.kind = "delete" => r.writes[k] = Gone
          BY <1>1, <4>1 DEF Goes, DeleteGoes, NoWrites
        <5> QED BY <1>1, <2>1, <4>1, <5>1, RecordAssumption DEF Goes, PutGoes, CasGoes, TxGoes, PurgeGoes
      <4> QED BY <4>2, <4>3, <4>4 DEF Tells, Written
    <3>4. k # e.key => Hears(watcher.rx.queue, watcher.view, k, tree[k])
      BY <1>5, <1>6, <3>1, <3>2
    <3>5. watcher.rx.queue \in Seq(Events)
      BY DEF ViewInv, Watching
    <3>6. Hears(Append(watcher.rx.queue, e), watcher.view, k, tree[k])
      BY <3>3, <3>4, <3>5, HearsMore
    <3> QED BY <1>8, <3>1, <3>2, <3>6 DEF Hears
  <2>2. CASE Op(r) # "notify"
    <3>1. watcher' = watcher /\ KeptUp
      BY <1>9, <2>2, WatcherEffect DEF KeptUp
    <3>2. CASE k = a /\ Op(r) = "remove"
      <4>1. r.kind = "purge" /\ tree'[k] = None
        BY <1>4, <1>6, <1>9, <3>2
      <4>2. setting.ttl
        BY <4>1 DEF LastingInv
      <4> QED BY <1>1, <4>1, <4>2 DEF Hears, Tells
    <3>3. CASE ~(k = a /\ Op(r) = "remove")
      <4>1. ~Untold(r, k) /\ tree'[k] = tree[k]
        BY <1>4, <1>6, <1>9, <2>2, <3>3
      <4>2. Hears(watcher.rx.queue, watcher.view, k, tree[k])
        BY <1>5, <3>1, <4>1
      <4> QED BY <1>8, <3>1, <4>1, <4>2 DEF Hears
    <3> QED BY <3>2, <3>3
  <2> QED BY <2>1, <2>2
<1> QED BY <1>2, <1>3, <1>7, <1>9 DEF WatchInv

(* The client's own steps.                                                 *)
LEMMA WatchClient ==
  ASSUME ViewInv, WatchInv, Watch \/ WatchNext
  PROVE  WatchInv'
<1>1. UNCHANGED <<setting, tree, indexes, cache, wal_lock, log, req, now, restarts>>
  BY DEF Watch, WatchNext
<1> SUFFICES ASSUME Solo PROVE WatchInv'
  BY <1>1 DEF WatchInv, Solo, Sequential, Exclusive, Writers
<1>2. \A rec, v : Tells(rec, v)' <=> Tells(rec, v)
  BY <1>1 DEF Tells
<1>3. SUFFICES ASSUME KeptUp', NEW k \in Keys, \A t \in Threads : ~Untold(req[t], k)
               PROVE  Hears(watcher.rx.queue, watcher.view, k, tree[k])'
  BY <1>1 DEF WatchInv
<1>4. watcher \in Watchers
  BY DEF ViewInv, Watching, Watchers
<1>5. CASE Watch
  <2>1. PICK nw \in Watchers : nw = NoWatcher /\ nw.rx.queue = <<>> /\ nw.view = [j \in Keys |-> None]
    BY WatcherTyped DEF Watchers
  <2>2. watcher'.rx.queue = <<>> /\ watcher'.view[k] = None
    BY <1>5, <2>1 DEF Watch, Watchers
  <2> QED BY <2>2 DEF Hears, Last
<1>6. CASE WatchNext
  <2>1. PICK rx \in [queue : Seq(Events), lagged : BOOLEAN] : rx = watcher.rx
    BY <1>4 DEF Watchers
  <2>2. ~rx.lagged
    <3>1. SUFFICES ASSUME rx.lagged PROVE FALSE
      OBVIOUS
    <3>2. PICK ry : watcher' = [watcher EXCEPT !.rx = ry, !.missed = TRUE]
      BY <1>6, <2>1, <3>1 DEF WatchNext
    <3> QED BY <1>3, <1>4, <3>2 DEF Watchers, KeptUp
  <2>3. rx.queue # <<>>
    BY <1>6, <2>1, <2>2 DEF WatchNext
  <2>4. PICK e : e = Head(rx.queue)
    OBVIOUS
  <2>5. PICK ry : ry = WatchChannel!Popped(rx) /\ watcher' = [watcher EXCEPT !.rx = ry, !.view[e.key] = e.new_value]
    BY <1>6, <2>1, <2>2, <2>4 DEF WatchNext
  <2>6. ry.queue = Tail(rx.queue)
    BY <2>1, <2>2, <2>5 DEF WatchChannel!Popped
  <2>7. /\ watcher'.rx = ry /\ watcher'.view = [watcher.view EXCEPT ![e.key] = e.new_value]
        /\ watcher'.on = watcher.on /\ watcher'.missed = watcher.missed
    BY <1>4, <2>5 DEF Watchers
  <2>8. KeptUp
    BY <1>3, <2>1, <2>2, <2>7 DEF KeptUp
  <2>9. Hears(rx.queue, watcher.view, k, tree[k])
    BY <1>3, <2>1, <2>8 DEF WatchInv
  <2>10. watcher.view \in [Keys -> Values \cup {"gone", None}]
    BY <1>4 DEF Watchers
  <2>11. Hears(Tail(rx.queue), [watcher.view EXCEPT ![e.key] = e.new_value], k, tree[k])
    BY <2>1, <2>3, <2>4, <2>9, <2>10, HearsNext
  <2> QED BY <1>1, <1>2, <2>6, <2>7, <2>11 DEF Hears
<1> QED BY <1>5, <1>6

(* Every step does; a restart closes the stream.                           *)
LEMMA WatchStep == ViewInv /\ LastingInv /\ WatchInv /\ [Next]_vars => WatchInv'
<1> SUFFICES ASSUME ViewInv, LastingInv, WatchInv, [Next]_vars PROVE WatchInv'
  OBVIOUS
<1>1. ASSUME NEW t \in Threads, Request(t) PROVE WatchInv'
  <2>1. PICK q : /\ UNCHANGED <<setting, tree, indexes, cache, log, watcher, now, restarts>>
                 /\ req[t] = NoRequest /\ req' = [req EXCEPT ![t] = q] /\ Opening(q)
    BY <1>1, RequestOpens
  <2>2. req'[t] = q /\ \A u \in Threads : u # t => req'[u] = req[u]
    BY <2>1 DEF ViewInv, Requests
  <2>3. \A k : ~Untold(req[t], k) /\ ~Untold(q, k)
    BY <2>1 DEF Opening, Untold
  <2>4. \A k : \A u \in Threads : (Untold(req'[u], k) <=> Untold(req[u], k)) /\ (Untold(req[u], k) => req'[u] = req[u])
    BY <2>2, <2>3
  <2>5. ASSUME NEW k \in Keys
        PROVE  Hears(watcher.rx.queue, watcher.view, k, tree[k])' <=> Hears(watcher.rx.queue, watcher.view, k, tree[k])
    BY <2>1 DEF Hears, Tells
  <2>6. (Solo' <=> Solo) /\ (KeptUp' <=> KeptUp)
    BY <2>1 DEF Solo, Sequential, Exclusive, Writers, KeptUp
  <2> QED BY <2>1, <2>4, <2>5, <2>6 DEF WatchInv
<1>2. ASSUME NEW t \in Threads, Handle(t) PROVE WatchInv'
  BY <1>2, WatchHandle
<1>3. CASE Watch \/ WatchNext
  BY <1>3, WatchClient
<1>4. CASE Tick \/ UNCHANGED vars
  <2>1. UNCHANGED <<setting, tree, req, watcher>>
    BY <1>4 DEF Tick, vars
  <2> QED BY <2>1 DEF WatchInv, Solo, Sequential, Exclusive, Writers, KeptUp, Hears, Tells
<1>5. CASE Restart
  <2>1. watcher' = NoWatcher /\ \A t \in Threads : req'[t] = NoRequest
    BY <1>5 DEF Restart
  <2>2. ~KeptUp' /\ \A t \in Threads, k \in Keys : ~Untold(req'[t], k)
    BY <2>1, WatcherTyped DEF KeptUp, Untold
  <2> QED BY <2>2 DEF WatchInv
<1> QED BY <1>1, <1>2, <1>3, <1>4, <1>5 DEF Next

(* WatchInv holds at the start.                                            *)
LEMMA WatchInit == Init => WatchInv
<1> SUFFICES ASSUME Init PROVE WatchInv
  OBVIOUS
<1>1. watcher = NoWatcher /\ \A t \in Threads : req[t] = NoRequest
  BY DEF Init
<1>2. ~KeptUp /\ \A t \in Threads, k \in Keys : ~Untold(req[t], k)
  BY <1>1, WatcherTyped DEF KeptUp, Untold
<1> QED BY <1>2 DEF WatchInv

(* It always holds.                                                        *)
LEMMA WatchAlways == Spec => [](ViewInv /\ LastingInv /\ WatchInv)
<1>1. Spec => [](ViewInv /\ LastingInv)
  BY CacheAlways, PTL
<1> QED BY <1>1, WatchInit, WatchStep, PTL DEF Spec

(* The last event of a key that a client which has kept up received is the *)
(* key's state, if the writers exclude each other.  Records that expire    *)
(* go without an event.                                                    *)
THEOREM WatchIsCurrent == Spec => []WatchCurrent
<1>1. ViewInv /\ LastingInv /\ WatchInv => WatchCurrent
  <2> SUFFICES ASSUME ViewInv, LastingInv, WatchInv, Solo, watcher.on, ~watcher.missed,
                      watcher.rx = WatchChannel!NewReceiver, NEW k \in Keys, Settled(k), watcher.view[k] # None
               PROVE  \/ tree[k] = None /\ (setting.ttl \/ watcher.view[k] = "gone")
                      \/ tree[k] # None /\ watcher.view[k] = tree[k].value
    BY DEF WatchCurrent, Solo
  <2>1. KeptUp /\ watcher.rx.queue = <<>>
    BY DEF KeptUp, WatchChannel!NewReceiver
  <2>2. \A t \in Threads : ~Untold(req[t], k)
    BY SettledQuiet DEF Untold
  <2>3. Hears(watcher.rx.queue, watcher.view, k, tree[k])
    BY <2>1, <2>2 DEF WatchInv
  <2>4. Absent(watcher.rx.queue, k)
    BY <2>1 DEF Absent
  <2>5. Tells(tree[k], watcher.view[k])
    BY <2>3, <2>4 DEF Hears
  <2> QED BY <2>5 DEF Tells
<1> QED BY <1>1, WatchAlways, PTL
=============================================================================
