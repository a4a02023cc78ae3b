---------------------------- MODULE AtomicStore ----------------------------
(***************************************************************************)
(* What cas and the transactions of Kind DB promise, with no log, no tree  *)
(* and no mutex: a request takes effect at one instant between its call    *)
(* and its answer, on all its keys at once and for good; a crash forgets   *)
(* the requests in service and nothing else.                               *)
(***************************************************************************)
CONSTANTS
  Threads, Keys,
  Payloads,   \* what a key may hold
  Values, Empty, None, NoWrite

VARIABLES
  contents,   \* Keys -> Payloads or None
  request     \* the request each thread serves

NoRequest ==
  [op |-> "none", done |-> FALSE, writes |-> [k \in Keys |-> NoWrite], expected |-> Empty]

Touches(w) == {k \in Keys : w[k] # NoWrite}

Overlay(w) == [k \in Keys |-> IF w[k] = NoWrite THEN contents[k] ELSE w[k]]

(* cas: an absent key counts as the empty value.                           *)
Holds(e, k) == IF contents[k] = None THEN e = Empty ELSE contents[k].value = e

Expects(r) == r.op = "cas" => \A k \in Touches(r.writes) : Holds(r.expected, k)

Init ==
  /\ contents \in [Keys -> Payloads \cup {None}]
  /\ request = [t \in Threads |-> NoRequest]

Open(t) == request[t].op # "none" /\ ~request[t].done

CallCas(t) ==
  /\ request[t] = NoRequest
  /\ \E k \in Keys, p \in Payloads, e \in Values :
       request' = [request EXCEPT ![t] =
         [op |-> "cas", done |-> FALSE, writes |-> [NoRequest.writes EXCEPT ![k] = p],
          expected |-> e]]
  /\ UNCHANGED contents

CallTx(t) ==
  /\ request[t] = NoRequest
  /\ request' = [request EXCEPT ![t].op = "tx"]
  /\ UNCHANGED contents

(* put or delete on an open transaction.                                   *)
Extend(t) ==
  /\ Open(t) /\ request[t].op = "tx"
  /\ \E k \in Keys, w \in Payloads \cup {None} :
       request' = [request EXCEPT ![t].writes[k] = w]
  /\ UNCHANGED contents

Commit(t) ==
  /\ Open(t) /\ Expects(request[t])
  /\ contents' = Overlay(request[t].writes)
  /\ request' = [request EXCEPT ![t].done = TRUE]

(* A cas is refused only if the key holds something else; a transaction    *)
(* may be rolled back or refused.                                          *)
Answer(t) ==
  /\ request[t] # NoRequest
  /\ ~request[t].done /\ request[t].op = "cas" => ~Expects(request[t])
  /\ request' = [request EXCEPT ![t] = NoRequest]
  /\ UNCHANGED contents

Crash ==
  /\ request' = [t \in Threads |-> NoRequest]
  /\ UNCHANGED contents

Next ==
  \/ \E t \in Threads : CallCas(t) \/ CallTx(t) \/ Extend(t) \/ Commit(t) \/ Answer(t)
  \/ Crash

Spec == Init /\ [][Next]_<<contents, request>>
=============================================================================
