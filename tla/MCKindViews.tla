---------------------------- MODULE MCKindViews ----------------------------
(* Workloads and values of the TLC models of KindViews.                    *)
EXTENDS KindViews

CONSTANTS t1, t2

(* The indexed field is the number 1 in a, the string "2" in b, and absent *)
(* from c.  Filters may also ask for "1.0".                                *)
MCText == [v \in Values |-> CASE v = "a" -> "1" [] v = "b" -> "2" [] v = "c" -> None]
MCNumber == [v \in Values |-> IF v = "a" THEN 1 ELSE None]
MCParse == [x \in {"1", "1.0", "2"} |-> IF x = "2" THEN 2 ELSE 1]

Serves(ops1, ops2) == [t \in Threads |-> IF t = t1 THEN ops1 ELSE ops2]

(* One client at a time, with everything there is; once with a restart,    *)
(* once with a watch stream.                                               *)
OneClient ==
  [ops |-> Serves({"put", "delete", "cas", "tx", "purge"}, {}), ttl |-> TRUE, watch |-> FALSE,
   keys |-> {1}, max_writes |-> 3, max_restarts |-> 1]

OneWatched == [OneClient EXCEPT !.watch = TRUE, !.max_writes = 2, !.max_restarts = 0]

(* Two clients that hold the mutex.                                        *)
Mutex ==
  [ops |-> Serves({"cas", "tx"}, {"cas"}), ttl |-> FALSE, watch |-> TRUE,
   keys |-> {1, 2}, max_writes |-> 2, max_restarts |-> 0]

(* One thread that serves puts, one that serves the other writes.          *)
OnePutter ==
  [ops |-> Serves({"put"}, {"delete", "cas", "tx"}), ttl |-> FALSE, watch |-> FALSE,
   keys |-> {1}, max_writes |-> 3, max_restarts |-> 0]

(* The same with two keys, of which a full cache may drop one.             *)
OnePutterTwoKeys ==
  [OnePutter EXCEPT !.ops = Serves({"put"}, {"delete", "tx"}), !.keys = {1, 2}, !.max_writes = 2]

(* Anything at once.                                                       *)
Anything ==
  [ops |-> Serves({"put", "delete", "cas", "tx", "purge"}, {"put", "delete", "cas", "purge"}),
   ttl |-> TRUE, watch |-> FALSE, keys |-> {1}, max_writes |-> 2, max_restarts |-> 0]

PassingWorkloads == {OneClient, OneWatched, Mutex, OnePutter, OnePutterTwoKeys, Anything}

(* One client that puts twice.                                             *)
TwoPuts ==
  {[ops |-> Serves({"put"}, {}), ttl |-> TRUE, watch |-> FALSE, keys |-> {1},
    max_writes |-> 2, max_restarts |-> 0]}
=============================================================================
