--------------------------- MODULE MCReplication ---------------------------
(* Workloads of the TLC models of Replication.  A writer that holds the    *)
(* mutex from its version to its last insert is never overtaken, so that   *)
(* one writer stands for any number of them.                               *)
EXTENDS Replication

CONSTANTS w1, w2

(* Any transactions; streams break and the leader restarts.                *)
Deletes ==
  [ops |-> {"tx", "tx_any"}, faults |-> {"break", "leader_restart"}, chunk |-> 1,
   writers |-> {w1}, keys |-> {1}, max_commands |-> 3, max_faults |-> 2]

(* Commands that leave a record, and truncations of the log.               *)
Truncations ==
  [ops |-> {"tx"}, faults |-> {"truncate", "break", "leader_restart"}, chunk |-> 2,
   writers |-> {w1}, keys |-> {1, 2}, max_commands |-> 3, max_faults |-> 1]

(* Writes during the handshake.                                            *)
Race ==
  [ops |-> {"cas"}, faults |-> {"race", "break"}, chunk |-> 1,
   writers |-> {w1}, keys |-> {1}, max_commands |-> 3, max_faults |-> 1]

(* A snapshot of more than one chunk, which may be cut short.              *)
Chunks ==
  [ops |-> {"put", "delete"}, faults |-> {"race", "break", "replica_restart", "replica_save"},
   chunk |-> 1, writers |-> {w1}, keys |-> {1, 2}, max_commands |-> 2, max_faults |-> 1]

(* Every writer and every fault.                                           *)
Everything ==
  [ops |-> {"put", "delete", "cas", "tx", "tx_any"},
   faults |-> {"race", "break", "truncate", "leader_restart", "replica_restart"},
   chunk |-> 1, writers |-> {w1, w2}, keys |-> {1}, max_commands |-> 2, max_faults |-> 1]

(* A crash of the leader or of the replica cuts a line of its log short.   *)
Damage ==
  [ops |-> {"cas"}, faults |-> {"truncate", "torn", "leader_restart", "replica_restart"},
   chunk |-> 1, writers |-> {w1}, keys |-> {1}, max_commands |-> 3, max_faults |-> 2]

PassingWorkloads == {Deletes, Truncations, Race, Chunks, Everything, Damage}

(* A writer that holds the mutex; nothing but timing goes wrong.           *)
RaceWorkload == {[Race EXCEPT !.faults = {"race"}, !.max_commands = 2]}

(* Transactions that delete, a truncation and a restart of the leader.     *)
ForgottenIds ==
  {[Deletes EXCEPT !.faults = {"truncate", "leader_restart"}, !.max_faults = 1]}
=============================================================================
