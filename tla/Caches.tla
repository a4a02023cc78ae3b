------------------------------- MODULE Caches -------------------------------
(* A cache of cache.rs behind the trait Cache, built with one of the three *)
(* policies and used by whoever holds the box.                             *)
EXTENDS LruCache, LfuCache, FifoCache

VARIABLE policy

vars == <<policy, lru, lfu, fifo>>

Init == policy \in {"LRU", "LFU", "FIFO"} /\ LruInit /\ LfuInit /\ FifoInit

Next ==
  /\ UNCHANGED policy
  /\ \/ policy = "LRU" /\ LruNext /\ UNCHANGED <<lfu, fifo>>
     \/ policy = "LFU" /\ LfuNext /\ UNCHANGED <<lru, fifo>>
     \/ policy = "FIFO" /\ FifoNext /\ UNCHANGED <<lru, lfu>>

(* A thread that is inside put runs.                                       *)
Spec == Init /\ [][Next]_vars /\ WF_vars(Next /\ FifoLoop)
=============================================================================
