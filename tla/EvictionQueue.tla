--------------------------- MODULE EvictionQueue ---------------------------
(***************************************************************************)
(* What the LRU and the FIFO cache of cache.rs promise: at most Capacity   *)
(* keys, each with the value last put, in a queue whose front is the next  *)
(* to go.  A use sends a key to the back (LRU) or leaves it where it is    *)
(* (FIFO).                                                                 *)
(***************************************************************************)
EXTENDS CacheTrait

CONSTANT UseMoves   \* TRUE for LRU, FALSE for FIFO

VARIABLES
  held,       \* Keys -> the cached value, or None
  queue       \* the keys held, the next victim first

Without(k) == retain(queue, k)

Used(k) == IF UseMoves THEN Append(Without(k), k) ELSE queue

Init == held = Absent /\ queue = <<>>

Get(k) ==
  /\ held[k] # None
  /\ queue' = Used(k)
  /\ UNCHANGED held

Overwrite(k, v) ==
  /\ held[k] # None
  /\ held' = [held EXCEPT ![k] = v]
  /\ queue' = Used(k)

Insert(k, v) ==
  /\ held[k] = None /\ Len(queue) < Capacity
  /\ held' = [held EXCEPT ![k] = v]
  /\ queue' = Append(queue, k)

Replace(k, v) ==
  /\ held[k] = None /\ Len(queue) = Capacity
  /\ held' = [held EXCEPT ![k] = v, ![Head(queue)] = None]
  /\ queue' = Append(Tail(queue), k)

Invalidate(k) ==
  /\ held' = [held EXCEPT ![k] = None]
  /\ queue' = Without(k)

Next ==
  \E k \in Keys :
    \/ Get(k) \/ Invalidate(k)
    \/ \E v \in Values : Overwrite(k, v) \/ Insert(k, v) \/ Replace(k, v)

Spec == Init /\ [][Next]_<<held, queue>>
=============================================================================
