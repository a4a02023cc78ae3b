----------------------------- MODULE FifoCache -----------------------------
(***************************************************************************)
(* FifoCache of cache.rs: a map and the queue of its keys in the order of  *)
(* their insertion.  A put that finds the map full goes through a while    *)
(* loop, holding the mutex; each round of it is a step, every other        *)
(* operation is one.  get changes nothing.                                 *)
(***************************************************************************)
EXTENDS CacheTrait

VARIABLES
  fifo_map,     \* Keys -> value or None
  fifo_queue,   \* VecDeque of keys
  putting       \* the arguments of the put in its while loop, or None, and
                \* what the map and the queue were when it took the mutex

fifo == <<fifo_map, fifo_queue, putting>>

(* Mutant of FifoFull: one key too many.                                   *)
FifoFullLate == Cardinality(Held(fifo_map)) > Capacity

FifoFull == Cardinality(Held(fifo_map)) >= Capacity
-----------------------------------------------------------------------------
FifoInit == fifo_map = Absent /\ fifo_queue = <<>> /\ putting = None

FifoPutHit(k, v) ==
  /\ putting = None
  /\ fifo_map[k] # None
  /\ fifo_map' = [fifo_map EXCEPT ![k] = v]
  /\ UNCHANGED <<fifo_queue, putting>>

FifoPutMiss(k, v) ==
  /\ putting = None
  /\ fifo_map[k] = None
  /\ putting' = [key |-> k, value |-> v, map |-> fifo_map, queue |-> fifo_queue]
  /\ UNCHANGED <<fifo_map, fifo_queue>>

(* while map.len() >= capacity: with an empty queue the round changes      *)
(* nothing and the loop goes on.                                           *)
FifoPutEvict ==
  /\ putting # None /\ FifoFull
  /\ IF fifo_queue # <<>>
     THEN fifo_map' = [fifo_map EXCEPT ![Head(fifo_queue)] = None] /\ fifo_queue' = Tail(fifo_queue)
     ELSE UNCHANGED <<fifo_map, fifo_queue>>
  /\ UNCHANGED putting

(* Mutant of FifoPutInsert: the key is queued in front.                    *)
FifoPutInsertFront ==
  /\ putting # None /\ ~FifoFull
  /\ fifo_queue' = <<putting.key>> \o fifo_queue
  /\ fifo_map' = [fifo_map EXCEPT ![putting.key] = putting.value]
  /\ putting' = None

FifoPutInsert ==
  /\ putting # None /\ ~FifoFull
  /\ fifo_queue' = Append(fifo_queue, putting.key)
  /\ fifo_map' = [fifo_map EXCEPT ![putting.key] = putting.value]
  /\ putting' = None

(* Mutants of FifoInvalidate: the queue or the map keeps the key.          *)
FifoInvalidateQueued(k) ==
  /\ putting = None
  /\ fifo_map[k] # None
  /\ fifo_map' = [fifo_map EXCEPT ![k] = None]
  /\ UNCHANGED <<fifo_queue, putting>>

FifoInvalidateUnmapped(k) ==
  /\ putting = None
  /\ fifo_map[k] # None
  /\ fifo_queue' = retain(fifo_queue, k)
  /\ UNCHANGED <<fifo_map, putting>>

FifoInvalidate(k) ==
  /\ putting = None
  /\ fifo_map[k] # None
  /\ fifo_map' = [fifo_map EXCEPT ![k] = None]
  /\ fifo_queue' = retain(fifo_queue, k)
  /\ UNCHANGED putting

FifoLoop == FifoPutEvict \/ FifoPutInsert

FifoNext ==
  \/ \E k \in Keys :
       FifoInvalidate(k) \/ \E v \in Values : FifoPutHit(k, v) \/ FifoPutMiss(k, v)
  \/ FifoLoop
-----------------------------------------------------------------------------
(* Type invariant, with the capacity.                                      *)
FifoTypeOK ==
  /\ fifo_map \in [Keys -> Values \cup {None}]
  /\ fifo_queue \in Seq(Keys)
  /\ putting # None => putting.key \in Keys /\ putting.value \in Values
  /\ Cardinality(Held(fifo_map)) <= Capacity

(* The queue holds the keys of the map, each once.                         *)
FifoQueueIsMap ==
  /\ {fifo_queue[i] : i \in DOMAIN fifo_queue} = Held(fifo_map)
  /\ Len(fifo_queue) = Cardinality(Held(fifo_map))

(* The mutex hides the rounds of the loop: until put returns, others have  *)
(* seen only what it found.                                                *)
AsFifoQueue == INSTANCE EvictionQueue WITH
  UseMoves <- FALSE,
  held <- IF putting = None THEN fifo_map ELSE putting.map,
  queue <- IF putting = None THEN fifo_queue ELSE putting.queue

(* Map and queue behave as one queue ordered by insertion: the capacity is *)
(* kept, only the key inserted first is evicted and only to make room, and *)
(* each key has the value last put.                                        *)
ImplementsFifo == AsFifoQueue!Spec

(* The while loop ends: put returns and gives the mutex up.                *)
FifoPutReturns == putting # None ~> putting = None
=============================================================================
