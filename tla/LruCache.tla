------------------------------ MODULE LruCache ------------------------------
(***************************************************************************)
(* LruCache of cache.rs: a map from keys to slots of a vector of nodes,    *)
(* the nodes doubly linked from the most to the least recently used, and a *)
(* list of slots to use again.  Every operation holds the cache's mutex    *)
(* from its first line to its last, so each is one step.  Slots count from *)
(* 1 here, from 0 in the code.                                             *)
(***************************************************************************)
EXTENDS CacheTrait

VARIABLE lru      \* the LruInner

Link == 1..Capacity \cup {None}

LruNode == [key : Keys, value : Values, prev : Link, next : Link]

LruInner ==
  [map : [Keys -> Link], nodes : Seq(LruNode), free_list : Seq(1..Capacity),
   head : Link, tail : Link]

Unlinked(k, v) == [key |-> k, value |-> v, prev |-> None, next |-> None]
-----------------------------------------------------------------------------
(* The list operations, as functions of the whole LruInner.                *)

(* The nodes with idx taken out from between prev and next.                *)
bypass(nodes, idx, prev, next) ==
  [i \in DOMAIN nodes |->
     [nodes[i] EXCEPT !.next = IF i = idx THEN None ELSE IF i = prev THEN next ELSE @,
                      !.prev = IF i = idx THEN None ELSE IF i = next THEN prev ELSE @]]

(* Mutant of remove_node: the tail stays where it was.                     *)
remove_node_KeepsTail(s, idx) ==
  LET prev == s.nodes[idx].prev
      next == s.nodes[idx].next
  IN [s EXCEPT !.nodes = bypass(@, idx, prev, next),
               !.head = IF prev = None THEN next ELSE @]

remove_node(s, idx) ==
  LET prev == s.nodes[idx].prev
      next == s.nodes[idx].next
  IN [s EXCEPT !.nodes = bypass(@, idx, prev, next),
               !.head = IF prev = None THEN next ELSE @,
               !.tail = IF next = None THEN prev ELSE @]

(* The nodes with idx linked in before the head.                           *)
precede(nodes, idx, head) ==
  [i \in DOMAIN nodes |->
     [nodes[i] EXCEPT !.next = IF i = idx THEN head ELSE @,
                      !.prev = IF i = idx THEN None ELSE IF i = head THEN idx ELSE @]]

(* The lines move_to_front and put share: idx becomes the head.            *)
push_front(s, idx) ==
  [s EXCEPT !.head = idx,
            !.tail = IF @ = None THEN idx ELSE @,
            !.nodes = precede(@, idx, s.head)]

(* Mutant of move_to_front: a use does not count.                          *)
move_to_front_Ignored(s, idx) == s

move_to_front(s, idx) ==
  IF s.head = idx THEN s ELSE push_front(remove_node(s, idx), idx)

(* Mutant of evict: the slot is not given back.                            *)
evict_Leaks(s) ==
  [remove_node(s, s.tail) EXCEPT !.map[s.nodes[s.tail].key] = None]

(* put: the least recently used node makes room.                           *)
evict(s) ==
  [remove_node(s, s.tail) EXCEPT !.map[s.nodes[s.tail].key] = None,
                                 !.free_list = Append(@, s.tail)]

(* put: a slot for the new node, the last one freed or else one more.      *)
insert(s, k, v) ==
  LET n == Len(s.free_list)
      idx == IF n > 0 THEN s.free_list[n] ELSE Len(s.nodes) + 1
  IN push_front(
       [s EXCEPT !.free_list = IF n > 0 THEN SubSeq(@, 1, n - 1) ELSE @,
                 !.nodes = IF n > 0 THEN [@ EXCEPT ![idx] = Unlinked(k, v)]
                           ELSE Append(@, Unlinked(k, v)),
                 !.map[k] = idx], idx)
-----------------------------------------------------------------------------
(* The trait's operations.  A get or invalidate that finds nothing changes *)
(* nothing.                                                                *)

LruInit ==
  lru = [map |-> Absent, nodes |-> <<>>, free_list |-> <<>>,
         head |-> None, tail |-> None]

LruGet(k) ==
  /\ lru.map[k] # None
  /\ lru' = move_to_front(lru, lru.map[k])

LruPutHit(k, v) ==
  LET idx == lru.map[k] IN
  /\ idx # None
  /\ lru' = move_to_front([lru EXCEPT !.nodes[idx].value = v], idx)

LruPutNew(k, v) ==
  /\ lru.map[k] = None
  /\ LET full == Cardinality(Held(lru.map)) >= Capacity /\ lru.tail # None
     IN lru' = insert(IF full THEN evict(lru) ELSE lru, k, v)

LruInvalidate(k) ==
  LET idx == lru.map[k] IN
  /\ idx # None
  /\ lru' = [remove_node([lru EXCEPT !.map[k] = None], idx)
               EXCEPT !.free_list = Append(@, idx)]

LruNext ==
  \E k \in Keys :
    \/ LruGet(k) \/ LruInvalidate(k)
    \/ \E v \in Values : LruPutHit(k, v) \/ LruPutNew(k, v)
-----------------------------------------------------------------------------
(* Type invariant: the vector stays within the capacity it was allocated   *)
(* with, and every slot number names a node.                               *)
LruTypeOK ==
  /\ lru \in LruInner
  /\ Len(lru.nodes) <= Capacity
  /\ \A i \in DOMAIN lru.free_list : lru.free_list[i] <= Len(lru.nodes)

(* No slot is lost and none is used twice: each is on the free list once   *)
(* or holds the node of the one key that maps to it, and the links of the  *)
(* live nodes mirror each other, from head to tail.                        *)
LruListWellFormed ==
  LET live == {lru.map[k] : k \in Held(lru.map)}
      free == {lru.free_list[i] : i \in DOMAIN lru.free_list}
      next(i) == lru.nodes[i].next
      prev(i) == lru.nodes[i].prev
  IN /\ live \cap free = {} /\ live \cup free = DOMAIN lru.nodes
     /\ Cardinality(free) = Len(lru.free_list)
     /\ \A k \in Held(lru.map) : lru.nodes[lru.map[k]].key = k
     /\ \A i \in live :
          /\ IF prev(i) = None THEN lru.head = i ELSE prev(i) \in live /\ next(prev(i)) = i
          /\ IF next(i) = None THEN lru.tail = i ELSE next(i) \in live /\ prev(next(i)) = i
     /\ lru.head \in live \cup {None} /\ lru.tail \in live \cup {None}

(* The slots from the tail backwards.                                      *)
Back[n \in 1..Capacity] ==
  IF n = 1 THEN lru.tail
  ELSE IF Back[n - 1] = None THEN None ELSE lru.nodes[Back[n - 1]].prev

KeyAt(i) == IF i = None THEN None ELSE lru.nodes[i].key

AsQueue == INSTANCE EvictionQueue WITH
  UseMoves <- TRUE,
  held <- [k \in Keys |-> IF lru.map[k] = None THEN None ELSE lru.nodes[lru.map[k]].value],
  queue <- [n \in 1..Cardinality(Held(lru.map)) |-> KeyAt(Back[n])]

(* The linked vector behaves as a queue ordered by last use: the capacity  *)
(* is kept, only the key that was not used for longest is evicted and only *)
(* to make room, and each key has the value last put.                      *)
ImplementsLru == AsQueue!Spec
=============================================================================
