----------------------------- MODULE CacheTrait -----------------------------
(* What the caches of cache.rs have in common: keys, values, a capacity.   *)
EXTENDS Naturals, Sequences, FiniteSets

CONSTANTS
  Keys, Values,
  None,       \* Option::None
  Capacity,   \* the argument of new
  MaxFreq     \* bound on the use counts of the LFU cache

ASSUME CapacityAssumption ==
  /\ Capacity \in Nat \ {0}          \* assert!(capacity > 0)
  /\ MaxFreq \in Nat \ {0}
  /\ None \notin Keys \cup Values \cup Nat

(* The keys that a map of the code contains.                               *)
Held(map) == {k \in Keys : map[k] # None}

Absent == [k \in Keys |-> None]

(* VecDeque::retain(|j| j != k): the queue without k.                      *)
retain(q, k) ==
  LET Kept[n \in 0..Len(q)] ==
        IF n = 0 THEN <<>>
        ELSE IF q[n] = k THEN Kept[n - 1] ELSE Append(Kept[n - 1], q[n])
  IN Kept[Len(q)]
=============================================================================
