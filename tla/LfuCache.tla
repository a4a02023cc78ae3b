------------------------------ MODULE LfuCache ------------------------------
(***************************************************************************)
(* LfuCache of cache.rs: a map from keys to values and use counts, and the *)
(* inverse of the counts: a BTreeMap from each count to the set of its     *)
(* keys.  Every operation holds the cache's mutex throughout and is one    *)
(* step.                                                                   *)
(***************************************************************************)
EXTENDS CacheTrait

VARIABLES
  lfu_map,    \* Keys -> [value, freq] or None
  freqs       \* a function from the counts in use to sets of keys

lfu == <<lfu_map, freqs>>

Entry == [value : Values, freq : 1..MaxFreq]

ASSUME EntryAssumption == None \notin Entry
-----------------------------------------------------------------------------
(* Mutant of removed: an emptied set stays in the BTreeMap.                *)
removed_Empty(f, k, n) ==
  [m \in DOMAIN f |-> IF m = n THEN f[m] \ {k} ELSE f[m]]

(* The key leaves the set of count n, and an emptied set leaves the map.   *)
removed(f, k, n) ==
  [m \in {m \in DOMAIN f : m = n => f[m] # {k}} |-> IF m = n THEN f[m] \ {k} ELSE f[m]]

(* entry(n).or_insert_with(HashSet::new).insert(k)                         *)
inserted(f, k, n) ==
  [m \in DOMAIN f \cup {n} |-> (IF m \in DOMAIN f THEN f[m] ELSE {}) \cup {j \in {k} : m = n}]

increment_freq(k, v) ==
  LET n == lfu_map[k].freq
  IN /\ n < MaxFreq
     /\ freqs' = inserted(removed(freqs, k, n), k, n + 1)
     /\ lfu_map' = [lfu_map EXCEPT ![k] = [value |-> v, freq |-> n + 1]]

(* Mutant of Victims: the first of the counts is taken for the last.       *)
Victims_Most == freqs[CHOOSE n \in DOMAIN freqs : \A m \in DOMAIN freqs : m <= n]

(* The keys of the smallest count; a HashSet yields any of them first.     *)
Victims == freqs[CHOOSE n \in DOMAIN freqs : \A m \in DOMAIN freqs : n <= m]
-----------------------------------------------------------------------------
LfuInit == lfu_map = Absent /\ freqs = [n \in {} |-> {}]

LfuGet(k) ==
  /\ lfu_map[k] # None
  /\ increment_freq(k, lfu_map[k].value)

LfuPutHit(k, v) ==
  /\ lfu_map[k] # None
  /\ increment_freq(k, v)

(* Mutant of LfuPutRoom: one key too many.                                 *)
LfuPutRoomLate(k, v) ==
  /\ lfu_map[k] = None /\ Cardinality(Held(lfu_map)) <= Capacity
  /\ lfu_map' = [lfu_map EXCEPT ![k] = [value |-> v, freq |-> 1]]
  /\ freqs' = inserted(freqs, k, 1)

LfuPutRoom(k, v) ==
  /\ lfu_map[k] = None /\ Cardinality(Held(lfu_map)) < Capacity
  /\ lfu_map' = [lfu_map EXCEPT ![k] = [value |-> v, freq |-> 1]]
  /\ freqs' = inserted(freqs, k, 1)

LfuPutEvict(k, v) ==
  /\ lfu_map[k] = None /\ Cardinality(Held(lfu_map)) >= Capacity
  /\ \E old \in Victims :
       /\ lfu_map' = [lfu_map EXCEPT ![old] = None, ![k] = [value |-> v, freq |-> 1]]
       /\ freqs' = inserted(removed(freqs, old, lfu_map[old].freq), k, 1)

LfuInvalidate(k) ==
  /\ lfu_map[k] # None
  /\ lfu_map' = [lfu_map EXCEPT ![k] = None]
  /\ freqs' = removed(freqs, k, lfu_map[k].freq)

LfuNext ==
  \E k \in Keys :
    \/ LfuGet(k) \/ LfuInvalidate(k)
    \/ \E v \in Values : LfuPutHit(k, v) \/ LfuPutRoom(k, v) \/ LfuPutEvict(k, v)
-----------------------------------------------------------------------------
(* Type invariant, with the capacity.                                      *)
LfuTypeOK ==
  /\ lfu_map \in [Keys -> Entry \cup {None}]
  /\ DOMAIN freqs \subseteq 1..MaxFreq
  /\ \A n \in DOMAIN freqs : freqs[n] \subseteq Keys
  /\ Cardinality(Held(lfu_map)) <= Capacity

(* The two maps are inverse to each other and no count has an empty set:   *)
(* put's unwrap() of the first key of the smallest count cannot panic, and *)
(* the key it yields is in the cache.                                      *)
LfuCountsExact ==
  /\ \A n \in DOMAIN freqs :
       freqs[n] # {} /\ freqs[n] = {k \in Held(lfu_map) : lfu_map[k].freq = n}
  /\ \A k \in Held(lfu_map) : lfu_map[k].freq \in DOMAIN freqs

(* Nothing is dropped but to make room or by invalidate, then one key, and *)
(* no key in the cache was used less.                                      *)
LfuEvictsLeastUsed ==
  [][\A k \in Held(lfu_map) : lfu_map'[k] = None =>
       \/ LfuInvalidate(k)
       \/ /\ Cardinality(Held(lfu_map)) = Capacity
          /\ \A j \in Held(lfu_map) :
               lfu_map[k].freq <= lfu_map[j].freq /\ (j # k => lfu_map'[j] = lfu_map[j])]_lfu
=============================================================================
