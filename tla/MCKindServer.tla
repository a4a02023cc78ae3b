---------------------------- MODULE MCKindServer ----------------------------
(* Constants of the TLC models of KindServer.                              *)
EXTENDS KindServer, TLC

EmptyLog == <<>>

(* The log of an earlier release, whose lines carry no checksum and no     *)
(* tx_id, with a line that was damaged.                                    *)
LegacyLog ==
  <<Envelope(0, [tx |-> FALSE, writes |-> Only(1, [value |-> "a", expires_at |-> None])]),
    Unparsable(TRUE, TRUE),
    Envelope(0, [tx |-> FALSE, writes |-> Only(2, [value |-> "a", expires_at |-> None])])>>

Symmetry == Permutations(Threads)
=============================================================================
