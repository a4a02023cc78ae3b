------------------------------ MODULE MCSchema ------------------------------
(* Bounds of the TLC model of Schema.                                      *)
EXTENDS Schema

MCLower == [w \in Words |-> CASE w = "A" -> "a" [] w = "B" -> "b" [] OTHER -> w]

Field(name, indexed, base, arrays) ==
  [name |-> name, is_indexed |-> indexed, base |-> base, arrays |-> arrays]

Fields == {Field("x", TRUE, "U16", 0), Field("y", FALSE, "B", 0), Field("x", FALSE, "B", 1),
           Field("y", TRUE, "String", 2)}

Types ==
  {[kind |-> "type", prefix |-> p, name |-> n, parts |-> fs] :
     p \in {None, "a"}, n \in {"A", "B"},
     fs \in {<<>>} \cup [1 .. 1 -> Fields] \cup [1 .. 2 -> Fields]}

Enums ==
  {[kind |-> "enum", prefix |-> None, name |-> "B", parts |-> vs] :
     vs \in {<<>>, <<"x">>, <<"x", "y">>}}

MCSchemas ==
  {<<>>} \cup [1 .. 1 -> Types \cup Enums]
  \cup {<<a, b>> : a \in {t \in Types : t.name = "A"},
                 b \in {t \in Types : Len(t.parts) < 2} \cup Enums}
  \cup {<<e, t>> : e \in Enums, t \in {u \in Types : u.name = "B" /\ Len(u.parts) < 2}}

Leaves ==
  {[type |-> "string", text |-> s] : s \in {"x", "z"}}
  \cup {[type |-> t] : t \in {"integer", "float", "boolean", "null"}}

Arrays(S) == {[type |-> "array", items |-> s] : s \in {<<>>} \cup [1 .. 1 -> S] \cup [1 .. 2 -> S]}

Objects(S) ==
  {[type |-> "object", fields |-> f] : f \in UNION {[D -> S] : D \in SUBSET {"x", "y"}}}

Small == {[type |-> "string", text |-> "x"], [type |-> "integer"]}

MCDocuments ==
  Leaves \cup Objects(Leaves) \cup Objects(Small \cup Arrays(Small) \cup Objects(Small))
=============================================================================
