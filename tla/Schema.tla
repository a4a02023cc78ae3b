------------------------------- MODULE Schema -------------------------------
(***************************************************************************)
(* The schema language: lexer and parser as a machine that consumes one    *)
(* lexeme a step, the registry that the parsed nodes are loaded into, and  *)
(* the validation of JSON values against it.                               *)
(*                                                                         *)
(* The input is either free, any lexeme at any place, or a rendering of a  *)
(* given list of nodes.  Lexemes are whole words, strings and characters.  *)
(***************************************************************************)
EXTENDS Integers, FiniteSets, SequencesExt

CONSTANTS
  Words,        \* identifiers
  FreeWords,    \* those of free inputs
  Literals,     \* string literals of the inputs
  Lower,        \* words -> to_lowercase
  Schemas,      \* lists of nodes that are rendered as inputs
  Documents,    \* JSON values to validate
  None,         \* Option::None
  MaxTokens     \* bound on the tokens of a free input

VARIABLES
  given,        \* the nodes this input renders, or None for a free input
  rest,         \* what is left of a rendering
  read,         \* the tokens read so far
  parser,       \* state of the parser: see Start
  registry      \* types, enums and prefix_map, or None before load_schema

vars == <<given, rest, read, parser, registry>>
-----------------------------------------------------------------------------
(* Lexer::next_token on one lexeme: a token, or None for what is skipped.  *)

Token(type, text) == [type |-> type, text |-> text]

Punctuation ==
  [c \in {"{", "}", "(", ")", "[", "]", ",", ":"} |->
     CASE c = "{" -> "LBrace" [] c = "}" -> "RBrace" [] c = "(" -> "LParen"
       [] c = ")" -> "RParen" [] c = "[" -> "LBracket" [] c = "]" -> "RBracket"
       [] c = "," -> "Comma" [] c = ":" -> "Colon"]

Lexeme ==
  {<<"char", c>> : c \in DOMAIN Punctuation \cup {"#"}} \cup {<<"string", s>> : s \in Literals}
  \cup {<<"at", w>> : w \in {"indexed", "prefix", "unknown"}}
  \cup {<<"word", w>> : w \in FreeWords \cup {"type", "enum"}}

next_token(lexeme) ==
  LET class == lexeme[1]
      text == lexeme[2]
  IN CASE class = "char" /\ text \in DOMAIN Punctuation -> Token(Punctuation[text], "")
       [] class = "string" -> Token("StringLiteral", text)
       [] class = "at" /\ text = "indexed" -> Token("AtIndexed", "")
       [] class = "at" /\ text = "prefix" -> Token("AtPrefix", "")
       [] class = "word" /\ text \in {"type", "enum"} -> Token("Keyword", text)
       [] class = "word" /\ text \notin {"type", "enum"} -> Token("Identifier", text)
       [] OTHER -> None

Eof == Token("Eof", "")
-----------------------------------------------------------------------------
(* Parser.  `at' is the place in the text of parse_node and of what it     *)
(* calls; the other fields are its local variables.                        *)

NoField == [name |-> "", is_indexed |-> FALSE, base |-> "", arrays |-> 0]

NewNode == [kind |-> "none", prefix |-> None, name |-> "", parts |-> <<>>]

Start == [at |-> "node", node |-> NewNode, field |-> NoField, open |-> 0, nodes |-> <<>>]

(* match_token: what is expected at a place, and where it leads.           *)
Expected ==
  [prefix_open |-> <<"LParen", "prefix_text">>, prefix_close |-> <<"RParen", "keyword">>,
   type_open |-> <<"LBrace", "field">>, enum_open |-> <<"LBrace", "variant">>,
   colon |-> <<"Colon", "data_type">>]

(* Mutant of FieldDone: brackets are not counted.                          *)
FieldDoneUnclosed(p) ==
  [p EXCEPT !.at = "field_end", !.node.parts = Append(@, p.field), !.field = NoField]

(* The field is complete once every bracket of its type is closed.         *)
FieldDone(p) ==
  IF p.open > 0 THEN [p EXCEPT !.at = "close_array"]
  ELSE [p EXCEPT !.at = "field_end", !.node.parts = Append(@, p.field), !.field = NoField]

(* Mutant of NodeDone: the next node keeps the prefix of this one.         *)
NodeDoneKeeps(p) ==
  [p EXCEPT !.at = "node", !.nodes = Append(@, p.node),
            !.node = [NewNode EXCEPT !.prefix = p.node.prefix]]

(* An enum has no prefix: the one read before it is dropped.               *)
NodeDone(p) ==
  [p EXCEPT !.at = "node", !.node = NewNode,
            !.nodes = Append(@, IF p.node.kind = "enum" THEN [p.node EXCEPT !.prefix = None]
                                ELSE p.node)]

(* Mutant of AfterComma: a trailing comma is refused.                      *)
AfterCommaStrict(place) == IF place = "field_end" THEN "field_name" ELSE "variant"

AfterComma(place) == IF place = "field_end" THEN "field" ELSE "variant"

parse(p, t) ==
  CASE p.at \in DOMAIN Expected /\ t.type = Expected[p.at][1] ->
         [p EXCEPT !.at = Expected[p.at][2]]
    [] p.at = "node" /\ t.type = "AtPrefix" -> [p EXCEPT !.at = "prefix_open"]
    [] p.at = "prefix_text" /\ t.type = "StringLiteral" ->
         [p EXCEPT !.at = "prefix_close", !.node.prefix = t.text]
    [] p.at \in {"node", "keyword"} /\ t.type = "Keyword" ->
         [p EXCEPT !.at = "name", !.node.kind = t.text]
    [] p.at = "name" /\ t.type = "Identifier" ->
         [p EXCEPT !.at = IF p.node.kind = "type" THEN "type_open" ELSE "enum_open",
                   !.node.name = t.text]
    [] p.at = "field" /\ t.type = "AtIndexed" ->
         [p EXCEPT !.at = "field_name", !.field.is_indexed = TRUE]
    [] p.at \in {"field", "field_name"} /\ t.type = "Identifier" ->
         [p EXCEPT !.at = "colon", !.field.name = t.text]
    [] p.at = "data_type" /\ t.type = "LBracket" ->
         [p EXCEPT !.open = @ + 1, !.field.arrays = @ + 1]
    [] p.at = "data_type" /\ t.type = "Identifier" ->
         FieldDone([p EXCEPT !.field.base = t.text])
    [] p.at = "close_array" /\ t.type = "RBracket" -> FieldDone([p EXCEPT !.open = @ - 1])
    [] p.at = "variant" /\ t.type = "Identifier" ->
         [p EXCEPT !.at = "variant_end", !.node.parts = Append(@, t.text)]
    [] p.at \in {"field_end", "variant_end"} /\ t.type = "Comma" ->
         [p EXCEPT !.at = AfterComma(p.at)]
    [] p.at \in {"field", "field_end", "variant", "variant_end"} /\ t.type = "RBrace" ->
         NodeDone(p)
    [] p.at = "node" /\ t.type = "Eof" -> [p EXCEPT !.at = "ok"]
    [] OTHER -> [p EXCEPT !.at = "error"]
-----------------------------------------------------------------------------
(* SchemaRegistry                                                          *)

EmptyRegistry == [types |-> <<>>, enums |-> <<>>, prefix_map |-> <<>>]

Put(f, k, v) == [x \in DOMAIN f \cup {k} |-> IF x = k THEN v ELSE f[x]]

(* Mutant of Loaded: a type is known by its name's prefix in any case.     *)
LoadedByName(reg, n) ==
  [reg EXCEPT !.prefix_map = IF n.kind = "type" THEN Put(@, Lower[n.name], n.name) ELSE @,
              !.types = IF n.kind = "type" THEN Put(@, n.name, n.parts) ELSE @,
              !.enums = IF n.kind = "enum" THEN Put(@, n.name, n.parts) ELSE @]

Loaded(reg, n) ==
  IF n.kind = "type"
  THEN [reg EXCEPT !.prefix_map = Put(@, IF n.prefix = None THEN Lower[n.name] ELSE n.prefix,
                                      n.name),
                   !.types = Put(@, n.name, n.parts)]
  ELSE [reg EXCEPT !.enums = Put(@, n.name, n.parts)]

load_schema(nodes) == FoldLeft(Loaded, EmptyRegistry, nodes)

(* An empty list is None in the code.                                      *)
indexed_fields_for_prefix(reg, prefix) ==
  IF prefix \in DOMAIN reg.prefix_map /\ reg.prefix_map[prefix] \in DOMAIN reg.types
  THEN SelectSeq(reg.types[reg.prefix_map[prefix]], LAMBDA f : f.is_indexed)
  ELSE <<>>

Ok == [error |-> None]
Err(kind, field) == [error |-> kind, field |-> field]

Integers5 == {"U16", "U32", "U64", "I32", "I64"}

(* The JSON types a built-in data type takes; the width of an integer is   *)
(* not looked at.                                                          *)
Takes(base) ==
  CASE base = "String" -> {"string"} [] base \in Integers5 -> {"integer"}
    [] base = "F64" -> {"float", "integer"} [] base = "Boolean" -> {"boolean"}

BuiltIn == Integers5 \cup {"String", "F64", "Boolean"}

(* The first error of a list of checks.                                    *)
FirstErr(results) ==
  LET errs == SelectSeq(results, LAMBDA r : r # Ok) IN IF errs = <<>> THEN Ok ELSE errs[1]

RECURSIVE validate(_, _, _), validate_field(_, _, _, _, _)

validate(reg, type, doc) ==
  IF type \notin DOMAIN reg.types THEN Err("TypeNotFound", <<type>>)
  ELSE IF doc.type # "object" THEN Err("InvalidType", <<"root">>)
  ELSE LET Check(f) == IF f.name \notin DOMAIN doc.fields THEN Err("FieldMissing", <<f.name>>)
                       ELSE validate_field(reg, <<f.name>>, f.base, f.arrays, doc.fields[f.name])
           fields == reg.types[type]
       IN FirstErr([i \in DOMAIN fields |-> Check(fields[i])])

(* Mutant of CustomOf: types are looked up before enums.                   *)
CustomOfTypesFirst(reg, base) ==
  IF base \in DOMAIN reg.types THEN "type"
  ELSE IF base \in DOMAIN reg.enums THEN "enum" ELSE "none"

CustomOf(reg, base) ==
  IF base \in DOMAIN reg.enums THEN "enum"
  ELSE IF base \in DOMAIN reg.types THEN "type" ELSE "none"

validate_field(reg, field, base, arrays, doc) ==
  CASE arrays > 0 ->
         IF doc.type # "array" THEN Err("InvalidType", field)
         ELSE FirstErr([i \in DOMAIN doc.items |->
                          validate_field(reg, Append(field, i), base, arrays - 1, doc.items[i])])
    [] arrays = 0 /\ base \in BuiltIn ->
         IF doc.type \in Takes(base) THEN Ok ELSE Err("InvalidType", field)
    [] OTHER ->
         CASE CustomOf(reg, base) = "none" -> Err("TypeNotFound", <<base>>)
           [] CustomOf(reg, base) = "type" -> validate(reg, base, doc)
           [] CustomOf(reg, base) = "enum" ->
                IF doc.type # "string" THEN Err("InvalidType", field)
                ELSE IF doc.text \in Range(reg.enums[base]) THEN Ok
                ELSE Err("InvalidEnumVariant", field)
-----------------------------------------------------------------------------
(* A rendering of a list of nodes, with a comma after the last part of a   *)
(* node or without, and with lexemes that the lexer skips or without.      *)

C(c) == <<"char", c>>
W(w) == <<"word", w>>

RenderField(f) ==
  (IF f.is_indexed THEN <<<<"at", "indexed">>>> ELSE <<>>) \o <<W(f.name), C(":")>>
  \o [i \in 1 .. f.arrays |-> C("[")] \o <<W(f.base)>> \o [i \in 1 .. f.arrays |-> C("]")]

RenderNode(n, trailing) ==
  LET Part(i) == IF n.kind = "type" THEN RenderField(n.parts[i]) ELSE <<W(n.parts[i])>>
      Parts(acc, i) ==
        acc \o Part(i) \o (IF i < Len(n.parts) \/ trailing THEN <<C(",")>> ELSE <<>>)
  IN (IF n.prefix = None THEN <<>>
      ELSE <<<<"at", "prefix">>, C("("), <<"string", n.prefix>>, C(")")>>)
     \o <<W(n.kind), W(n.name), C("{")>>
     \o FoldLeft(Parts, <<>>, [i \in DOMAIN n.parts |-> i]) \o <<C("}")>>

Render(nodes, trailing) == FlattenSeq([i \in DOMAIN nodes |-> RenderNode(nodes[i], trailing)])

Noisy(lexemes) ==
  FlattenSeq([i \in DOMAIN lexemes |-> <<C("#"), lexemes[i], <<"at", "unknown">>>>])
-----------------------------------------------------------------------------
Init ==
  /\ \/ given = None /\ rest = <<>>
     \/ /\ given \in Schemas
        /\ rest \in {Render(given, FALSE), Render(given, TRUE), Noisy(Render(given, FALSE))}
  /\ read = <<>>
  /\ parser = Start
  /\ registry = None

Parsing == parser.at \notin {"ok", "error"}

Consume(t) ==
  /\ read' = Append(read, t)
  /\ parser' = parse(parser, t)
  /\ UNCHANGED <<given, registry>>

(* A lexeme of a free input; what the lexer skips leaves no trace.         *)
ReadFree ==
  /\ given = None /\ Parsing /\ Len(read) < MaxTokens
  /\ \E lexeme \in Lexeme : next_token(lexeme) # None /\ Consume(next_token(lexeme))
  /\ UNCHANGED rest

ReadGiven ==
  /\ Parsing /\ rest # <<>> /\ next_token(Head(rest)) # None
  /\ Consume(next_token(Head(rest)))
  /\ rest' = Tail(rest)

SkipGiven ==
  /\ Parsing /\ rest # <<>> /\ next_token(Head(rest)) = None
  /\ rest' = Tail(rest)
  /\ UNCHANGED <<given, read, parser, registry>>

ReadEof ==
  /\ Parsing /\ rest = <<>>
  /\ Consume(Eof)
  /\ UNCHANGED rest

(* load_schema fills the registry only after the whole input is parsed.    *)
Load ==
  /\ parser.at \in {"ok", "error"} /\ registry = None
  /\ registry' = IF parser.at = "ok" THEN load_schema(parser.nodes) ELSE EmptyRegistry
  /\ UNCHANGED <<given, rest, read, parser>>

Next == ReadFree \/ ReadGiven \/ SkipGiven \/ ReadEof \/ Load

Spec == Init /\ [][Next]_vars
-----------------------------------------------------------------------------
(* Properties.                                                             *)

(* Type invariant; there are as many open brackets as the type has arrays  *)
(* left to close, and none outside a type.                                 *)
TypeOK ==
  /\ given \in Schemas \cup {None}
  /\ parser.at \in {"node", "keyword", "name", "prefix_text", "field", "field_name", "data_type",
                    "close_array", "field_end", "variant", "variant_end", "ok", "error"}
                   \cup DOMAIN Expected
  /\ parser.open \in 0 .. parser.field.arrays
  /\ parser.at \notin {"data_type", "close_array", "error"} => parser.open = 0

(* A trailing comma means nothing.                                         *)
Canonical(tokens) ==
  LET Keep(i) == ~(tokens[i].type = "Comma" /\ tokens[i + 1].type = "RBrace")
      kept == SelectSeq([i \in DOMAIN tokens |-> i], Keep)
  IN [i \in DOMAIN kept |-> tokens[kept[i]]]

(* Prefixes of enums go unnoticed.                                         *)
PrefixedEnum ==
  \E i \in DOMAIN read : i > 1 /\ read[i].text = "enum" /\ read[i - 1].type = "RParen"

(* What the parser accepts is what it returns: rendering the nodes gives   *)
(* the tokens read, but for trailing commas and prefixes of enums.         *)
ParsedAsRead ==
  parser.at = "ok" /\ ~PrefixedEnum =>
    LET lexemes == Render(parser.nodes, FALSE)
    IN Canonical(read) = Append([i \in DOMAIN lexemes |-> next_token(lexemes[i])], Eof)

(* Every schema is accepted, in either rendering, and read as itself.      *)
SchemasAccepted ==
  given # None => parser.at # "error" /\ (parser.at = "ok" => parser.nodes = given)

LastOf(nodes, P(_)) ==
  LET S == {i \in DOMAIN nodes : P(nodes[i])}
  IN IF S = {} THEN None ELSE nodes[CHOOSE i \in S : \A j \in S : j <= i]

PrefixOf(n) == IF n.prefix = None THEN Lower[n.name] ELSE n.prefix

(* Under a prefix the server finds the indexed fields of the last          *)
(* definition of the type that claimed the prefix last; a schema with an   *)
(* error has none.                                                         *)
PrefixesResolved ==
  registry # None =>
    \A prefix \in Literals \cup Range(Lower) :
      LET owner == LastOf(parser.nodes, LAMBDA n : n.kind = "type" /\ PrefixOf(n) = prefix)
          def == LastOf(parser.nodes, LAMBDA n : n.kind = "type" /\ n.name = owner.name)
      IN indexed_fields_for_prefix(registry, prefix) =
           IF parser.at = "error" \/ owner = None THEN <<>>
           ELSE SelectSeq(def.parts, LAMBDA f : f.is_indexed)

RECURSIVE Faults(_, _, _), FieldFaults(_, _, _)

(* Everything that is wrong with a document, for a reader of the schema:   *)
(* an enum hides a type of its name, and of two definitions the later one  *)
(* counts.  Kinds of errors only; fields beyond the schema's are allowed.  *)
Faults(nodes, type, doc) ==
  LET def == LastOf(nodes, LAMBDA n : n.kind = "type" /\ n.name = type)
  IN CASE def = None -> {"TypeNotFound"}
       [] def # None /\ doc.type # "object" -> {"InvalidType"}
       [] OTHER -> UNION {IF f.name \in DOMAIN doc.fields
                          THEN FieldFaults(nodes, f, doc.fields[f.name]) ELSE {"FieldMissing"} :
                            f \in Range(def.parts)}

FieldFaults(nodes, f, doc) ==
  LET enum == LastOf(nodes, LAMBDA n : n.kind = "enum" /\ n.name = f.base)
  IN IF f.arrays > 0
     THEN IF doc.type # "array" THEN {"InvalidType"}
          ELSE UNION {FieldFaults(nodes, [f EXCEPT !.arrays = @ - 1], doc.items[i]) :
                        i \in DOMAIN doc.items}
     ELSE IF f.base \in BuiltIn
     THEN IF doc.type \in Takes(f.base) THEN {} ELSE {"InvalidType"}
     ELSE IF enum = None THEN Faults(nodes, f.base, doc)
     ELSE IF doc.type # "string" THEN {"InvalidType"}
     ELSE IF doc.text \in Range(enum.parts) THEN {} ELSE {"InvalidEnumVariant"}

(* validate accepts a document if and only if nothing is wrong with it,    *)
(* and otherwise reports one of the things that are.                       *)
ValidationExact ==
  registry # None /\ parser.at = "ok" =>
    \A type \in Words, doc \in Documents :
      LET result == validate(registry, type, doc).error
          faults == Faults(parser.nodes, type, doc)
      IN IF faults = {} THEN result = None ELSE result \in faults
=============================================================================
