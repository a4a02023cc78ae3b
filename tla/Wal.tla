-------------------------------- MODULE Wal --------------------------------
(***************************************************************************)
(* The write-ahead log file of wal.rs, as operators on its contents.       *)
(*                                                                         *)
(* A file is a sequence of lines.  What matters of a line is the command   *)
(* and the transaction id it carries and three facts about its bytes:      *)
(*                                                                         *)
(*   ok    it parses and its checksum matches (read_all_commands keeps it) *)
(*   nl    it ends in a newline; only the last line of a file may lack one *)
(*   utf8  it is valid UTF-8; BufRead::lines fails on a line that is not   *)
(***************************************************************************)
EXTENDS Naturals, Sequences

CONSTANTS
  Commands,   \* the values of type WalCommand
  NoCommand   \* stands for the command of a line that does not parse

Line ==
  {l \in [tx_id : Nat, cmd : Commands \cup {NoCommand},
          ok : BOOLEAN, nl : BOOLEAN, utf8 : BOOLEAN] : l.ok => l.cmd \in Commands}

(* The line Wal::append writes: the envelope {c, k, tx_id} and a newline.  *)
Envelope(tx_id, cmd) ==
  [tx_id |-> tx_id, cmd |-> cmd, ok |-> TRUE, nl |-> TRUE, utf8 |-> TRUE]

(* A line that some reader cannot parse.                                   *)
Unparsable(nl, utf8) ==
  [tx_id |-> 0, cmd |-> NoCommand, ok |-> FALSE, nl |-> nl, utf8 |-> utf8]

(***************************************************************************)
(* What a crash in the middle of write_all may leave of a line: a proper   *)
(* prefix (which may end inside a multi-byte character of the key), or the *)
(* whole envelope without its newline.                                     *)
(***************************************************************************)
TornForms(tx_id, cmd) ==
  {Unparsable(FALSE, TRUE),
   [tx_id |-> tx_id, cmd |-> cmd, ok |-> TRUE, nl |-> FALSE, utf8 |-> TRUE]}

TornUtf8Forms == {Unparsable(FALSE, FALSE)}

(***************************************************************************)
(* Wal::append.  The file is opened in append mode: the new line starts    *)
(* where the file ends, so a last line without its newline and the new     *)
(* line become one line, which parses as neither.                          *)
(***************************************************************************)
append(file, line) ==
  IF file # <<>> /\ ~file[Len(file)].nl
  THEN [file EXCEPT ![Len(file)] = Unparsable(line.nl, @.utf8 /\ line.utf8)]
  ELSE Append(file, line)

(* Wal::truncate: set_len(0).                                              *)
truncate(file) == <<>>

(* lines() yields an error for a line that is not UTF-8 and the readers    *)
(* return it with `?`, so one such line makes the whole file unreadable.   *)
Readable(file) == \A i \in DOMAIN file : file[i].utf8
=============================================================================
