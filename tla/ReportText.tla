------------------------------ MODULE ReportText ------------------------------
(***************************************************************************)
(* The text of a JSON reply as the encoders see it: they append pieces and *)
(* step back over the last character they wrote, a separator, before they  *)
(* close a list.  A text is a sequence of tokens; one token stands for an  *)
(* opening or closing bracket, a comma, a space at the end of a template   *)
(* or a whole entry.                                                       *)
(***************************************************************************)
EXTENDS Integers, Sequences, FiniteSets, SequencesExt

Token(t) == [t |-> t]
Text(tokens) == [i \in 1..Len(tokens) |-> Token(tokens[i])]
Back(text) == Front(text)

IsEntry(token) == token.t = "e"
Entries(text) == FlattenSeq([i \in 1..Len(text) |-> IF IsEntry(text[i]) THEN <<text[i]>> ELSE <<>>])
ToldIn(text) == {token \in Range(text) : IsEntry(token)}

Opens(t) == t \in {"{", "["}
Closes(t) == t \in {"]", "}"}
Closing == [b \in {"{", "["} |-> IF b = "{" THEN "}" ELSE "]"]

(* What may follow what: a comma comes between two items of a list, an     *)
(* object begins with the name of a list.                                  *)
MayFollow(a, b) ==
  \/ Opens(b) /\ (Opens(a) \/ a = ",")
  \/ b = "e" /\ a \in {"[", "{", ","}
  \/ b = "," /\ (Closes(a) \/ a = "e")
  \/ Closes(b) /\ a \notin {",", "{"}

(* A parser knows the brackets that are open and the last token but for    *)
(* spaces.                                                                 *)
Names == {"{", "[", "]", "}", ",", " ", "e"}
Parsers == [open : Seq({"{", "["}), last : Names \cup {"start", "broken"}]
Parser(open, last) == [open |-> open, last |-> last]

Takes(parser, t) ==
  IF parser.last = "start" THEN Opens(t)
  ELSE /\ parser.open # << >> /\ MayFollow(parser.last, t)
       /\ Closes(t) => t = Closing[Last(parser.open)]

Reads(parser, t) ==
  CASE t = " " -> parser
    [] t # " " /\ ~Takes(parser, t) -> Parser(<< >>, "broken")
    [] Takes(parser, t) /\ Opens(t)  -> Parser(Append(parser.open, t), t)
    [] Takes(parser, t) /\ Closes(t) -> Parser(Front(parser.open), t)
    [] Takes(parser, t) /\ t \in {"e", ","} -> Parser(parser.open, t)
After == [r \in Parsers \X Names |-> Reads(r[1], r[2])]

ReadBy(parser, text) ==
  LET after[i \in 0..Len(text)] == IF i = 0 THEN parser ELSE After[<<after[i - 1], text[i].t>>]
  IN  after[Len(text)]

(* Every bracket is closed by its like, and a comma separates two items.   *)
IsWellFormed(text) ==
  LET end == ReadBy(Parser(<< >>, "start"), text)
  IN  end.open = << >> /\ Closes(end.last)
===============================================================================
