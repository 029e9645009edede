----------------------------- MODULE LogFormat -----------------------------
(***************************************************************************)
(* LogFormatter of src/log.cpp: init() scans a pattern for %c and          *)
(* %c{detail}, gathers texts and codes in parse_tab, and makes one         *)
(* FormatItem of each.  One step is one round of the scanning loop.        *)
(*                                                                         *)
(* A pattern is a sequence of characters; i and last are the loop's i and  *)
(* last_idx counted from 1.  What an item prints is a sequence of          *)
(* characters and of the names of the event's fields.                      *)
(***************************************************************************)
EXTENDS Integers, Sequences, SequencesExt

CONSTANTS
  Chars, \* the characters patterns are made of
  MaxLen \* bound: length of a pattern

ASSUME LogFormatAssumption == {"%", "{", "}"} \subseteq Chars /\ MaxLen \in Nat

VARIABLES
  pattern, \* m_pattern
  i,       \* the character the loop is at
  last,    \* the first character not yet in parse_tab
  tab,     \* parse_tab
  items,   \* m_items
  error,   \* m_isError
  pc

vars == <<pattern, i, last, tab, items, error, pc>>

Patterns == UNION {[1 .. n -> Chars] : n \in 0 .. MaxLen}
Text(s)       == [code |-> FALSE, str |-> s, detail |-> <<>>]
Code(c, s)    == [code |-> TRUE, str |-> <<c>>, detail |-> s]

\* Class of the item made for a code: the field of the event it prints.
s_format_items ==
  [m |-> "message", p |-> "level", r |-> "elapse", c |-> "logger name",
   t |-> "thread id", N |-> "thread name", n |-> "newline", d |-> "time",
   f |-> "file", l |-> "line", T |-> "tab", F |-> "fiber id"]

\* The text of a pattern is told from the fields it is printed beside.
ASSUME FieldsAssumption == \A c \in DOMAIN s_format_items : s_format_items[c] \notin Chars

Known(e) == e.str[1] \in DOMAIN s_format_items

Item(e) ==
  IF ~e.code THEN [class |-> "string", arg |-> e.str]
  ELSE IF Known(e) THEN [class |-> s_format_items[e.str[1]], arg |-> e.detail]
  ELSE [class |-> "string", arg |-> <<"<error type>">>]

\* What FormatItem::format() writes.  The time item is always given the
\* detail, so an empty one is its strftime() format, which prints nothing.
Printed(item) ==
  CASE item.class = "string"                   -> item.arg
    [] item.class = "time" /\ item.arg = <<>>  -> <<>>
    [] OTHER                                   -> <<item.class>>

----------------------------------------------------------------------------
Len0 == Len(pattern)
At(k, c) == k <= Len0 /\ pattern[k] = c

\* std::string::substr(): a negative count is a huge unsigned one.
Substr(pos, n) ==
  SubSeq(pattern, pos, IF n < 0 \/ pos + n - 1 > Len0 THEN Len0 ELSE pos + n - 1)

\* parse_tab with the text in front of a '%' at i.
WithText == IF last # i THEN Append(tab, Text(Substr(last, i - last))) ELSE tab

\* Where the scan for '}' stops: at the first one, or behind the pattern.
Closing ==
  LET found == {k \in i + 3 .. Len0 : pattern[k] = "}"} IN
  IF found = {} THEN Len0 + 1 ELSE CHOOSE k \in found : \A j \in found : k <= j

Init ==
  /\ pattern \in Patterns
  /\ i = 1 /\ last = 1 /\ tab = <<>> /\ items = <<>> /\ error = FALSE
  /\ pc = "scan"

ScanText ==
  /\ pc = "scan" /\ i <= Len0 /\ pattern[i] # "%"
  /\ i' = i + 1
  /\ UNCHANGED <<pattern, last, tab, items, error, pc>>

ScanPercent == pc = "scan" /\ At(i, "%")

\* A '%' that ends the pattern stays in the text behind last_idx.
ScanLast ==
  /\ ScanPercent /\ i = Len0
  /\ tab' = WithText /\ i' = i + 1
  /\ UNCHANGED <<pattern, last, items, error, pc>>

\* "%%": the loop goes on with the second '%'.
ScanEscape ==
  /\ ScanPercent /\ At(i + 1, "%")
  /\ tab' = Append(WithText, Text(<<"%">>))
  /\ last' = i + 2 /\ i' = i + 1
  /\ UNCHANGED <<pattern, items, error, pc>>

ScanCode ==
  /\ ScanPercent /\ i < Len0 /\ ~At(i + 1, "%") /\ ~At(i + 2, "{")
  /\ tab' = Append(WithText, Code(pattern[i + 1], <<>>))
  /\ last' = i + 2 /\ i' = i + 1
  /\ UNCHANGED <<pattern, items, error, pc>>

\* Mutant: last_idx is left on the closing brace.
ScanDetailBrace ==
  /\ ScanPercent /\ ~At(i + 1, "%") /\ At(i + 2, "{") /\ Closing <= Len0
  /\ tab' = Append(WithText, Code(pattern[i + 1], Substr(i + 3, Closing - i - 3)))
  /\ last' = Closing /\ i' = Closing + 1
  /\ UNCHANGED <<pattern, items, error, pc>>

ScanDetail ==
  /\ ScanPercent /\ ~At(i + 1, "%") /\ At(i + 2, "{") /\ Closing <= Len0
  /\ tab' = Append(WithText, Code(pattern[i + 1], Substr(i + 3, Closing - i - 3)))
  /\ last' = Closing + 1 /\ i' = Closing + 1
  /\ UNCHANGED <<pattern, items, error, pc>>

\* Mutant: the end of the pattern is taken for the closing brace.
ScanUnclosedSkips ==
  /\ ScanPercent /\ ~At(i + 1, "%") /\ At(i + 2, "{") /\ Closing > Len0
  /\ tab' = WithText
  /\ last' = Closing + 1 /\ i' = Closing + 1
  /\ UNCHANGED <<pattern, items, error, pc>>

\* No '}': the code is dropped, the brace and what follows becomes text.
ScanUnclosed ==
  /\ ScanPercent /\ ~At(i + 1, "%") /\ At(i + 2, "{") /\ Closing > Len0
  /\ tab' = WithText
  /\ last' = i + 2 /\ i' = i + 1
  /\ UNCHANGED <<pattern, items, error, pc>>

ScanEnd ==
  /\ pc = "scan" /\ i > Len0
  /\ tab' = IF last # Len0 + 1 THEN Append(tab, Text(Substr(last, Len0 + 1 - last))) ELSE tab
  /\ last' = Len0 + 1
  /\ pc' = "build"
  /\ UNCHANGED <<pattern, i, items, error>>

\* Mutant: items made of codes only.
BuildCodes ==
  /\ pc = "build"
  /\ items' = [k \in DOMAIN SelectSeq(tab, LAMBDA e : e.code)
                 |-> Item(SelectSeq(tab, LAMBDA e : e.code)[k])]
  /\ error' = \E k \in DOMAIN tab : tab[k].code /\ ~Known(tab[k])
  /\ pc' = "done"
  /\ UNCHANGED <<pattern, i, last, tab>>

Build ==
  /\ pc = "build"
  /\ items' = [k \in DOMAIN tab |-> Item(tab[k])]
  /\ error' = \E k \in DOMAIN tab : tab[k].code /\ ~Known(tab[k])
  /\ pc' = "done"
  /\ UNCHANGED <<pattern, i, last, tab>>

Next == ScanText \/ ScanLast \/ ScanEscape \/ ScanCode \/ ScanDetail
          \/ ScanUnclosed \/ ScanEnd \/ Build

Spec == Init /\ [][Next]_vars

----------------------------------------------------------------------------
Entry == [code : BOOLEAN, str : Seq(Chars), detail : Seq(Chars)]

\* What the pattern looks like that an entry of parse_tab was read from.
Spelling(e) ==
  IF ~e.code THEN e.str
  ELSE <<"%">> \o e.str \o (IF e.detail = <<>> THEN <<>> ELSE <<"{">> \o e.detail \o <<"}">>)
Spelled(entries) == FlattenSeq([k \in DOMAIN entries |-> Spelling(entries[k])])
Output == FlattenSeq([k \in DOMAIN items |-> Printed(items[k])])
Letters(s) == FlattenSeq([k \in DOMAIN s |-> IF s[k] \in Chars THEN <<s[k]>> ELSE <<>>])
Texts == FlattenSeq([k \in DOMAIN tab |-> IF tab[k].code THEN <<>> ELSE tab[k].str])

(* Patterns in which every '%' is followed by a code, every '{' behind a   *)
(* code has its '}' and no detail is empty.                                *)
Clean ==
  /\ \A k \in 1 .. Len0 : pattern[k] = "%" => k < Len0 /\ ~At(k + 1, "%")
  /\ \A k \in 1 .. Len0 : pattern[k] = "%" /\ At(k + 2, "{") =>
       /\ ~At(k + 3, "}")
       /\ \E j \in k + 3 .. Len0 : pattern[j] = "}"

TypeOK ==
  /\ pattern \in Patterns /\ i \in 1 .. Len0 + 1
  /\ tab \in Seq(Entry) /\ error \in BOOLEAN
  /\ pc \in {"scan", "build", "done"}
  /\ Len(items) = IF pc = "done" THEN Len(tab) ELSE 0

(* The arguments of every substr() are in range, for any pattern, however  *)
(* malformed: last_idx never passes the end of the pattern (substr() would *)
(* throw out_of_range) and runs ahead of i by one character at most.       *)
SubstrInRange == last \in 1 .. Len0 + 1 /\ last <= i + 1

(* A clean pattern is parsed into the one sequence of longest texts and    *)
(* codes it is made of.  No character is lost, doubled or moved: the       *)
(* entries, spelled again, and the text not yet consumed are the pattern.  *)
(* And no entry could be longer: a text has no '%' in it and no other text *)
(* beside it, and a code without detail is not followed by a brace.        *)
ParseCorrect ==
  Clean =>
    /\ Spelled(tab) \o SubSeq(pattern, last, Len0) = pattern
    /\ \A k \in DOMAIN tab :
         /\ ~tab[k].code => \A j \in DOMAIN tab[k].str : tab[k].str[j] # "%"
         /\ k < Len(tab) =>
              /\ tab[k].code \/ tab[k + 1].code
              /\ tab[k].code /\ tab[k].detail = <<>> /\ ~tab[k + 1].code
                   => tab[k + 1].str[1] # "{"

(* What a clean pattern that is not rejected prints holds its texts as     *)
(* they stand and in their order, and beside them only fields: no letter   *)
(* of a code and no detail is printed as text.                             *)
TextPrinted == pc = "done" /\ Clean /\ ~error => Letters(Output) = Texts

(* The table of ReadMe.md: each of these codes prints the field it names.  *)
Documented ==
  [m |-> "message", p |-> "level", c |-> "logger name", t |-> "thread id",
   n |-> "newline", d |-> "time", f |-> "file", l |-> "line"]
DocumentedCodesPrint ==
  pc = "done" /\ Clean => \A k \in DOMAIN tab :
    tab[k].code /\ tab[k].str[1] \in DOMAIN Documented =>
      Printed(items[k]) = <<Documented[tab[k].str[1]]>>
============================================================================
