----------------------------- MODULE LineEditor -----------------------------
(***************************************************************************)
(* internal/term/credentials.go: what a key does to the line being read.   *)
(* A line has at most limit bytes; a key that would make it longer rejects *)
(* the whole line, up to and including its Enter.                          *)
(***************************************************************************)
EXTENDS Naturals, Sequences, FiniteSetsExt, SequencesExt

CONSTANT Wide  \* the characters of two bytes, all others have one

Size(line) == FoldLeft(LAMBDA n, c : n + IF c \in Wide THEN 2 ELSE 1, 0, line)

Blanks == {" ", "\t"}

newLine == [text |-> <<>>, overflow |-> FALSE]

rejected == [text |-> <<>>, overflow |-> TRUE]

\* The line up to the last character of S.
upTo(line, S) == SubSeq(line, 1, Max({0} \cup {i \in DOMAIN line : line[i] \in S}))

trimLastRune(line) == SubSeq(line, 1, Len(line) - IF line = <<>> THEN 0 ELSE 1)

trimLastWord(line) == upTo(upTo(line, Range(line) \ Blanks), Blanks)

Typing == {"rune", "space", "tab", "paste"}

\* What an event makes of a line without a limit.
edited(line, key) ==
  CASE key[1] \in Typing -> line \o key[2]
    [] key[1] = "backspace" -> trimLastRune(line)
    [] key[1] = "ctrlU" -> <<>>
    [] key[1] = "ctrlW" -> trimLastWord(line)
    [] OTHER -> line

\* A rejected line stays rejected whatever follows.
edit(ed, key, limit) ==
  LET text == edited(ed.text, key) IN
  CASE ed.overflow -> ed
    [] ~ed.overflow /\ (key[1] = "inputTooLong" \/ Size(text) > limit) -> rejected
    [] OTHER -> [ed EXCEPT !.text = text]
=============================================================================
