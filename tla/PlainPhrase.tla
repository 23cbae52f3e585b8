---------------------------- MODULE PlainPhrase ----------------------------
(***************************************************************************)
(* internal/term/plain.go: what the answers of the line reader do to a     *)
(* passphrase that is entered by lines, in the accessible prompt and in    *)
(* the fallback of the raw one. TerminalSession reads the lines.           *)
(***************************************************************************)
EXTENDS Naturals, Sequences

CONSTANTS Words, MinWords, MaxWords

VARIABLES
  committed,  \* words taken so far
  state,      \* "open", or why the prompt ended
  long        \* was the last line too long?

Grammar == INSTANCE InteractiveWords

Init == committed = <<>> /\ state = "open" /\ long = FALSE

\* An empty line submits a phrase that is long enough.
EmptyLine ==
  /\ state = "open" /\ long' = FALSE
  /\ state' = IF Len(committed) >= MinWords THEN "submitted" ELSE "open"
  /\ UNCHANGED committed

\* A line is taken whole or not at all; one of spaces only changes nothing.
Line(tokens) ==
  /\ state = "open" /\ long' = FALSE
  /\ committed' = IF Grammar!accepts(committed, tokens) THEN committed \o tokens ELSE committed
  /\ UNCHANGED state

TooLongLine == state = "open" /\ long' = TRUE /\ UNCHANGED <<committed, state>>

\* The reader returns any other error: Ctrl-C, end of input, cancellation.
Interrupt == state = "open" /\ state' = "interrupted" /\ UNCHANGED <<committed, long>>
=============================================================================
