---------------------------- MODULE PhraseEntry ----------------------------
(***************************************************************************)
(* What entering a passphrase means, however it is typed: a growing and    *)
(* shrinking sequence of distinct list words, submitted by a step of its   *)
(* own once it is long enough. PhraseMachine (raw terminal, autocomplete)  *)
(* and PlainPhrase (lines) are both shown to implement it.                 *)
(***************************************************************************)
EXTENDS Naturals, Sequences

CONSTANTS
  Words,      \* the word list
  MinWords,   \* words needed before a phrase can be submitted
  MaxWords    \* words a phrase can have

VARIABLES
  committed,  \* the words entered so far
  state       \* "open", "submitted" or "interrupted"

entryVars == <<committed, state>>

Distinct(s) == \A i, j \in 1..Len(s) : s[i] = s[j] => i = j

Phrases == {s \in Seq(Words) : Distinct(s) /\ Len(s) <= MaxWords}

Init == committed = <<>> /\ state = "open"

AddWords ==
  /\ state = "open"
  /\ committed' \in Phrases
  /\ Len(committed') > Len(committed)
  /\ SubSeq(committed', 1, Len(committed)) = committed
  /\ UNCHANGED state

RemoveLast ==
  /\ state = "open" /\ committed # <<>>
  /\ committed' = SubSeq(committed, 1, Len(committed) - 1)
  /\ UNCHANGED state

Submit ==
  /\ state = "open" /\ Len(committed) >= MinWords
  /\ state' = "submitted"
  /\ UNCHANGED committed

Interrupt == state = "open" /\ state' = "interrupted" /\ UNCHANGED committed

Next == AddWords \/ RemoveLast \/ Submit \/ Interrupt

Spec == Init /\ [][Next]_entryVars
=============================================================================
