------------------------- MODULE InteractiveWords -------------------------
(* internal/term/interactive_words.go: the one grammar of a raw paste and of *)
(* a plain line. Splitting at ASCII whitespace and case folding have already *)
(* produced the tokens; a token may or may not be on the list.               *)
EXTENDS Naturals, Sequences

CONSTANTS Words, MaxWords

Repeats(s) == \E i, j \in 1..Len(s) : i # j /\ s[i] = s[j]

\* As accepts, but only the tokens themselves are compared.
acceptsCommitted(committed, tokens) ==
  /\ tokens \in Seq(Words)
  /\ ~Repeats(tokens)
  /\ Len(committed) + Len(tokens) <= MaxWords

\* parseInteractiveWords reports no issue: every token is on the list, none is
\* repeated or already committed, and they are not too many together.
accepts(committed, tokens) ==
  /\ tokens \in Seq(Words)
  /\ ~Repeats(committed \o tokens)
  /\ Len(committed) + Len(tokens) <= MaxWords
=============================================================================
