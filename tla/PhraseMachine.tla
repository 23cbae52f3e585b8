--------------------------- MODULE PhraseMachine ---------------------------
(***************************************************************************)
(* internal/term/machine.go: the list-locked autocomplete behind the raw   *)
(* terminal prompt, one action per key event of handle, and the prompt     *)
(* loop of ReadPhraseContext that ends it.                                 *)
(*                                                                         *)
(* A word is a sequence of letters and the buffer a sequence of letters    *)
(* typed so far. The machine never stores which words are candidates: it   *)
(* counts them with the arithmetic of candCount, which is only right while *)
(* the committed words are distinct list words.                            *)
(***************************************************************************)
EXTENDS Naturals, SequencesExt

CONSTANTS
  Words,      \* the word list, sequences of letters
  Letters,    \* the printable characters considered, on the list or not
  MinWords,   \* the submission gate (7 in the code)
  MaxWords,   \* the most words a phrase can have (64 in the code)
  Pastes      \* pasted texts, as sequences of tokens that may be list words

ASSUME LimitsAssumption ==
  MinWords \in Nat \ {0} /\ MaxWords \in Nat /\ MinWords <= MaxWords

\* A phrase never takes all of the list.
ASSUME ListAssumption ==
  /\ IsFiniteSet(Words) /\ Words \subseteq Seq(Letters)
  /\ MaxWords < Cardinality(Words)

VARIABLES
  committed,  \* words accepted so far
  buf,        \* the partial word
  state,      \* "open", or why the prompt ended
  bell        \* did the last event ring the bell?

vars == <<committed, buf, state, bell>>

Entry == INSTANCE PhraseEntry

Grammar == INSTANCE InteractiveWords

TypeOK ==
  /\ committed \in Seq(Words)
  /\ buf \in Seq(Letters)
  /\ state \in {"open", "submitted", "interrupted"}
  /\ bell \in BOOLEAN

Init == committed = <<>> /\ buf = <<>> /\ state = "open" /\ bell = FALSE
-----------------------------------------------------------------------------
prefixRange(p) == {w \in Words : IsPrefix(p, w)}

isCommitted(w) == \E i \in DOMAIN committed : committed[i] = w

committedWithPrefix(p) ==
  Cardinality({i \in DOMAIN committed : IsPrefix(p, committed[i])})

\* As candCount, but the committed words are not subtracted.
candCountWithCommitted(p) == Cardinality(prefixRange(p))

candCount(p) == Cardinality(prefixRange(p)) - committedWithPrefix(p)

\* firstCandidates, as a set: only its size and its single member matter.
candidates(p) == {w \in prefixRange(p) : ~isCommitted(w)}

\* As lcpOfCandidates, but one more letter of some candidate is taken.
lcpAndOneMore(p) ==
  LET w == CHOOSE w \in prefixRange(p) : TRUE IN
  IF candidates(p) = {} \/ Len(w) <= Len(p) THEN p ELSE SubSeq(w, 1, Len(p) + 1)

lcpOfCandidates(p) ==
  IF candidates(p) = {} THEN p ELSE LongestCommonPrefix(candidates(p))

\* The event loop runs while the prompt is open.
Ring    == bell' = TRUE /\ UNCHANGED <<committed, buf, state>>
Quiet   == bell' = FALSE /\ UNCHANGED state

\* commit: a full phrase takes no more words.
commit(w) ==
  IF Len(committed) >= MaxWords
    THEN Ring
    ELSE committed' = Append(committed, w) /\ buf' = <<>> /\ Quiet

\* The single candidate of the buffer is committed, or the bell rings.
CommitUnique ==
  IF candCount(buf) = 1
    THEN \E w \in candidates(buf) : commit(w)
    ELSE Ring

Ignored == Quiet /\ UNCHANGED <<committed, buf>>

Open == state = "open"

\* A character is taken only if some candidate would remain.
onRune(r) ==
  /\ Open
  /\ IF candCount(Append(buf, r)) >= 1
       THEN buf' = Append(buf, r) /\ Quiet /\ UNCHANGED committed
       ELSE Ring

onSpace == Open /\ IF buf = <<>> THEN Ignored ELSE CommitUnique

onTab ==
  /\ Open
  /\ IF buf = <<>> THEN Ignored
     ELSE IF candCount(buf) = 1 THEN CommitUnique
     ELSE buf' = lcpOfCandidates(buf) /\ Quiet /\ UNCHANGED committed

\* As onEnter, but a word completed by Enter is submitted by the same key.
onEnterCommitAndSubmit ==
  /\ Open
  /\ IF buf # <<>> /\ candCount(buf) = 1 /\ Len(committed) + 1 >= MinWords
                   /\ Len(committed) < MaxWords
       THEN /\ \E w \in candidates(buf) : committed' = Append(committed, w)
            /\ buf' = <<>> /\ state' = "submitted" /\ bell' = FALSE
       ELSE IF buf # <<>> THEN CommitUnique
       ELSE IF Len(committed) >= MinWords
         THEN state' = "submitted" /\ bell' = FALSE /\ UNCHANGED <<committed, buf>>
         ELSE Ignored

\* Enter commits a partial word, and submits only with none.
onEnter ==
  /\ Open
  /\ IF buf # <<>> THEN CommitUnique
     ELSE IF Len(committed) >= MinWords
       THEN state' = "submitted" /\ bell' = FALSE /\ UNCHANGED <<committed, buf>>
       ELSE Ignored

\* An empty buffer takes the last committed word back as editable text.
onBackspace ==
  /\ Open /\ Quiet
  /\ IF buf # <<>> THEN buf' = Front(buf) /\ UNCHANGED committed
     ELSE IF committed # <<>> THEN buf' = Last(committed) /\ committed' = Front(committed)
     ELSE UNCHANGED <<committed, buf>>

CtrlW ==
  /\ Open /\ Quiet
  /\ buf' = <<>>
  /\ committed' = IF buf = <<>> /\ committed # <<>> THEN Front(committed) ELSE committed

CtrlU == Open /\ Quiet /\ buf' = <<>> /\ UNCHANGED committed

onCtrlO == Open /\ Ring

InputTooLong == Open /\ Ring

\* onPaste commits all tokens or none and leaves the partial word alone.
onPaste(tokens) ==
  /\ Open
  /\ IF Grammar!accepts(committed, tokens)
       THEN committed' = committed \o tokens /\ Quiet /\ UNCHANGED buf
       ELSE Ring

\* The prompt loop: Ctrl-C, end of input or a cancelled context.
Interrupt == Open /\ state' = "interrupted" /\ bell' = FALSE /\ UNCHANGED <<committed, buf>>

Next ==
  \/ \E r \in Letters : onRune(r)
  \/ onSpace \/ onTab \/ onEnter \/ onBackspace \/ CtrlW \/ CtrlU
  \/ onCtrlO \/ InputTooLong
  \/ \E tokens \in Pastes : onPaste(tokens)
  \/ Interrupt

Spec == Init /\ [][Next]_vars
-----------------------------------------------------------------------------
(* Properties *)

\* commit, onPaste: the committed words are always distinct and never too many,
\* so what is submitted satisfies wordlist.Canonicalize.
PhraseAlwaysValid ==
  /\ Entry!Distinct(committed) /\ Len(committed) <= MaxWords
  /\ state = "submitted" => Len(committed) >= MinWords

\* candCount's arithmetic counts the candidates, for every prefix the machine
\* asks about.
CandCountIsExact ==
  \A w \in Words : \A p \in Prefixes(w) : candCount(p) = Cardinality(candidates(p))

\* ReadPhraseContext implements the entry of a phrase: one word, one paste or
\* one removal at a time, and a submission that changes no word.
ImplementsEntry == Entry!Spec

\* The keys agree with the candidates they show: Tab on an ambiguous buffer never
\* changes which words remain, so it cannot make a word unique behind the user's
\* back, and typing keeps the buffer completable. Only a paste can commit the
\* word that was being typed and so leave a buffer without candidates.
KeysKeepCandidates ==
  [][/\ onTab /\ UNCHANGED committed => candidates(buf)' = candidates(buf)
     /\ candidates(buf) # {} /\ candidates(buf)' = {} =>
          \E tokens \in Pastes : onPaste(tokens)]_vars
=============================================================================
