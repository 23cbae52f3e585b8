----------------------- MODULE TerminalSessionProofs -----------------------
(***************************************************************************)
(* Proofs about TerminalSession, for every word list, every limit, every   *)
(* keyboard and every scenario. Each theorem looks at one part of the      *)
(* state, and a lemma says what a step of a session can do to that part:   *)
(* the event channel (QueueNext), the phrase (a step of PhraseEntry), the  *)
(* terminal with its scrollback (Announced is inductive), and the answers: *)
(* LinesInv says of the line being read what the events taken since the    *)
(* last answer mean, one event at a time. The pages of the viewer come     *)
(* last: a page fits because the walk that ends it and the layout that     *)
(* writes it are at the same cell (Reached), and ViewInv says that all     *)
(* text before the page on the screen has been in view.                    *)
(***************************************************************************)
EXTENDS TerminalSession, FiniteSetTheorems, SequenceTheorems, WellFoundedInduction, TLAPS

-----------------------------------------------------------------------------
(* The event channel. *)

QueueNext ==
  \/ \E key : Take(key) \/ Type(key)
  \/ Check \/ Canceled \/ Closed \/ TakeTick \/ Cancel
  \/ \E how : InputEnds(how)
  \/ \E size : Resize(size)
  \/ UNCHANGED queueVars

LEMMA StepOfQueue == [Next]_vars => QueueNext
<1> SUFFICES ASSUME [Next]_vars PROVE QueueNext
  OBVIOUS
<1>1. CASE LineKey
  BY <1>1 DEF LineKey, QueueNext
<1>2. CASE LineClosed \/ LineCanceled \/ Await
  BY <1>2 DEF LineClosed, LineCanceled, Await, QueueNext
<1>3. CASE ViewerKey
  BY <1>3 DEF ViewerKey, QueueNext
<1>4. CASE ViewerTick \/ ViewerClosed \/ ViewerCanceled
  BY <1>4 DEF ViewerTick, ViewerClosed, ViewerCanceled, QueueNext
<1>5. CASE StartLine \/ StartViewer \/ EnterViewer \/ WriteNote \/ WriteBody \/ SessionEnds
  BY <1>5 DEF StartLine, StartViewer, EnterViewer, WriteNote, WriteBody, SessionEnds, QueueNext
<1>6. CASE World
  BY <1>6 DEF World, QueueNext
<1>7. CASE UNCHANGED vars
  BY <1>7 DEF vars, QueueNext
<1> QED
  BY <1>1, <1>2, <1>3, <1>4, <1>5, <1>6, <1>7 DEF Next, Step, Program

\* A key is taken after the cancellation only by a select that had begun
\* before it, and no select begins any more.
FewInv ==
  /\ late \in {0, 1}
  /\ late = 1 => canceled /\ ~armed

LEMMA QueueKeepsFewInv == FewInv /\ QueueNext => FewInv'
<1> SUFFICES ASSUME FewInv, QueueNext PROVE FewInv'
  OBVIOUS
<1> USE DEF FewInv, inputVars
<1>1. ASSUME NEW key, Take(key) PROVE FewInv'
  BY <1>1 DEF Take
<1>2. ASSUME NEW key, Type(key) PROVE FewInv'
  BY <1>2 DEF Type
<1>3. CASE Check
  BY <1>3 DEF Check
<1>4. CASE Canceled
  BY <1>4 DEF Canceled
<1>5. CASE Closed \/ TakeTick
  BY <1>5 DEF Closed, TakeTick
<1>6. CASE Cancel
  BY <1>6 DEF Cancel
<1>7. ASSUME NEW how, InputEnds(how) PROVE FewInv'
  BY <1>7 DEF InputEnds
<1>8. ASSUME NEW size, Resize(size) PROVE FewInv'
  BY <1>8 DEF Resize
<1>9. CASE UNCHANGED queueVars
  BY <1>9 DEF queueVars
<1> QED
  BY <1>1, <1>2, <1>3, <1>4, <1>5, <1>6, <1>7, <1>8, <1>9 DEF QueueNext

\* readEventContext, readViewerEventContext: however many prompts follow each
\* other and whatever is typed, at most one key is taken after a cancellation.
THEOREM FewKeysAfterCancelAlways == Spec => []FewKeysAfterCancel
<1>1. Init => FewInv
  BY DEF Init, FewInv
<1>2. FewInv /\ [Next]_vars => FewInv'
  BY StepOfQueue, QueueKeepsFewInv
<1>3. FewInv => FewKeysAfterCancel
  BY DEF FewInv, FewKeysAfterCancel
<1> QED
  BY <1>1, <1>2, <1>3, PTL DEF Spec
-----------------------------------------------------------------------------
(* The phrase that is entered by lines. *)

PhraseValid == committed \in Entry!Phrases

LEMMA LineEnters ==
  ASSUME PhraseValid, NEW tokens, Phrase!Line(tokens)
  PROVE  Entry!AddWords \/ UNCHANGED <<committed, state>>
<1>1. CASE ~Phrase!Grammar!accepts(committed, tokens)
  BY <1>1 DEF Phrase!Line
<1>2. CASE Phrase!Grammar!accepts(committed, tokens)
  <2>1. /\ committed \in Seq(Words) /\ tokens \in Seq(Words)
        /\ Len(committed) \in Nat /\ Len(tokens) \in Nat
    BY <1>2 DEF PhraseValid, Entry!Phrases, Phrase!Grammar!accepts
  <2>2. state = "open" /\ committed' = committed \o tokens /\ UNCHANGED state
    BY <1>2 DEF Phrase!Line
  <2>3. /\ committed \o tokens \in Seq(Words)
        /\ Len(committed \o tokens) = Len(committed) + Len(tokens)
        /\ SubSeq(committed \o tokens, 1, Len(committed)) = committed
    BY <2>1
  <2>4. Entry!Distinct(committed \o tokens) /\ Len(committed \o tokens) <= MaxWords
    BY <1>2, <2>1, <2>3
       DEF Phrase!Grammar!accepts, Phrase!Grammar!Repeats, Entry!Distinct
  <2>5. CASE Len(tokens) = 0
    BY <2>1, <2>2, <2>5, EmptySeq, ConcatEmptySeq
  <2>6. CASE Len(tokens) > 0
    <3>1. committed \o tokens \in Entry!Phrases
      BY <2>3, <2>4 DEF Entry!Phrases
    <3>2. Len(committed \o tokens) > Len(committed)
      BY <2>1, <2>3, <2>6
    <3> QED
      BY <2>2, <2>3, <3>1, <3>2 DEF Entry!AddWords
  <2> QED
    BY <2>1, <2>5, <2>6
<1> QED
  BY <1>1, <1>2

LEMMA AnswerEnters ==
  ASSUME PhraseValid, NEW what, NEW line, Answer(what, line)
  PROVE  Entry!Next \/ UNCHANGED <<committed, state>>
<1>1. CASE OtherAnswer(what)
  BY <1>1 DEF OtherAnswer, phraseVars
<1>2. CASE Phrase!TooLongLine
  BY <1>2 DEF Phrase!TooLongLine
<1>3. ASSUME Phrase!Line(split(line)) PROVE Entry!Next \/ UNCHANGED <<committed, state>>
  BY <1>3, LineEnters DEF Entry!Next
<1>4. CASE Phrase!EmptyLine
  BY <1>4 DEF Phrase!EmptyLine, Entry!Next, Entry!Submit
<1>5. CASE Phrase!Interrupt
  BY <1>5 DEF Phrase!Interrupt, Entry!Next, Entry!Interrupt
<1> QED
  BY <1>1, <1>2, <1>3, <1>4, <1>5 DEF Answer, PhraseAnswer

LEMMA StepEnters ==
  ASSUME PhraseValid, [Next]_vars
  PROVE  Entry!Next \/ UNCHANGED <<committed, state>>
<1>1. CASE LineKey
  <2>1. (\E what, line : Answer(what, line)) \/ UNCHANGED phraseVars
    BY <1>1 DEF LineKey
  <2> QED
    BY <2>1, AnswerEnters DEF phraseVars
<1>2. CASE LineClosed \/ LineCanceled
  <2>1. \E what, line : Answer(what, line)
    BY <1>2 DEF LineClosed, LineCanceled
  <2> QED
    BY <2>1, AnswerEnters
<1>3. CASE UNCHANGED phraseVars
  BY <1>3 DEF phraseVars
<1>4. ASSUME \/ StartLine \/ Await \/ StartViewer \/ EnterViewer \/ ViewerKey \/ ViewerTick
             \/ ViewerClosed \/ ViewerCanceled \/ WriteNote \/ WriteBody \/ SessionEnds
             \/ World \/ UNCHANGED vars
      PROVE  UNCHANGED phraseVars
  BY <1>4 DEF StartLine, Await, StartViewer, EnterViewer, ViewerKey, ViewerTick, ViewerClosed,
              ViewerCanceled, WriteNote, WriteBody, SessionEnds, World, vars, promptVars
<1> QED
  BY <1>1, <1>2, <1>3, <1>4 DEF Next, Step, Program

LEMMA EntryKeepsPhrase ==
  ASSUME PhraseValid, Entry!Next \/ UNCHANGED <<committed, state>>
  PROVE  PhraseValid'
<1>1. CASE Entry!AddWords
  BY <1>1 DEF Entry!AddWords, PhraseValid, Entry!Phrases, Entry!Distinct
<1>2. CASE Entry!RemoveLast
  <2> DEFINE n == Len(committed) - 1
  <2>1. /\ committed \in Seq(Words) /\ Entry!Distinct(committed) /\ Len(committed) <= MaxWords
        /\ committed # <<>> /\ committed' = SubSeq(committed, 1, n)
    BY <1>2 DEF Entry!RemoveLast, PhraseValid, Entry!Phrases
  <2>2. n \in Nat /\ Len(committed) \in Nat /\ \A i \in 1..n : committed[i] \in Words
    BY <2>1
  <2>3. /\ committed' \in Seq(Words) /\ Len(committed') = n
        /\ \A i \in 1..n : committed'[i] = committed[i]
    <3> HIDE DEF n
    <3>1. /\ SubSeq(committed, 1, n) \in Seq(Words)
          /\ Len(SubSeq(committed, 1, n)) = IF 1 <= n THEN n - 1 + 1 ELSE 0
          /\ \A i \in 1..(n - 1 + 1) : SubSeq(committed, 1, n)[i] = committed[1 + i - 1]
      BY <2>2, SubSeqProperties
    <3> QED
      BY <2>1, <2>2, <3>1
  <2>4. Entry!Distinct(committed') /\ Len(committed') <= MaxWords
    BY <2>1, <2>2, <2>3, PhraseAssumption DEF Entry!Distinct
  <2>5. committed' \in {s \in Seq(Words) : Entry!Distinct(s) /\ Len(s) <= MaxWords}
    BY <2>3, <2>4
  <2> QED
    BY <2>5 DEF PhraseValid, Entry!Phrases, Entry!Distinct
<1>3. CASE UNCHANGED committed
  BY <1>3 DEF PhraseValid, Entry!Phrases, Entry!Distinct
<1> QED
  BY <1>1, <1>2, <1>3 DEF Entry!Next, Entry!Submit, Entry!Interrupt

\* readPhrasePlainLines over readLineContext: whatever is typed, ahead or not,
\* the prompt by lines implements the same entry of a phrase as the raw prompt.
THEOREM EntryRefinement == Spec => ImplementsEntry
<1>1. Init => Entry!Init /\ PhraseValid
  BY PhraseAssumption, EmptySeq
     DEF Init, Phrase!Init, Entry!Init, PhraseValid, Entry!Phrases, Entry!Distinct
<1>2. PhraseValid /\ [Next]_vars => PhraseValid' /\ [Entry!Next]_Entry!entryVars
  <2> SUFFICES ASSUME PhraseValid, [Next]_vars
               PROVE  PhraseValid' /\ [Entry!Next]_Entry!entryVars
    OBVIOUS
  <2>1. Entry!Next \/ UNCHANGED <<committed, state>>
    BY StepEnters
  <2> QED
    BY <2>1, EntryKeepsPhrase DEF Entry!entryVars
<1> QED
  BY <1>1, <1>2, PTL DEF Spec, ImplementsEntry, Entry!Spec
-----------------------------------------------------------------------------
(* The terminal and its scrollback. *)

Renditions == [what : {"note", "text"}, mode : {"cooked"}, screen : {"main"}]

\* Between prompts, and from the note to the end of the text, the terminal is
\* as it was found; the text is about to be written only behind a note.
Announced ==
  /\ stage \in {"next", "note", "body"} => mode = "cooked" /\ screen = "main"
  /\ stage = "line" => screen = "main"
  /\ scrollback \in Seq(Renditions)
  /\ stage = "body" => scrollback # <<>> /\ scrollback[Len(scrollback)].what = "note"
  /\ ScrollbackIsAnnounced

LEMMA FinishKeepsAnnounced ==
  ASSUME Announced, NEW how, Finish(how), UNCHANGED scrollback
  PROVE  Announced'
BY DEF Announced, Finish, ScrollbackIsAnnounced

LEMMA StagesKeepAnnounced ==
  ASSUME Announced, UNCHANGED scrollback,
         \/ stage' = "line" /\ screen' = "main"
         \/ stage' \in {"next", "note"} /\ mode' = "cooked" /\ screen' = "main"
         \/ stage' \in {"enter", "watch"}
         \/ UNCHANGED <<stage, mode, screen>>
  PROVE  Announced'
BY DEF Announced, ScrollbackIsAnnounced

LEMMA AnswerKeepsAnnounced ==
  ASSUME Announced, stage = "line", NEW what, NEW line, Answer(what, line)
  PROVE  Announced'
<1>1. UNCHANGED scrollback /\ screen = "main"
  BY DEF Answer, viewVars, Announced
<1>2. ASSUME NEW how, Finish(how) PROVE Announced'
  BY <1>1, <1>2, FinishKeepsAnnounced
<1>3. CASE NextPrompt \/ Go("line")
  BY <1>1, <1>3, StagesKeepAnnounced DEF NextPrompt, Go
<1> QED
  BY <1>2, <1>3 DEF Answer, PhraseAnswer, OtherAnswer

LEMMA GestureKeepsAnnounced ==
  ASSUME Announced, stage = "watch", NEW key, Gesture(key)
  PROVE  Announced'
<1>1. UNCHANGED scrollback
  BY DEF Gesture, Reflow, NextPage, PreviousPage, Redraw, Stay
<1>2. ASSUME NEW how, Finish(how) PROVE Announced'
  BY <1>1, <1>2, FinishKeepsAnnounced
<1>3. ASSUME NEW size, NEW starts, NEW number, Redraw(size, starts, number)
      PROVE  Announced'
  BY <1>1, <1>2, <1>3, StagesKeepAnnounced DEF Redraw, Go
<1>4. CASE Stay
  BY <1>1, <1>4, StagesKeepAnnounced DEF Stay, Go
<1>5. CASE NextPage \/ PreviousPage
  BY <1>3, <1>4, <1>5 DEF NextPage, PreviousPage
<1>6. CASE Reflow
  BY <1>1, <1>3, <1>6, StagesKeepAnnounced DEF Reflow
<1> QED
  BY <1>2, <1>4, <1>5, <1>6 DEF Gesture

LEMMA WritesKeepAnnounced ==
  ASSUME Announced, WriteNote \/ WriteBody
  PROVE  Announced'
<1>1. /\ scrollback \in Seq(Renditions) /\ Len(scrollback) \in Nat
      /\ mode = "cooked" /\ screen = "main"
  BY DEF Announced, WriteNote, WriteBody
<1>2. ASSUME NEW what \in {"note", "text"}, Write(what)
      PROVE  /\ scrollback' \in Seq(Renditions) /\ Len(scrollback') = Len(scrollback) + 1
             /\ scrollback'[Len(scrollback')] = [what |-> what, mode |-> "cooked", screen |-> "main"]
             /\ \A i \in 1..Len(scrollback) : scrollback'[i] = scrollback[i]
  BY <1>1, <1>2 DEF Write, Renditions
<1>3. CASE WriteNote /\ Write("note") /\ Go("body")
  BY <1>1, <1>2, <1>3 DEF Go, Announced, ScrollbackIsAnnounced
<1>4. CASE UNCHANGED scrollback /\ Finish("error")
  BY <1>4, FinishKeepsAnnounced
<1>5. CASE WriteBody
  <2>1. stage' = "done"
    BY <1>5 DEF WriteBody, Finish
  <2>2. stage = "body" /\ Write("text")
    BY <1>5 DEF WriteBody
  <2> QED
    BY <1>1, <1>2, <2>1, <2>2 DEF Announced, ScrollbackIsAnnounced
<1> QED
  BY <1>3, <1>4, <1>5 DEF WriteNote

LEMMA StepKeepsAnnounced == Announced /\ [Next]_vars => Announced'
<1> SUFFICES ASSUME Announced, [Next]_vars PROVE Announced'
  OBVIOUS
<1>1. CASE StartLine
  <2>1. stage = "next" /\ UNCHANGED scrollback
    BY <1>1 DEF StartLine, viewVars
  <2>2. ASSUME NEW how, Finish(how) PROVE Announced'
    BY <2>1, <2>2, FinishKeepsAnnounced
  <2>3. CASE stage' = "line" /\ UNCHANGED screen
    BY <2>1, <2>3, StagesKeepAnnounced DEF Announced
  <2> QED
    BY <1>1, <2>2, <2>3 DEF StartLine
<1>2. CASE LineKey
  <2>1. \/ \E what, line : Answer(what, line)
        \/ UNCHANGED <<stage, mode, screen, viewVars>>
    BY <1>2 DEF LineKey
  <2>2. stage = "line"
    BY <1>2 DEF LineKey
  <2> QED
    BY <2>1, <2>2, AnswerKeepsAnnounced, StagesKeepAnnounced DEF viewVars
<1>3. CASE LineClosed \/ LineCanceled
  <2>1. stage = "line" /\ \E what, line : Answer(what, line)
    BY <1>3 DEF LineClosed, LineCanceled
  <2> QED
    BY <2>1, AnswerKeepsAnnounced
<1>4. CASE Await
  BY <1>4, StagesKeepAnnounced DEF Await, viewVars
<1>5. CASE StartViewer
  <2>1. UNCHANGED scrollback /\ mode = "cooked" /\ screen = "main"
    BY <1>5 DEF StartViewer, Announced
  <2> QED
    BY <1>5, <2>1, StagesKeepAnnounced DEF StartViewer, Go
<1>6. CASE EnterViewer
  <2>1. UNCHANGED scrollback
    BY <1>6 DEF EnterViewer, viewVars
  <2> QED
    BY <1>6, <2>1, StagesKeepAnnounced, FinishKeepsAnnounced DEF EnterViewer
<1>7. CASE ViewerKey \/ ViewerTick
  <2>1. stage = "watch" /\ \E key : Gesture(key)
    BY <1>7 DEF ViewerKey, ViewerTick
  <2> QED
    BY <2>1, GestureKeepsAnnounced
<1>8. CASE ViewerClosed \/ ViewerCanceled
  <2>1. UNCHANGED scrollback /\ \E how : Finish(how)
    BY <1>8 DEF ViewerClosed, ViewerCanceled, viewVars
  <2> QED
    BY <2>1, FinishKeepsAnnounced
<1>9. CASE WriteNote \/ WriteBody
  BY <1>9, WritesKeepAnnounced
<1>10. CASE SessionEnds
  BY <1>10, FinishKeepsAnnounced DEF SessionEnds, viewVars
<1>11. CASE World \/ UNCHANGED vars
  BY <1>11, StagesKeepAnnounced DEF World, vars, viewVars
<1> QED
  BY <1>1, <1>2, <1>3, <1>4, <1>5, <1>6, <1>7, <1>8, <1>9, <1>10, <1>11
     DEF Next, Step, Program

\* ShowViewerContext and its fallback: however the viewer was left, plaintext is
\* written to the main screen only behind the note and in the mode of the shell.
THEOREM ScrollbackIsAnnouncedAlways == Spec => []ScrollbackIsAnnounced
<1>1. Init => Announced
  BY EmptySeq DEF Init, Announced, ScrollbackIsAnnounced
<1>2. Announced => ScrollbackIsAnnounced
  BY DEF Announced
<1> QED
  BY <1>1, <1>2, StepKeepsAnnounced, PTL DEF Spec
-----------------------------------------------------------------------------
(* Induction over the natural numbers, for sets of numbers. *)

LEMMA LeastNumber ==
  ASSUME NEW S, S \subseteq Nat, S # {}
  PROVE  \E x \in S : \A y \in S : x <= y
<1> DEFINE T == {0..n : n \in S}
<1>1. T \subseteq FiniteSubsetsOf(Nat) /\ T # {}
  <2>1. ASSUME NEW n \in S PROVE 0..n \in FiniteSubsetsOf(Nat)
    <3>1. n \in Int /\ 0 \in Int
      OBVIOUS
    <3>2. IsFiniteSet(0..n) /\ 0..n \subseteq Nat
      BY <3>1, FS_Interval
    <3> QED
      BY <3>2 DEF FiniteSubsetsOf
  <2> QED
    BY <2>1
<1>2. PICK t \in T : \A u \in T : ~(<<u, t>> \in StrictSubsetOrdering(Nat))
  <2> HIDE DEF T
  <2> QED
    BY <1>1, FS_StrictSubsetOrderingWellFounded, WFMin
<1>3. PICK m \in S : t = 0..m
  OBVIOUS
<1>4. ASSUME NEW k \in S PROVE m <= k
  <2>1. ~(0..k \subseteq 0..m /\ 0..k # 0..m)
    <3>1. 0..k \in T /\ 0..k \subseteq Nat /\ 0..m \subseteq Nat
      OBVIOUS
    <3>2. ~(<<0..k, 0..m>> \in StrictSubsetOrdering(Nat))
      BY <1>2, <1>3, <3>1
    <3>3. <<0..k, 0..m>> \in (SUBSET Nat) \X (SUBSET Nat)
      BY <3>1
    <3> QED
      BY <3>2, <3>3 DEF StrictSubsetOrdering
  <2>2. k \in Nat /\ m \in Nat
    OBVIOUS
  <2> SUFFICES ASSUME k < m PROVE FALSE
    BY <2>2
  <2>3. 0..k \subseteq 0..m /\ m \in 0..m /\ m \notin 0..k
    BY <2>2
  <2> QED
    BY <2>1, <2>3
<1> QED
  BY <1>4

LEMMA SetInduction ==
  ASSUME NEW S, 0 \in S, \A n \in Nat : n \in S => n + 1 \in S
  PROVE  Nat \subseteq S
<1> SUFFICES ASSUME Nat \ S # {} PROVE FALSE
  OBVIOUS
<1>1. PICK m \in Nat \ S : \A k \in Nat \ S : m <= k
  BY LeastNumber
<1>2. m # 0 /\ m - 1 \in Nat
  BY <1>1
<1>3. m - 1 \in S
  BY <1>1, <1>2
<1> QED
  BY <1>1, <1>2, <1>3
-----------------------------------------------------------------------------
(* What keys mean, key by key. *)

\* A line after each of the first m keys.
LinesAfter(keys, line, m) ==
  [n \in 0..m |-> IF n = 0 THEN <<>> ELSE edited(line[n - 1], keys[n])]

LEMMA LinesAfterExist ==
  ASSUME NEW keys
  PROVE  \A m \in Nat : \E line : line = LinesAfter(keys, line, m)
<1> DEFINE S == {m \in Nat : \E line : line = LinesAfter(keys, line, m)}
<1>1. 0 \in S
  <2> DEFINE line == [n \in 0..0 |-> <<>>]
  <2>1. line = LinesAfter(keys, line, 0)
    BY DEF LinesAfter
  <2> QED
    BY <2>1
<1>2. ASSUME NEW m \in Nat, m \in S PROVE m + 1 \in S
  <2>1. PICK line : line = LinesAfter(keys, line, m)
    BY <1>2
  <2> DEFINE more == [n \in 0..(m + 1) |->
                        IF n <= m THEN line[n] ELSE edited(line[n - 1], keys[n])]
  <2>2. \A n \in 0..m : line[n] = IF n = 0 THEN <<>> ELSE edited(line[n - 1], keys[n])
    <3> TAKE n \in 0..m
    <3> QED
      BY <2>1 DEF LinesAfter
  <2>3. \A n \in 0..m : more[n] = line[n]
    OBVIOUS
  <2>4. \A n \in 0..(m + 1) : n # 0 => n - 1 \in 0..m /\ more[n - 1] = line[n - 1]
    BY <2>3
  <2>5. \A n \in 0..(m + 1) :
          more[n] = IF n = 0 THEN <<>> ELSE edited(more[n - 1], keys[n])
    <3> TAKE n \in 0..(m + 1)
    <3>1. CASE n <= m
      <4>1. n \in 0..m /\ more[n] = line[n]
        BY <2>3, <3>1
      <4> QED
        BY <2>2, <2>4, <4>1
    <3>2. CASE ~(n <= m)
      <4>1. more[n] = edited(line[n - 1], keys[n])
        BY <3>2
      <4> QED
        BY <2>4, <3>2, <4>1
    <3> QED
      BY <3>1, <3>2
  <2>6. more = LinesAfter(keys, more, m + 1)
    <3>1. more = [n \in 0..(m + 1) |-> more[n]]
      OBVIOUS
    <3> HIDE DEF more
    <3> QED
      BY <2>5, <3>1 DEF LinesAfter
  <2> QED
    BY <2>6
<1>3. Nat \subseteq S
  <2> HIDE DEF S
  <2> QED
    BY <1>1, <1>2, SetInduction
<1> QED
  BY <1>3

LEMMA MeaningLoop ==
  ASSUME NEW keys, Len(keys) \in Nat
  PROVE  \E line :
           /\ \A n \in 0..Len(keys) :
                line[n] = IF n = 0 THEN <<>> ELSE edited(line[n - 1], keys[n])
           /\ meaning(keys) = line[Len(keys)]
<1>1. \E line : line = LinesAfter(keys, line, Len(keys))
  BY LinesAfterExist
<1> DEFINE line == CHOOSE line : line = LinesAfter(keys, line, Len(keys))
<1>2. line = LinesAfter(keys, line, Len(keys))
  BY <1>1
<1>3. meaning(keys) = line[Len(keys)]
  BY DEF meaning, LinesAfter
<1>4. \A n \in 0..Len(keys) : line[n] = IF n = 0 THEN <<>> ELSE edited(line[n - 1], keys[n])
  <2> TAKE n \in 0..Len(keys)
  <2> HIDE DEF line
  <2> QED
    BY <1>2 DEF LinesAfter
<1> QED
  BY <1>3, <1>4

LEMMA NothingMeant == meaning(<<>>) = <<>>
<1>1. Len(<<>>) = 0 /\ Len(<<>>) \in Nat
  OBVIOUS
<1>2. PICK line :
        /\ \A n \in 0..Len(<<>>) :
             line[n] = IF n = 0 THEN <<>> ELSE edited(line[n - 1], <<>>[n])
        /\ meaning(<<>>) = line[Len(<<>>)]
  BY <1>1, MeaningLoop
<1>3. 0 \in 0..Len(<<>>)
  BY <1>1
<1>4. line[0] = <<>>
  BY <1>2, <1>3
<1> QED
  BY <1>1, <1>2, <1>4

LEMMA MeaningAppend ==
  ASSUME NEW S, NEW keys \in Seq(S), NEW key \in S
  PROVE  meaning(Append(keys, key)) = edited(meaning(keys), key)
<1> DEFINE more == Append(keys, key)
<1>1. /\ Len(keys) \in Nat /\ Len(more) = Len(keys) + 1
      /\ \A n \in 1..Len(keys) : more[n] = keys[n]
      /\ more[Len(keys) + 1] = key
  BY AppendProperties, LenProperties
<1>2. Len(more) \in Nat
  BY <1>1
<1> HIDE DEF more
<1>3. PICK line :
        /\ \A n \in 0..Len(keys) :
             line[n] = IF n = 0 THEN <<>> ELSE edited(line[n - 1], keys[n])
        /\ meaning(keys) = line[Len(keys)]
  BY <1>1, MeaningLoop
<1>4. PICK longer :
        /\ \A n \in 0..Len(more) :
             longer[n] = IF n = 0 THEN <<>> ELSE edited(longer[n - 1], more[n])
        /\ meaning(more) = longer[Len(more)]
  BY <1>2, MeaningLoop
<1> DEFINE A == {n \in Nat : n <= Len(keys) => longer[n] = line[n]}
<1>5. 0 \in A
  BY <1>1, <1>2, <1>3, <1>4
<1>6. ASSUME NEW n \in Nat, n \in A PROVE n + 1 \in A
  <2> SUFFICES ASSUME n + 1 <= Len(keys) PROVE longer[n + 1] = line[n + 1]
    OBVIOUS
  <2>1. /\ n + 1 \in 0..Len(keys) /\ n + 1 \in 0..Len(more) /\ n + 1 # 0 /\ (n + 1) - 1 = n
        /\ n + 1 \in 1..Len(keys) /\ n <= Len(keys)
    BY <1>1
  <2>2. longer[n] = line[n] /\ more[n + 1] = keys[n + 1]
    BY <1>1, <1>6, <2>1
  <2>3. longer[n + 1] = edited(longer[n], more[n + 1]) /\ line[n + 1] = edited(line[n], keys[n + 1])
    BY <1>3, <1>4, <2>1
  <2> QED
    BY <2>2, <2>3
<1>7. Nat \subseteq A
  <2> HIDE DEF A
  <2> QED
    BY <1>5, <1>6, SetInduction
<1>8. longer[Len(keys)] = line[Len(keys)]
  BY <1>1, <1>7
<1>9. longer[Len(more)] = edited(longer[Len(keys)], key)
  <2>1. Len(more) \in 0..Len(more) /\ Len(more) # 0 /\ Len(more) - 1 = Len(keys)
    BY <1>1
  <2> QED
    BY <1>1, <1>4, <2>1
<1> QED
  BY <1>3, <1>4, <1>8, <1>9 DEF more

\* Beginnings of a sequence, and of one with an element more.
LEMMA SubSeqAppend ==
  ASSUME NEW S, NEW s \in Seq(S), NEW e \in S, NEW m \in Nat, NEW n \in Nat, n <= Len(s)
  PROVE  SubSeq(Append(s, e), m + 1, n) = SubSeq(s, m + 1, n)
<1>1. /\ Len(s) \in Nat /\ \A i \in 1..Len(s) : s[i] \in S /\ Append(s, e)[i] = s[i]
  BY AppendProperties, LenProperties, ElementOfSeq
<1>2. \A i \in (m + 1)..n : s[i] \in S /\ Append(s, e)[i] \in S
  BY <1>1
<1> DEFINE whole == SubSeq(Append(s, e), m + 1, n)
           short == SubSeq(s, m + 1, n)
<1>3. /\ short \in Seq(S) /\ Len(short) = (IF m + 1 <= n THEN n - (m + 1) + 1 ELSE 0)
      /\ \A i \in 1..(n - (m + 1) + 1) : short[i] = s[(m + 1) + i - 1]
  BY <1>2, SubSeqProperties
<1>4. /\ whole \in Seq(S) /\ Len(whole) = (IF m + 1 <= n THEN n - (m + 1) + 1 ELSE 0)
      /\ \A i \in 1..(n - (m + 1) + 1) : whole[i] = Append(s, e)[(m + 1) + i - 1]
  <2> DEFINE t == Append(s, e)
  <2> HIDE DEF t
  <2>1. \A i \in (m + 1)..n : t[i] \in S
    BY <1>2 DEF t
  <2> QED
    BY <2>1, SubSeqProperties DEF t
<1> HIDE DEF whole, short
<1>5. Len(whole) = Len(short)
  BY <1>3, <1>4
<1>6. ASSUME NEW i \in 1..Len(whole) PROVE whole[i] = short[i]
  <2>1. i \in 1..(n - (m + 1) + 1) /\ (m + 1) + i - 1 \in 1..Len(s)
    BY <1>1, <1>4
  <2> QED
    BY <1>1, <1>3, <1>4, <2>1
<1>7. whole = short
  BY <1>3, <1>4, <1>5, <1>6, SeqEqual
<1> QED
  BY <1>7 DEF whole, short

LEMMA SubSeqLonger ==
  ASSUME NEW S, NEW s \in Seq(S), NEW m \in Nat, NEW n \in Nat, m <= n, n < Len(s)
  PROVE  /\ SubSeq(s, m + 1, n) \in Seq(S) /\ s[n + 1] \in S
         /\ SubSeq(s, m + 1, n + 1) = Append(SubSeq(s, m + 1, n), s[n + 1])
<1>1. Len(s) \in Nat /\ \A i \in 1..Len(s) : s[i] \in S
  BY LenProperties, ElementOfSeq
<1>2. s[n + 1] \in S /\ n + 1 \in Nat
  BY <1>1
<1> DEFINE t == SubSeq(s, m + 1, n)
           whole == SubSeq(s, m + 1, n + 1)
<1>3. /\ t \in Seq(S) /\ Len(t) = (IF m + 1 <= n THEN n - (m + 1) + 1 ELSE 0)
      /\ \A i \in 1..(n - (m + 1) + 1) : t[i] = s[(m + 1) + i - 1]
  <2>1. \A i \in (m + 1)..n : s[i] \in S
    BY <1>1
  <2> QED
    BY <2>1, SubSeqProperties
<1>4. /\ whole \in Seq(S) /\ Len(whole) = (IF m + 1 <= n + 1 THEN (n + 1) - (m + 1) + 1 ELSE 0)
      /\ \A i \in 1..((n + 1) - (m + 1) + 1) : whole[i] = s[(m + 1) + i - 1]
  <2> DEFINE k == n + 1
  <2>1. k \in Nat /\ \A i \in (m + 1)..k : s[i] \in S
    BY <1>1
  <2> HIDE DEF k
  <2>2. /\ SubSeq(s, m + 1, k) \in Seq(S)
        /\ Len(SubSeq(s, m + 1, k)) = (IF m + 1 <= k THEN k - (m + 1) + 1 ELSE 0)
        /\ \A i \in 1..(k - (m + 1) + 1) : SubSeq(s, m + 1, k)[i] = s[(m + 1) + i - 1]
    BY <2>1, SubSeqProperties
  <2> QED
    BY <2>2 DEF k
<1> HIDE DEF t, whole
<1>5. Len(t) = n - m /\ Len(whole) = Len(t) + 1 /\ Len(t) \in Nat
  BY <1>3, <1>4
<1>6. /\ Append(t, s[n + 1]) \in Seq(S) /\ Len(Append(t, s[n + 1])) = Len(t) + 1
      /\ \A i \in 1..Len(t) : Append(t, s[n + 1])[i] = t[i]
      /\ Append(t, s[n + 1])[Len(t) + 1] = s[n + 1]
  BY <1>2, <1>3, AppendProperties
<1>7. ASSUME NEW i \in 1..Len(whole) PROVE whole[i] = Append(t, s[n + 1])[i]
  <2>1. whole[i] = s[m + i]
    <3>1. i \in 1..((n + 1) - (m + 1) + 1) /\ (m + 1) + i - 1 = m + i
      BY <1>5
    <3> QED
      BY <1>4, <3>1
  <2>2. CASE i = Len(t) + 1
    <3>1. m + i = n + 1
      BY <1>5, <2>2
    <3> QED
      BY <1>6, <2>1, <2>2, <3>1
  <2>3. CASE i # Len(t) + 1
    <3>1. i \in 1..Len(t) /\ i \in 1..(n - (m + 1) + 1) /\ (m + 1) + i - 1 = m + i
      BY <1>5, <2>3
    <3> QED
      BY <1>3, <1>6, <2>1, <3>1
  <2> QED
    BY <2>2, <2>3
<1>8. whole = Append(t, s[n + 1])
  BY <1>4, <1>5, <1>6, <1>7, SeqEqual
<1> QED
  BY <1>2, <1>3, <1>8 DEF t, whole

LEMMA BeginningsOfAppend ==
  ASSUME NEW S, NEW keys \in Seq(S), NEW key \in S
  PROVE  /\ \A i \in 1..Len(keys) : SubSeq(Append(keys, key), 1, i) = SubSeq(keys, 1, i)
         /\ SubSeq(Append(keys, key), 1, Len(keys) + 1) = Append(keys, key)
         /\ Front(Append(keys, key)) = keys /\ Last(Append(keys, key)) = key
<1>1. Len(keys) \in Nat
  BY LenProperties
<1>2. ASSUME NEW i \in 1..Len(keys) PROVE SubSeq(Append(keys, key), 1, i) = SubSeq(keys, 1, i)
  <2>1. i \in Nat /\ i <= Len(keys) /\ 0 \in Nat /\ 0 + 1 = 1
    BY <1>1
  <2>2. SubSeq(Append(keys, key), 0 + 1, i) = SubSeq(keys, 0 + 1, i)
    BY <2>1, SubSeqAppend
  <2> QED
    BY <2>1, <2>2
<1> DEFINE more == Append(keys, key)
<1>3. /\ more \in Seq(S) /\ Len(more) = Len(keys) + 1 /\ more[Len(keys) + 1] = key
  BY AppendProperties
<1>4. SubSeq(more, 1, Len(keys) + 1) = more
  BY <1>1, <1>3, SubSeqFull
<1>5. SubSeq(keys, 1, Len(keys)) = keys
  BY SubSeqFull
<1>6. SubSeq(more, 1, Len(keys)) = keys
  <2>1. 0 + 1 = 1 /\ 0 \in Nat /\ Len(keys) <= Len(keys)
    BY <1>1
  <2>2. SubSeq(more, 0 + 1, Len(keys)) = SubSeq(keys, 0 + 1, Len(keys))
    BY <1>1, <2>1, SubSeqAppend
  <2> QED
    BY <1>5, <2>1, <2>2
<1>7. Front(more) = keys /\ Last(more) = key
  <2>1. Len(more) - 1 = Len(keys)
    BY <1>1, <1>3
  <2> QED
    BY <1>3, <1>6, <2>1 DEF Front, Last
<1> QED
  BY <1>2, <1>4, <1>7

LEMMA ExceedsAppend ==
  ASSUME NEW S, NEW keys \in Seq(S), NEW key \in S, NEW limit
  PROVE  exceeds(Append(keys, key), limit) <=>
           \/ exceeds(keys, limit)
           \/ key[1] = "inputTooLong"
           \/ Size(edited(meaning(keys), key)) > limit
<1> DEFINE more == Append(keys, key)
           n == Len(keys)
<1>1. /\ n \in Nat /\ DOMAIN keys = 1..n /\ DOMAIN more = 1..(n + 1)
      /\ \A i \in 1..n : more[i] = keys[i]
      /\ more[n + 1] = key
  BY AppendProperties, LenProperties
<1>2. /\ \A i \in 1..n : SubSeq(more, 1, i) = SubSeq(keys, 1, i)
      /\ SubSeq(more, 1, n + 1) = more
  BY BeginningsOfAppend
<1>3. meaning(more) = edited(meaning(keys), key)
  BY MeaningAppend
<1> HIDE DEF more, n
<1>4. (\E i \in 1..(n + 1) : more[i][1] = "inputTooLong")
        <=> (\E i \in 1..n : keys[i][1] = "inputTooLong") \/ key[1] = "inputTooLong"
  <2>1. \A i \in 1..(n + 1) : i \in 1..n \/ i = n + 1
    BY <1>1
  <2>2. n + 1 \in 1..(n + 1) /\ 1..n \subseteq 1..(n + 1)
    BY <1>1
  <2> QED
    BY <1>1, <2>1, <2>2
<1>5. (\E i \in 1..(n + 1) : Size(meaning(SubSeq(more, 1, i))) > limit)
        <=> \/ \E i \in 1..n : Size(meaning(SubSeq(keys, 1, i))) > limit
            \/ Size(edited(meaning(keys), key)) > limit
  <2>1. \A i \in 1..(n + 1) : i \in 1..n \/ i = n + 1
    BY <1>1
  <2>2. n + 1 \in 1..(n + 1) /\ 1..n \subseteq 1..(n + 1)
    BY <1>1
  <2> QED
    BY <1>2, <1>3, <2>1, <2>2, Zenon
<1> QED
  BY <1>1, <1>4, <1>5 DEF exceeds, more, n

LEMMA NothingExceeds ==
  ASSUME NEW limit
  PROVE  ~exceeds(<<>>, limit)
<1>1. DOMAIN <<>> = {}
  OBVIOUS
<1> QED
  BY <1>1 DEF exceeds
-----------------------------------------------------------------------------
(* Every answer, and the line that is being typed. *)

\* Where the events of an answer, and of the line being read, begin.
Start(i) == IF i = 1 THEN 0 ELSE answers[i - 1].last

Since == IF answers = <<>> THEN 0 ELSE answers[Len(answers)].last

Current == SubSeq(typed, Since + 1, taken)

Unended(keys) == \A n \in DOMAIN keys : keys[n][1] \notin Enders

EventsInv ==
  /\ typed \in Seq(scenario.keys)
  /\ taken \in Nat /\ taken <= Len(typed)

AnswersInv ==
  /\ \E S : answers \in Seq(S)
  /\ Since \in Nat /\ Since <= taken
  /\ \A i \in 1..Len(answers) :
       /\ Start(i) \in Nat /\ answers[i].last \in Nat
       /\ answers[i].last <= taken
       /\ AsTyped(answers[i], segment(i))

CurrentInv ==
  /\ stage = "next" => Since = taken
  /\ stage = "line" =>
       /\ Unended(Current)
       /\ ed = IF exceeds(Current, Limit[Head(prompts)]) THEN rejected
               ELSE [text |-> meaning(Current), overflow |-> FALSE]

LinesInv == EventsInv /\ AnswersInv /\ CurrentInv

\* What the events of an answer must be, whether or not one of them ends it.
LEMMA EndedAsTyped ==
  ASSUME NEW S, NEW keys \in Seq(S), NEW key \in S, Unended(keys), key[1] \in Enders,
         NEW answer,
         answer.what \in {"line", "tooLong"} => key[1] = "enter",
         answer.what = "line" =>
           ~exceeds(keys, Limit[answer.prompt]) /\ answer.line = meaning(keys),
         answer.what = "tooLong" => exceeds(keys, Limit[answer.prompt])
  PROVE  AsTyped(answer, Append(keys, key))
<1> DEFINE more == Append(keys, key)
           enders == {n \in DOMAIN more : more[n][1] \in Enders}
<1>1. /\ Len(keys) \in Nat /\ DOMAIN keys = 1..Len(keys)
      /\ DOMAIN more = 1..(Len(keys) + 1) /\ Len(more) = Len(keys) + 1
      /\ \A i \in 1..Len(keys) : more[i] = keys[i]
      /\ more[Len(keys) + 1] = key
  BY AppendProperties, LenProperties
<1>2. Front(more) = keys /\ Last(more) = key
  BY BeginningsOfAppend
<1> HIDE DEF more
<1>3. enders = {Len(more)}
  BY <1>1 DEF Unended
<1>4. enders # {}
  BY <1>3
<1> HIDE DEF enders
<1>5. AsTyped(answer, more) <=>
        /\ enders \subseteq {Len(more)}
        /\ answer.what \in {"line", "tooLong"} => Last(more)[1] = "enter"
        /\ answer.what = "line" =>
             ~exceeds(Front(more), Limit[answer.prompt]) /\ answer.line = meaning(Front(more))
        /\ answer.what = "tooLong" => exceeds(Front(more), Limit[answer.prompt])
  BY <1>4, Zenon DEF AsTyped, enders
<1> QED
  BY <1>2, <1>3, <1>5 DEF more

LEMMA UnendedAsTyped ==
  ASSUME NEW keys, Unended(keys), NEW answer,
         answer.what \in {"line", "tooLong"} => ended = "eof",
         answer.what = "line" =>
           ~exceeds(keys, Limit[answer.prompt]) /\ answer.line = meaning(keys),
         answer.what = "tooLong" => exceeds(keys, Limit[answer.prompt])
  PROVE  AsTyped(answer, keys)
<1> DEFINE enders == {n \in DOMAIN keys : keys[n][1] \in Enders}
<1>1. enders = {}
  BY DEF Unended
<1> HIDE DEF enders
<1>2. AsTyped(answer, keys) <=>
        /\ enders \subseteq {Len(keys)}
        /\ answer.what \in {"line", "tooLong"} => ended = "eof"
        /\ answer.what = "line" =>
             ~exceeds(keys, Limit[answer.prompt]) /\ answer.line = meaning(keys)
        /\ answer.what = "tooLong" => exceeds(keys, Limit[answer.prompt])
  BY <1>1, Zenon DEF AsTyped, enders
<1> QED
  BY <1>1, <1>2

LEMMA MoreAnswers ==
  ASSUME NEW S, NEW s \in Seq(S), NEW e
  PROVE  \E T : Append(s, e) \in Seq(T)
<1>1. s \in Seq(S \cup {e})
  BY SeqMonotonic
<1> QED
  BY <1>1, AppendProperties

LEMMA NothingTaken ==
  ASSUME NEW s, NEW n \in Nat
  PROVE  SubSeq(s, n + 1, n) = <<>>
<1> DEFINE m == n + 1
<1>1. m \in Int /\ n \in Int /\ n < m
  OBVIOUS
<1> HIDE DEF m
<1>2. SubSeq(s, m, n) = <<>>
  BY <1>1, SubSeqEmpty
<1> QED
  BY <1>2 DEF m

\* Nothing has been taken for a line that begins here.
LEMMA NewLine ==
  ASSUME typed' = typed, taken' \in Nat, Since' = taken', stage' \in {"next", "line", "done"},
         ed' = newLine
  PROVE  CurrentInv'
<1>1. Current' = <<>>
  <2>1. \A n \in Nat : SubSeq(typed, n + 1, n) = <<>>
    BY NothingTaken
  <2> QED
    BY <2>1, Zenon DEF Current
<1>2. Unended(<<>>)
  <2>1. DOMAIN <<>> = {}
    OBVIOUS
  <2> QED
    BY <2>1 DEF Unended
<1>3. ed' = [text |-> meaning(<<>>), overflow |-> FALSE]
  BY NothingMeant DEF newLine
<1>4. \A limit : ~exceeds(<<>>, limit)
  BY NothingExceeds
<1> QED
  BY <1>1, <1>2, <1>3, <1>4, Zenon DEF CurrentInv

\* The answers there are stay as they are while more is typed.
LEMMA AnswersStay ==
  ASSUME EventsInv, AnswersInv, answers' = answers,
         \/ typed' = typed
         \/ \E key \in scenario.keys : typed' = Append(typed, key),
         taken' \in Nat, taken <= taken',
         ended' = ended \/ ended = "no"
  PROVE  AnswersInv'
<1>1. Since' = Since /\ \A i : Start(i)' = Start(i)
  BY DEF Since, Start
<1>2. Since \in Nat /\ Since <= taken' /\ \E S : answers \in Seq(S)
  BY DEF AnswersInv, EventsInv
<1>3. ASSUME NEW i \in 1..Len(answers)
      PROVE  /\ answers[i].last <= taken'
             /\ AsTyped(answers[i], segment(i))'
  <2> DEFINE m == Start(i)
             n == answers[i].last
  <2>1. /\ m \in Nat /\ n \in Nat /\ n <= taken /\ taken <= Len(typed)
        /\ taken \in Nat /\ Len(typed) \in Nat /\ AsTyped(answers[i], segment(i))
    BY LenProperties DEF AnswersInv, EventsInv
  <2>2. segment(i) = SubSeq(typed, m + 1, n) /\ segment(i)' = SubSeq(typed', m + 1, n)
    <3>1. (IF i = 1 THEN 1 ELSE answers[i - 1].last + 1) = m + 1
      <4>1. CASE i = 1
        BY <4>1 DEF Start
      <4>2. CASE i # 1
        BY <4>2 DEF Start
      <4> QED
        BY <4>1, <4>2
    <3> QED
      BY <3>1 DEF segment
  <2> HIDE DEF m, n
  <2>3. segment(i)' = segment(i)
    <3>1. CASE typed' = typed
      BY <3>1, <2>2
    <3>2. ASSUME NEW key \in scenario.keys, typed' = Append(typed, key) PROVE segment(i)' = segment(i)
      <4>1. typed \in Seq(scenario.keys) /\ n <= Len(typed)
        BY <2>1 DEF EventsInv
      <4>2. SubSeq(Append(typed, key), m + 1, n) = SubSeq(typed, m + 1, n)
        BY <2>1, <4>1, SubSeqAppend
      <4> QED
        BY <2>2, <3>2, <4>2
    <3> QED
      BY <3>1, <3>2
  <2>4. AsTyped(answers[i], segment(i))'
    <3> DEFINE keys == segment(i)
               answer == answers[i]
               enders == {j \in DOMAIN keys : keys[j][1] \in Enders}
               others == /\ enders \subseteq {Len(keys)}
                         /\ answer.what = "line" =>
                              /\ ~exceeds(IF enders = {} THEN keys ELSE Front(keys), Limit[answer.prompt])
                              /\ answer.line = meaning(IF enders = {} THEN keys ELSE Front(keys))
                         /\ answer.what = "tooLong" =>
                              exceeds(IF enders = {} THEN keys ELSE Front(keys), Limit[answer.prompt])
    <3>1. AsTyped(answer, keys) <=>
            /\ others
            /\ answer.what \in {"line", "tooLong"} =>
                 IF enders = {} THEN ended = "eof" ELSE Last(keys)[1] = "enter"
      BY Zenon DEF AsTyped
    <3>2. AsTyped(answer, keys)' <=>
            /\ others
            /\ answer.what \in {"line", "tooLong"} =>
                 IF enders = {} THEN ended' = "eof" ELSE Last(keys)[1] = "enter"
      <4> HIDE DEF keys, answer
      <4>1. keys' = keys /\ answer' = answer
        BY <2>3 DEF keys, answer
      <4> QED
        BY <4>1, Zenon DEF AsTyped
    <3> HIDE DEF keys, answer, enders, others
    <3>3. AsTyped(answer, keys)
      BY <2>1 DEF keys, answer
    <3>4. ended = "no" => ended # "eof"
      OBVIOUS
    <3>5. AsTyped(answer, keys)'
      BY <3>1, <3>2, <3>3, <3>4, Zenon
    <3> QED
      BY <3>5 DEF keys, answer
  <2> QED
    BY <2>1, <2>4 DEF n
<1>4. \A i \in 1..Len(answers) : Start(i) \in Nat /\ answers[i].last \in Nat
  BY DEF AnswersInv
<1> QED
  BY <1>1, <1>2, <1>3, <1>4 DEF AnswersInv

\* An answer that is as typed is added, and a new line begins behind it.
LEMMA AnswerAdded ==
  ASSUME LinesInv, NEW what, NEW line, Answer(what, line),
         typed' = typed, ended' = ended, scenario' = scenario,
         taken' \in Nat, taken <= taken', taken' <= Len(typed),
         AsTyped([prompt |-> Head(prompts), last |-> taken', what |-> what, line |-> line],
                 SubSeq(typed, Since + 1, taken'))
  PROVE  LinesInv'
<1> DEFINE e == [prompt |-> Head(prompts), last |-> taken', what |-> what, line |-> line]
<1>0. PICK k : k = Len(answers) + 1
  OBVIOUS
<1>1. /\ answers' = Append(answers, e) /\ ed' = newLine
      /\ stage' \in {"next", "line", "done"}
  BY DEF Answer, PhraseAnswer, OtherAnswer, Finish, Go, NextPrompt
<1>2. e.last = taken' /\ AsTyped(e, SubSeq(typed, Since + 1, taken'))
  OBVIOUS
<1>3. PICK S : answers \in Seq(S)
  BY DEF LinesInv, AnswersInv
<1> HIDE DEF e
<1>4. \E T : answers' \in Seq(T)
  BY <1>1, <1>3, MoreAnswers
<1>5. /\ Len(answers) \in Nat /\ Len(answers') = k
      /\ \A i \in 1..Len(answers) : answers'[i] = answers[i]
      /\ answers'[k] = e
  <2>1. answers \in Seq(S \cup {e}) /\ e \in S \cup {e}
    BY <1>3, SeqMonotonic
  <2> QED
    BY <1>0, <1>1, <2>1, AppendProperties, LenProperties
<1>6. answers' # <<>> /\ Since' = taken'
  <2>1. Len(<<>>) = 0 /\ k # 0
    BY <1>0, <1>5
  <2>2. answers' # <<>>
    BY <1>5, <2>1
  <2> QED
    BY <1>2, <1>5, <2>2 DEF Since
<1>7. CurrentInv'
  BY <1>1, <1>6, NewLine
<1>8. EventsInv'
  BY DEF LinesInv, EventsInv
<1>9. ASSUME NEW i \in 1..Len(answers)
      PROVE  /\ Start(i)' \in Nat /\ answers'[i].last \in Nat
             /\ answers'[i].last <= taken'
             /\ AsTyped(answers[i], segment(i))'
  <2>1. /\ Start(i) \in Nat /\ answers[i].last \in Nat /\ answers[i].last <= taken
        /\ taken \in Nat /\ AsTyped(answers[i], segment(i))
    BY DEF LinesInv, AnswersInv, EventsInv
  <2>2. answers'[i] = answers[i]
    BY <1>5
  <2>3. i # 1 => answers'[i - 1] = answers[i - 1]
    BY <1>5
  <2>4. Start(i)' = Start(i) /\ segment(i)' = segment(i)
    BY <2>2, <2>3, Zenon DEF Start, segment
  <2>5. AsTyped(answers[i], segment(i))'
    BY <2>1, <2>2, <2>4, Zenon DEF AsTyped
  <2> QED
    BY <2>1, <2>2, <2>4, <2>5
<1>10. /\ Start(k)' \in Nat /\ answers'[k].last \in Nat
       /\ answers'[k].last <= taken'
       /\ AsTyped(answers[k], segment(k))'
  <2>1. Since \in Nat
    BY DEF LinesInv, AnswersInv
  <2>2. Start(k)' = Since /\ (IF k = 1 THEN 1 ELSE answers'[k - 1].last + 1) = Since + 1
    <3>1. CASE Len(answers) = 0
      <4>1. answers = <<>> /\ k = 1
        BY <1>0, <1>3, <3>1, EmptySeq
      <4> QED
        BY <4>1 DEF Start, Since
    <3>2. CASE Len(answers) # 0
      <4>1. answers # <<>> /\ k # 1 /\ k - 1 = Len(answers) /\ Len(answers) \in 1..Len(answers)
        BY <1>0, <1>5, <3>2
      <4>2. answers'[k - 1] = answers[Len(answers)]
        BY <1>5, <4>1
      <4> QED
        BY <4>1, <4>2 DEF Start, Since
    <3> QED
      BY <3>1, <3>2
  <2>3. segment(k)' = SubSeq(typed, Since + 1, taken')
    BY <1>2, <1>5, <2>2 DEF segment
  <2>4. answers'[k] = e
    BY <1>5
  <2>5. AsTyped(answers[k], segment(k))'
    BY <1>2, <2>3, <2>4, Zenon DEF AsTyped
  <2> QED
    BY <1>2, <2>1, <2>2, <2>4, <2>5
<1>11. \A i \in 1..Len(answers') : i \in 1..Len(answers) \/ i = k
  BY <1>0, <1>5
<1>12. AnswersInv'
  BY <1>4, <1>6, <1>9, <1>10, <1>11 DEF AnswersInv
<1> QED
  BY <1>7, <1>8, <1>12 DEF LinesInv

LEMMA CurrentLine ==
  ASSUME LinesInv, stage = "line"
  PROVE  /\ Current \in Seq(scenario.keys) /\ Unended(Current)
         /\ Since \in Nat /\ Since <= taken
         /\ taken \in Nat /\ Len(typed) \in Nat /\ taken <= Len(typed)
         /\ exceeds(Current, Limit[Head(prompts)]) => ed = rejected
         /\ ~exceeds(Current, Limit[Head(prompts)]) =>
              ed = [text |-> meaning(Current), overflow |-> FALSE]
<1>1. /\ typed \in Seq(scenario.keys) /\ Since \in Nat /\ Since <= taken
      /\ taken \in Nat /\ Len(typed) \in Nat /\ taken <= Len(typed)
  BY LenProperties DEF LinesInv, EventsInv, AnswersInv
<1>2. Current \in Seq(scenario.keys)
  <2> DEFINE m == Since + 1
  <2>1. m \in Int /\ taken \in Int /\ \A i \in m..taken : typed[i] \in scenario.keys
    BY <1>1, ElementOfSeq
  <2> HIDE DEF m
  <2>2. SubSeq(typed, m, taken) \in Seq(scenario.keys)
    BY <2>1, SubSeqProperties
  <2> QED
    BY <2>2 DEF Current, m
<1> QED
  BY <1>1, <1>2 DEF LinesInv, CurrentInv

\* The line that is being read is rejected if it was ever too long.
LEMMA LineRead ==
  ASSUME LinesInv, stage = "line"
  PROVE  /\ ed.overflow <=> exceeds(Current, Limit[Head(prompts)])
         /\ ed.overflow => ed.text = <<>>
         /\ ~ed.overflow => ed.text = meaning(Current)
<1>1. rejected.overflow = TRUE /\ rejected.text = <<>>
  BY DEF rejected
<1>2. CASE exceeds(Current, Limit[Head(prompts)])
  BY <1>1, <1>2, CurrentLine
<1>3. CASE ~exceeds(Current, Limit[Head(prompts)])
  <2>1. ed = [text |-> meaning(Current), overflow |-> FALSE]
    BY <1>3, CurrentLine
  <2>2. ed.overflow = FALSE /\ ed.text = meaning(Current)
    BY <2>1
  <2> QED
    BY <1>3, <2>2
<1> QED
  BY <1>2, <1>3

LineSet(S, T) == [text : S, overflow : T]

WithText(line, b) == [line EXCEPT !.text = b]

LEMMA TextOfLine ==
  ASSUME NEW S, NEW T, NEW line \in LineSet(S, T), NEW b \in S
  PROVE  WithText(line, b) = [text |-> b, overflow |-> line.overflow]
BY DEF LineSet, WithText

LEMMA TextReplaced ==
  ASSUME NEW line, NEW a, NEW b, line = [text |-> a, overflow |-> FALSE]
  PROVE  [line EXCEPT !.text = b] = [text |-> b, overflow |-> FALSE]
<1>1. line \in LineSet({a, b}, BOOLEAN) /\ b \in {a, b}
  BY DEF LineSet
<1>2. line.overflow = FALSE
  OBVIOUS
<1>3. WithText(line, b) = [text |-> b, overflow |-> line.overflow]
  BY <1>1, TextOfLine, Zenon
<1> QED
  BY <1>2, <1>3, Zenon DEF WithText

LEMMA LineKeyKeeps == LinesInv /\ LineKey => LinesInv'
<1> SUFFICES ASSUME LinesInv, LineKey PROVE LinesInv'
  OBVIOUS
<1> DEFINE limit == Limit[Head(prompts)]
<1>1. PICK key \in scenario.keys :
        /\ Take(key)
        /\ CASE key[1] = "enter" /\ ed.overflow -> Answer("tooLong", <<>>)
             [] key[1] = "enter" /\ ~ed.overflow -> Answer("line", ed.text)
             [] key[1] \in {"ctrlC", "ctrlD"} -> Answer("interrupted", <<>>)
             [] OTHER -> /\ ed' = edit(ed, key, limit)
                         /\ UNCHANGED <<scenario, plain, prompts, stage, answers, phraseVars,
                                        mode, screen, viewVars, outcome>>
  BY DEF LineKey
<1>2. stage = "line"
  BY DEF LineKey
<1>3. /\ Current \in Seq(scenario.keys) /\ Unended(Current)
      /\ Since \in Nat /\ Since <= taken
      /\ taken \in Nat /\ Len(typed) \in Nat /\ typed \in Seq(scenario.keys)
  BY <1>2, CurrentLine DEF LinesInv, EventsInv
<1>4. /\ typed' = typed /\ ended' = ended /\ taken' = taken + 1 /\ taken < Len(typed)
      /\ key = typed[taken + 1]
  BY <1>1 DEF Take, inputVars
<1>5. /\ ed.overflow <=> exceeds(Current, limit)
      /\ ed.overflow => ed.text = <<>>
      /\ ~ed.overflow => ed.text = meaning(Current)
  BY <1>2, LineRead
<1>6. SubSeq(typed, Since + 1, taken + 1) = Append(Current, key)
  BY <1>3, <1>4, SubSeqLonger DEF Current
<1>7. scenario' = scenario
  BY <1>1 DEF Answer
<1>8. /\ taken' \in Nat /\ taken <= taken' /\ taken' <= Len(typed)
      /\ SubSeq(typed, Since + 1, taken') = Append(Current, key)
  BY <1>3, <1>4, <1>6
<1> HIDE DEF limit
<1>9. ASSUME NEW what, NEW line, Answer(what, line), key[1] \in Enders,
             what \in {"line", "tooLong"} => key[1] = "enter",
             what = "line" => ~exceeds(Current, limit) /\ line = meaning(Current),
             what = "tooLong" => exceeds(Current, limit)
      PROVE  LinesInv'
  <2> DEFINE answer == [prompt |-> Head(prompts), last |-> taken', what |-> what, line |-> line]
  <2>1. answer.prompt = Head(prompts) /\ answer.what = what /\ answer.line = line
    OBVIOUS
  <2> HIDE DEF answer
  <2>2. AsTyped(answer, Append(Current, key))
    BY <1>3, <1>9, <2>1, EndedAsTyped DEF limit
  <2> QED
    BY <1>4, <1>7, <1>8, <1>9, <2>2, AnswerAdded DEF answer
<1>10. CASE key[1] = "enter" /\ ed.overflow
  <2>1. Answer("tooLong", <<>>)
    BY <1>1, <1>10
  <2> QED
    BY <1>5, <1>9, <1>10, <2>1 DEF Enders
<1>11. CASE key[1] = "enter" /\ ~ed.overflow
  <2>1. Answer("line", ed.text)
    BY <1>1, <1>11
  <2> QED
    BY <1>5, <1>9, <1>11, <2>1 DEF Enders
<1>12. CASE key[1] \in {"ctrlC", "ctrlD"}
  <2>1. Answer("interrupted", <<>>)
    BY <1>1, <1>12
  <2> QED
    BY <1>9, <1>12, <2>1 DEF Enders
<1>13. CASE key[1] \notin Enders
  <2>1. /\ ed' = edit(ed, key, limit)
        /\ prompts' = prompts /\ stage' = stage /\ answers' = answers
    BY <1>1, <1>13 DEF Enders
  <2>2. EventsInv'
    BY <1>3, <1>4, <1>7 DEF EventsInv
  <2>3. AnswersInv'
    BY <1>3, <1>4, <1>8, <2>1, AnswersStay DEF LinesInv
  <2>4. Current' = Append(Current, key)
    <3>1. Since' = Since
      BY <2>1 DEF Since
    <3> QED
      BY <1>4, <1>6, <3>1 DEF Current
  <2>5. Unended(Append(Current, key))
    <3>1. /\ DOMAIN Append(Current, key) = 1..(Len(Current) + 1) /\ Len(Current) \in Nat
          /\ DOMAIN Current = 1..Len(Current)
          /\ \A i \in 1..Len(Current) : Append(Current, key)[i] = Current[i]
          /\ Append(Current, key)[Len(Current) + 1] = key
      BY <1>3, AppendProperties, LenProperties
    <3> QED
      BY <1>3, <1>13, <3>1 DEF Unended
  <2>6. ed' = IF exceeds(Append(Current, key), limit) THEN rejected
              ELSE [text |-> meaning(Append(Current, key)), overflow |-> FALSE]
    <3> DEFINE text == edited(ed.text, key)
    <3>1. exceeds(Append(Current, key), limit) <=>
            \/ exceeds(Current, limit)
            \/ key[1] = "inputTooLong"
            \/ Size(edited(meaning(Current), key)) > limit
      BY <1>3, ExceedsAppend
    <3>2. meaning(Append(Current, key)) = edited(meaning(Current), key)
      BY <1>3, MeaningAppend
    <3>3. /\ exceeds(Current, limit) => ed = rejected
          /\ ~exceeds(Current, limit) => ed = [text |-> meaning(Current), overflow |-> FALSE]
      BY <1>2, CurrentLine DEF limit
    <3>4. edit(ed, key, limit) =
            CASE ed.overflow -> ed
              [] ~ed.overflow /\ (key[1] = "inputTooLong" \/ Size(text) > limit) -> rejected
              [] OTHER -> [ed EXCEPT !.text = text]
      BY DEF edit
    <3>5. CASE exceeds(Current, limit)
      <4>1. edit(ed, key, limit) = rejected
        BY <1>5, <3>3, <3>4, <3>5, Zenon
      <4> QED
        BY <2>1, <3>1, <3>5, <4>1, Zenon
    <3>6. CASE ~exceeds(Current, limit)
      <4>1. text = meaning(Append(Current, key)) /\ text = edited(meaning(Current), key)
        BY <1>5, <3>2, <3>6
      <4>2. ed = [text |-> meaning(Current), overflow |-> FALSE]
        BY <3>3, <3>6
      <4> HIDE DEF text
      <4>3. [ed EXCEPT !.text = text] = [text |-> text, overflow |-> FALSE]
        BY <4>2, TextReplaced, Zenon
      <4>4. ~ed.overflow
        BY <1>5, <3>6
      <4>5. CASE key[1] = "inputTooLong" \/ Size(text) > limit
        <5>1. edit(ed, key, limit) = rejected
          BY <3>4, <4>4, <4>5, Zenon
        <5> QED
          BY <2>1, <3>1, <4>1, <4>5, <5>1, Zenon
      <4>6. CASE ~(key[1] = "inputTooLong" \/ Size(text) > limit)
        <5>1. edit(ed, key, limit) = [ed EXCEPT !.text = text]
          BY <3>4, <4>4, <4>6, Zenon
        <5> QED
          BY <2>1, <3>1, <3>6, <4>1, <4>3, <4>6, <5>1, Zenon
      <4> QED
        BY <4>5, <4>6
    <3> QED
      BY <3>5, <3>6
  <2>7. CurrentInv'
    BY <1>2, <2>1, <2>4, <2>5, <2>6 DEF CurrentInv, limit
  <2> QED
    BY <2>2, <2>3, <2>7 DEF LinesInv
<1> QED
  BY <1>10, <1>11, <1>12, <1>13 DEF Enders

LEMMA LineEndKeeps == LinesInv /\ (LineClosed \/ LineCanceled) => LinesInv'
<1> SUFFICES ASSUME LinesInv, LineClosed \/ LineCanceled PROVE LinesInv'
  OBVIOUS
<1> DEFINE limit == Limit[Head(prompts)]
<1>1. stage = "line"
  BY DEF LineClosed, LineCanceled
<1>2. Unended(Current) /\ taken \in Nat /\ taken <= Len(typed)
  BY <1>1, CurrentLine
<1>3. /\ ed.overflow <=> exceeds(Current, limit)
      /\ ed.overflow => ed.text = <<>>
      /\ ~ed.overflow => ed.text = meaning(Current)
  BY <1>1, LineRead
<1>4. /\ typed' = typed /\ ended' = ended /\ taken' = taken
  BY DEF LineClosed, LineCanceled, Closed, Canceled, inputVars
<1>5. ASSUME NEW what, NEW line, Answer(what, line),
             what \in {"line", "tooLong"} => ended = "eof",
             what = "line" => ~exceeds(Current, limit) /\ line = meaning(Current),
             what = "tooLong" => exceeds(Current, limit)
      PROVE  LinesInv'
  <2> DEFINE answer == [prompt |-> Head(prompts), last |-> taken', what |-> what, line |-> line]
  <2>1. answer.prompt = Head(prompts) /\ answer.what = what /\ answer.line = line
    OBVIOUS
  <2> HIDE DEF answer
  <2>2. AsTyped(answer, Current)
    BY <1>2, <1>5, <2>1, UnendedAsTyped
  <2>3. AsTyped(answer, SubSeq(typed, Since + 1, taken'))
    BY <1>4, <2>2 DEF Current
  <2>4. scenario' = scenario /\ taken' \in Nat /\ taken <= taken' /\ taken' <= Len(typed)
    BY <1>2, <1>4, <1>5 DEF Answer
  <2> QED
    BY <1>4, <1>5, <2>3, <2>4, AnswerAdded DEF answer
<1> HIDE DEF limit
<1>6. CASE LineCanceled
  <2>1. Answer("canceled", <<>>)
    BY <1>6 DEF LineCanceled
  <2> QED
    BY <1>5, <2>1
<1>7. CASE LineClosed
  <2>1. CASE ended = "eof" /\ ed.overflow
    <3>1. ~(ed.text # <<>>)
      BY <1>3, <2>1
    <3>2. Answer("tooLong", <<>>)
      BY <1>7, <2>1, <3>1 DEF LineClosed
    <3> QED
      BY <1>3, <1>5, <2>1, <3>2
  <2>2. CASE ended = "eof" /\ ~ed.overflow /\ ed.text # <<>>
    <3>1. Answer("line", ed.text)
      BY <1>7, <2>2 DEF LineClosed
    <3> QED
      BY <1>3, <1>5, <2>2, <3>1
  <2>3. CASE ~(ended = "eof" /\ ed.overflow) /\ ~(ended = "eof" /\ ed.text # <<>>)
    <3>1. \E what : what \in {"canceled", "interrupted"} /\ Answer(what, <<>>)
      BY <1>7, <2>3 DEF LineClosed
    <3> QED
      BY <1>5, <3>1
  <2> QED
    BY <1>3, <2>1, <2>2, <2>3
<1> QED
  BY <1>6, <1>7

\* A prompt begins with an empty line, the viewer never asks for one.
LEMMA OtherStepsKeep ==
  ASSUME LinesInv,
         StartLine \/ Await \/ StartViewer \/ EnterViewer \/ ViewerKey \/ ViewerTick
           \/ ViewerClosed \/ ViewerCanceled \/ WriteNote \/ WriteBody \/ SessionEnds
  PROVE  LinesInv'
<1>1. taken \in Nat /\ Len(typed) \in Nat /\ taken <= Len(typed)
  BY LenProperties DEF LinesInv, EventsInv
<1>2. /\ typed' = typed /\ ended' = ended /\ scenario' = scenario /\ answers' = answers
      /\ taken' = taken \/ (stage = "watch" /\ taken < Len(typed) /\ taken' = taken + 1)
  <2>1. CASE StartLine \/ StartViewer \/ EnterViewer \/ WriteNote \/ WriteBody \/ SessionEnds
    BY <2>1 DEF StartLine, StartViewer, EnterViewer, WriteNote, WriteBody, SessionEnds,
                queueVars, inputVars, promptVars
  <2>2. CASE Await
    BY <2>2 DEF Await, Check, inputVars
  <2>3. CASE ViewerKey
    BY <2>3 DEF ViewerKey, Take, inputVars, promptVars
  <2>4. CASE ViewerTick \/ ViewerClosed \/ ViewerCanceled
    BY <2>4 DEF ViewerTick, ViewerClosed, ViewerCanceled, TakeTick, Closed, Canceled,
                inputVars, promptVars
  <2> QED
    BY <2>1, <2>2, <2>3, <2>4
<1>3. taken' \in Nat /\ taken <= taken' /\ taken' <= Len(typed)
  BY <1>1, <1>2
<1>4. EventsInv'
  BY <1>2, <1>3 DEF LinesInv, EventsInv
<1>5. AnswersInv'
  BY <1>2, <1>3, AnswersStay DEF LinesInv
<1>6. Since' = Since
  BY <1>2 DEF Since
<1>7. CurrentInv'
  <2>1. CASE StartLine
    <3>1. /\ stage = "next" /\ ed' = newLine /\ stage' \in {"line", "done"} /\ taken' = taken
      BY <1>2, <2>1 DEF StartLine, Finish
    <3>2. Since' = taken'
      BY <1>6, <3>1 DEF LinesInv, CurrentInv
    <3> QED
      BY <1>2, <1>3, <3>1, <3>2, NewLine
  <2>2. CASE Await
    <3>1. UNCHANGED <<stage, ed, prompts, taken>> /\ stage \in {"line", "watch"}
      BY <1>2, <2>2 DEF Await, Check
    <3>2. Current' = Current
      BY <1>2, <1>6, <3>1 DEF Current
    <3> QED
      BY <1>6, <3>1, <3>2, Zenon DEF LinesInv, CurrentInv
  <2>3. CASE StartViewer \/ EnterViewer \/ WriteNote \/ WriteBody \/ SessionEnds
    <3>1. stage' \notin {"next", "line"}
      BY <2>3 DEF StartViewer, EnterViewer, WriteNote, WriteBody, SessionEnds, Finish, Go
    <3> QED
      BY <3>1 DEF CurrentInv
  <2>4. CASE ViewerKey \/ ViewerTick
    <3>1. \E key : Gesture(key)
      BY <2>4 DEF ViewerKey, ViewerTick
    <3>2. stage' \notin {"next", "line"}
      BY <3>1 DEF Gesture, Reflow, NextPage, PreviousPage, Stay, Redraw, Go, Finish
    <3> QED
      BY <3>2 DEF CurrentInv
  <2>5. CASE ViewerClosed \/ ViewerCanceled
    <3>1. stage' = "done"
      BY <2>5 DEF ViewerClosed, ViewerCanceled, Finish
    <3> QED
      BY <3>1 DEF CurrentInv
  <2> QED
    BY <2>1, <2>2, <2>3, <2>4, <2>5
<1> QED
  BY <1>4, <1>5, <1>7 DEF LinesInv

\* What is typed ahead comes after the line that is being read.
LEMMA WorldKeeps == LinesInv /\ World => LinesInv'
<1> SUFFICES ASSUME LinesInv, World PROVE LinesInv'
  OBVIOUS
<1>1. /\ typed \in Seq(scenario.keys) /\ taken \in Nat /\ Len(typed) \in Nat
      /\ taken <= Len(typed) /\ Since \in Nat
  BY LenProperties DEF LinesInv, EventsInv, AnswersInv
<1>2. UNCHANGED <<scenario, prompts, stage, ed, answers>>
  BY DEF World, promptVars
<1>3. /\ taken' = taken
      /\ typed' = typed \/ \E key \in scenario.keys : typed' = Append(typed, key)
      /\ ended' = ended \/ ended = "no"
  BY DEF World, Type, InputEnds, Cancel, Resize, inputVars
<1>4. EventsInv'
  <2>1. typed' \in Seq(scenario.keys) /\ Len(typed) <= Len(typed')
    BY <1>1, <1>3, AppendProperties
  <2>2. Len(typed') \in Nat
    BY <2>1, LenProperties
  <2> QED
    BY <1>1, <1>2, <1>3, <2>1, <2>2 DEF EventsInv
<1>5. AnswersInv'
  BY <1>1, <1>2, <1>3, AnswersStay DEF LinesInv
<1>6. Since' = Since
  BY <1>2 DEF Since
<1>7. Current' = Current
  <2>1. CASE typed' = typed
    BY <1>3, <1>6, <2>1 DEF Current
  <2>2. ASSUME NEW key \in scenario.keys, typed' = Append(typed, key) PROVE Current' = Current
    <3>1. SubSeq(Append(typed, key), Since + 1, taken) = SubSeq(typed, Since + 1, taken)
      BY <1>1, SubSeqAppend
    <3> QED
      BY <1>3, <1>6, <2>2, <3>1 DEF Current
  <2> QED
    BY <1>3, <2>1, <2>2
<1>8. CurrentInv'
  BY <1>2, <1>3, <1>6, <1>7, Zenon DEF LinesInv, CurrentInv
<1> QED
  BY <1>4, <1>5, <1>8 DEF LinesInv

\* readLine, ReadPasswordContext, readPhrasePlainLines: whatever is typed ahead,
\* every answer is exactly what was typed for it up to its own Enter, and is
\* refused exactly if it was ever longer than its limit.
THEOREM LinesAsTypedAlways == Spec => []LinesAsTyped
<1>1. Init => LinesInv
  <2> SUFFICES ASSUME Init PROVE LinesInv
    OBVIOUS
  <2>1. typed = <<>> /\ taken = 0 /\ answers = <<>> /\ stage = "next"
    BY DEF Init
  <2>2. typed \in Seq(scenario.keys) /\ Len(typed) = 0 /\ Len(answers) = 0
    BY <2>1, EmptySeq
  <2>3. answers \in Seq({}) /\ 1..Len(answers) = {}
    BY <2>1, <2>2, EmptySeq
  <2>4. Since = 0
    BY <2>1 DEF Since
  <2> QED
    BY <2>1, <2>2, <2>3, <2>4 DEF LinesInv, EventsInv, AnswersInv, CurrentInv
<1>2. LinesInv /\ [Next]_vars => LinesInv'
  <2> SUFFICES ASSUME LinesInv, [Next]_vars PROVE LinesInv'
    OBVIOUS
  <2>1. CASE LineKey
    BY <2>1, LineKeyKeeps
  <2>2. CASE LineClosed \/ LineCanceled
    BY <2>2, LineEndKeeps
  <2>3. CASE StartLine \/ Await \/ StartViewer \/ EnterViewer \/ ViewerKey \/ ViewerTick
               \/ ViewerClosed \/ ViewerCanceled \/ WriteNote \/ WriteBody \/ SessionEnds
    BY <2>3, OtherStepsKeep
  <2>4. CASE World
    BY <2>4, WorldKeeps
  <2>5. CASE UNCHANGED vars
    <3>1. UNCHANGED <<scenario, typed, taken, ended, answers, stage, ed, prompts>>
      BY <2>5 DEF vars, queueVars, inputVars
    <3>2. taken \in Nat
      BY DEF LinesInv, EventsInv
    <3>3. EventsInv'
      BY <3>1 DEF LinesInv, EventsInv
    <3>4. AnswersInv'
      BY <3>1, <3>2, AnswersStay DEF LinesInv
    <3>5. Since' = Since /\ Current' = Current
      BY <3>1 DEF Since, Current
    <3>6. CurrentInv'
      BY <3>1, <3>5, Zenon DEF LinesInv, CurrentInv
    <3> QED
      BY <3>3, <3>4, <3>6 DEF LinesInv
  <2> QED
    BY <2>1, <2>2, <2>3, <2>4, <2>5 DEF Next, Step, Program
<1>3. LinesInv => LinesAsTyped
  <2> SUFFICES ASSUME LinesInv PROVE LinesAsTyped
    OBVIOUS
  <2>1. DOMAIN answers = 1..Len(answers)
    BY LenProperties DEF LinesInv, AnswersInv
  <2> QED
    BY <2>1 DEF LinesInv, AnswersInv, LinesAsTyped
<1> QED
  BY <1>1, <1>2, <1>3, PTL DEF Spec
-----------------------------------------------------------------------------
(* The pages of a text. *)

WalkStep(text, size, walk, at) ==
  IF at[1] = Len(text) \/ at[2] = bodyRows(size) THEN at[1]
  ELSE IF text[at[1] + 1] = Newline THEN walk[<<at[1] + 1, at[2] + 1, 0>>]
  ELSE IF at[3] > 0 /\ at[3] + text[at[1] + 1] > bodyColumns(size) THEN walk[<<at[1], at[2] + 1, 0>>]
  ELSE walk[<<at[1] + 1, at[2], at[3] + text[at[1] + 1]>>]

Points(text) == (0..Len(text)) \X Nat \X Nat

Walks(text, size, walk) == [at \in Points(text) |-> WalkStep(text, size, walk, at)]

\* Every step of the walk goes on to the next token, or to the first column.
Rank(text, at) == 2 * (Len(text) - at[1]) + IF at[3] > 0 THEN 1 ELSE 0

LEMMA RankIs ==
  ASSUME NEW text \in Seq(Nat), NEW at \in Points(text)
  PROVE  /\ at = <<at[1], at[2], at[3]>>
         /\ at[1] \in 0..Len(text) /\ at[2] \in Nat /\ at[3] \in Nat
         /\ Len(text) \in Nat /\ Rank(text, at) \in Nat
         /\ Rank(text, at) <= 2 * Len(text) + 1
<1>1. Len(text) \in Nat /\ at = <<at[1], at[2], at[3]>>
      /\ at[1] \in 0..Len(text) /\ at[2] \in Nat /\ at[3] \in Nat
  BY LenProperties DEF Points
<1>2. Len(text) - at[1] \in Nat /\ Len(text) - at[1] <= Len(text)
  BY <1>1
<1> QED
  BY <1>1, <1>2 DEF Rank

LEMMA RankFalls ==
  ASSUME NEW text \in Seq(Nat), NEW at \in Points(text), at[1] # Len(text)
  PROVE  LET t == text[at[1] + 1] IN
         /\ t \in Nat
         /\ <<at[1] + 1, at[2] + 1, 0>> \in Points(text)
         /\ Rank(text, <<at[1] + 1, at[2] + 1, 0>>) < Rank(text, at)
         /\ <<at[1], at[2] + 1, 0>> \in Points(text)
         /\ at[3] > 0 => Rank(text, <<at[1], at[2] + 1, 0>>) < Rank(text, at)
         /\ <<at[1] + 1, at[2], at[3] + t>> \in Points(text)
         /\ Rank(text, <<at[1] + 1, at[2], at[3] + t>>) < Rank(text, at)
<1> DEFINE t == text[at[1] + 1]
<1>1. /\ at[1] \in 0..Len(text) /\ at[2] \in Nat /\ at[3] \in Nat
      /\ Len(text) \in Nat
  BY RankIs
<1>2. at[1] + 1 \in 1..Len(text)
  BY <1>1
<1>3. t \in Nat
  BY <1>2, ElementOfSeq
<1> HIDE DEF t
<1>4. /\ <<at[1] + 1, at[2] + 1, 0>> \in Points(text)
      /\ <<at[1], at[2] + 1, 0>> \in Points(text)
      /\ <<at[1] + 1, at[2], at[3] + t>> \in Points(text)
  BY <1>1, <1>2, <1>3 DEF Points
<1>5. /\ Rank(text, <<at[1] + 1, at[2] + 1, 0>>) = 2 * (Len(text) - (at[1] + 1))
      /\ Rank(text, <<at[1], at[2] + 1, 0>>) = 2 * (Len(text) - at[1])
  BY <1>1 DEF Rank
<1>6. Rank(text, <<at[1] + 1, at[2], at[3] + t>>) <= 2 * (Len(text) - (at[1] + 1)) + 1
  BY <1>1, <1>3 DEF Rank
<1>7. /\ Rank(text, at) >= 2 * (Len(text) - at[1])
      /\ at[3] > 0 => Rank(text, at) = 2 * (Len(text) - at[1]) + 1
  BY <1>1 DEF Rank
<1>8. Rank(text, at) \in Nat /\ \A p \in Points(text) : Rank(text, p) \in Nat
  BY RankIs
<1>9. /\ 2 * (Len(text) - (at[1] + 1)) + 1 < 2 * (Len(text) - at[1])
      /\ 2 * (Len(text) - (at[1] + 1)) < 2 * (Len(text) - at[1])
  BY <1>1
<1>10. Rank(text, <<at[1] + 1, at[2] + 1, 0>>) < Rank(text, at)
  <2> DEFINE r == Rank(text, <<at[1] + 1, at[2] + 1, 0>>)
  <2>1. r \in Nat
    BY <1>4, <1>8
  <2> HIDE DEF r
  <2>2. r = 2 * (Len(text) - (at[1] + 1))
    BY <1>5 DEF r
  <2>3. r < Rank(text, at)
    BY <1>1, <1>7, <1>8, <1>9, <2>1, <2>2
  <2> QED
    BY <2>3 DEF r
<1>11. at[3] > 0 => Rank(text, <<at[1], at[2] + 1, 0>>) < Rank(text, at)
  BY <1>1, <1>5, <1>7
<1>12. Rank(text, <<at[1] + 1, at[2], at[3] + t>>) < Rank(text, at)
  <2> DEFINE r == Rank(text, <<at[1] + 1, at[2], at[3] + t>>)
  <2>1. r \in Nat
    BY <1>4, <1>8
  <2> HIDE DEF r
  <2>2. r <= 2 * (Len(text) - (at[1] + 1)) + 1
    BY <1>6 DEF r
  <2>3. r < Rank(text, at)
    BY <1>1, <1>7, <1>8, <1>9, <2>1, <2>2
  <2> QED
    BY <2>3 DEF r
<1> QED
  BY <1>3, <1>4, <1>10, <1>11, <1>12, Zenon DEF t

\* A step only looks at points of lower rank.
LEMMA WalkStepLooksDown ==
  ASSUME NEW text \in Seq(Nat), NEW size, NEW at \in Points(text), NEW f, NEW g,
         \A p \in Points(text) : Rank(text, p) < Rank(text, at) => f[p] = g[p]
  PROVE  WalkStep(text, size, f, at) = WalkStep(text, size, g, at)
<1>1. CASE at[1] = Len(text)
  BY <1>1, Zenon DEF WalkStep
<1>2. CASE at[1] # Len(text)
  <2> DEFINE t == text[at[1] + 1]
             down == <<at[1] + 1, at[2] + 1, 0>>
             wrap == <<at[1], at[2] + 1, 0>>
             on == <<at[1] + 1, at[2], at[3] + t>>
  <2>1. /\ f[down] = g[down] /\ f[on] = g[on]
        /\ at[3] > 0 => f[wrap] = g[wrap]
    BY <1>2, RankFalls
  <2>2. \A h : WalkStep(text, size, h, at) =
           IF at[1] = Len(text) \/ at[2] = bodyRows(size) THEN at[1]
           ELSE IF t = Newline THEN h[down]
           ELSE IF at[3] > 0 /\ at[3] + t > bodyColumns(size) THEN h[wrap]
           ELSE h[on]
    BY Zenon DEF WalkStep
  <2> HIDE DEF t, down, wrap, on
  <2> QED
    BY <2>1, <2>2
<1> QED
  BY <1>1, <1>2

LEMMA WalksExist ==
  ASSUME NEW text \in Seq(Nat), NEW size
  PROVE  \E walk : walk = Walks(text, size, walk)
<1> DEFINE Good(f, m) ==
             \A at \in Points(text) : Rank(text, at) < m => f[at] = WalkStep(text, size, f, at)
           S == {m \in Nat : \E f : Good(f, m)}
<1>1. 0 \in S
  <2>1. \A at \in Points(text) : ~(Rank(text, at) < 0)
    BY RankIs
  <2>2. \A f : Good(f, 0)
    BY <2>1
  <2> HIDE DEF Good
  <2> QED
    BY <2>2
<1>2. ASSUME NEW m \in Nat, m \in S PROVE m + 1 \in S
  <2>1. PICK f : Good(f, m)
    BY <1>2
  <2> DEFINE g == [at \in Points(text) |->
                     IF Rank(text, at) < m THEN f[at] ELSE WalkStep(text, size, f, at)]
  <2>2. ASSUME NEW at \in Points(text), Rank(text, at) < m + 1
        PROVE  g[at] = WalkStep(text, size, g, at)
    <3>1. Rank(text, at) \in Nat
      BY RankIs
    <3>2. g[at] = WalkStep(text, size, f, at)
      BY <2>1
    <3>3. \A p \in Points(text) : Rank(text, p) < Rank(text, at) => f[p] = g[p]
      <4>1. ASSUME NEW p \in Points(text), Rank(text, p) < Rank(text, at) PROVE f[p] = g[p]
        <5>1. Rank(text, p) \in Nat
          BY RankIs
        <5>2. Rank(text, p) < m
          BY <2>2, <3>1, <4>1, <5>1
        <5> QED
          BY <5>2
      <4> QED
        BY <4>1
    <3> HIDE DEF g
    <3>4. WalkStep(text, size, f, at) = WalkStep(text, size, g, at)
      BY <3>3, WalkStepLooksDown
    <3> QED
      BY <3>2, <3>4
  <2> HIDE DEF g
  <2>3. Good(g, m + 1)
    BY <2>2
  <2> HIDE DEF Good
  <2> QED
    BY <2>3
<1> HIDE DEF S
<1>3. Nat \subseteq S
  BY <1>1, <1>2, SetInduction
<1>4. 2 * Len(text) + 2 \in Nat
  BY LenProperties
<1>5. PICK f : Good(f, 2 * Len(text) + 2)
  <2>1. 2 * Len(text) + 2 \in S
    BY <1>3, <1>4
  <2> QED
    BY <2>1 DEF S
<1> DEFINE walk == [at \in Points(text) |-> f[at]]
<1>6. \A at \in Points(text) : walk[at] = f[at]
  OBVIOUS
<1>7. ASSUME NEW at \in Points(text) PROVE walk[at] = WalkStep(text, size, walk, at)
  <2>1. Rank(text, at) < 2 * Len(text) + 2
    BY RankIs
  <2>2. f[at] = WalkStep(text, size, f, at)
    BY <1>5, <2>1
  <2> HIDE DEF walk
  <2>3. WalkStep(text, size, f, at) = WalkStep(text, size, walk, at)
    BY <1>6, WalkStepLooksDown
  <2> QED
    BY <1>6, <2>2, <2>3
<1>8. walk = [at \in Points(text) |-> walk[at]]
  OBVIOUS
<1> HIDE DEF walk
<1>9. walk = Walks(text, size, walk)
  BY <1>7, <1>8 DEF Walks
<1> QED
  BY <1>9

IsWalk(walk, text, size) ==
  /\ \A at \in Points(text) : walk[at] = WalkStep(text, size, walk, at)
  /\ \A n : viewerPageEnd(text, n, size) = walk[<<n, 0, 0>>]

LEMMA WalkLoop ==
  ASSUME NEW text \in Seq(Nat), NEW size
  PROVE  \E walk : IsWalk(walk, text, size)
<1>1. \E walk : walk = Walks(text, size, walk)
  BY WalksExist
<1> DEFINE walk == CHOOSE walk : walk = Walks(text, size, walk)
<1>2. walk = Walks(text, size, walk)
  BY <1>1
<1>3. \A n : viewerPageEnd(text, n, size) = walk[<<n, 0, 0>>]
  BY DEF viewerPageEnd, Walks, WalkStep, Points
<1> HIDE DEF walk
<1>4. \A at \in Points(text) : walk[at] = WalkStep(text, size, walk, at)
  BY <1>2 DEF Walks
<1> QED
  BY <1>3, <1>4 DEF IsWalk

\* What the walk makes of a point is within the text, and behind a token if there is one.
LEMMA PageEnds ==
  ASSUME NEW text \in Seq(Nat), NEW size \in Nat \X Nat, viewerFrameFits(size),
         NEW start \in 0..Len(text)
  PROVE  /\ viewerPageEnd(text, start, size) \in start..Len(text)
         /\ start < Len(text) => viewerPageEnd(text, start, size) > start
<1>1. PICK walk : IsWalk(walk, text, size)
  BY WalkLoop
<1>0. /\ \A p \in Points(text) : walk[p] = WalkStep(text, size, walk, p)
      /\ \A n : viewerPageEnd(text, n, size) = walk[<<n, 0, 0>>]
  BY <1>1 DEF IsWalk
<1> DEFINE Good(m) == \A at \in Points(text) : Rank(text, at) < m => walk[at] \in at[1]..Len(text)
           S == {m \in Nat : Good(m)}
<1>2. 0 \in S
  <2>1. \A at \in Points(text) : ~(Rank(text, at) < 0)
    BY RankIs
  <2> QED
    BY <2>1
<1>3. ASSUME NEW m \in Nat, m \in S PROVE m + 1 \in S
  <2>1. ASSUME NEW at \in Points(text), Rank(text, at) < m + 1
        PROVE  walk[at] \in at[1]..Len(text)
    <3> DEFINE t == text[at[1] + 1]
               down == <<at[1] + 1, at[2] + 1, 0>>
               wrap == <<at[1], at[2] + 1, 0>>
               on == <<at[1] + 1, at[2], at[3] + t>>
    <3>1. Rank(text, at) \in Nat /\ at[1] \in 0..Len(text) /\ Len(text) \in Nat
      BY RankIs
    <3>2. walk[at] = IF at[1] = Len(text) \/ at[2] = bodyRows(size) THEN at[1]
                     ELSE IF t = Newline THEN walk[down]
                     ELSE IF at[3] > 0 /\ at[3] + t > bodyColumns(size) THEN walk[wrap]
                     ELSE walk[on]
      BY <1>0, Zenon DEF WalkStep
    <3>3. down[1] = at[1] + 1 /\ wrap[1] = at[1] /\ on[1] = at[1] + 1
      OBVIOUS
    <3>4. CASE at[1] = Len(text)
      BY <3>1, <3>2, <3>4
    <3>5. CASE at[1] # Len(text)
      <4>1. /\ down \in Points(text) /\ Rank(text, down) < Rank(text, at)
            /\ wrap \in Points(text) /\ (at[3] > 0 => Rank(text, wrap) < Rank(text, at))
            /\ on \in Points(text) /\ Rank(text, on) < Rank(text, at)
        BY <3>5, RankFalls
      <4> HIDE DEF t, down, wrap, on
      <4>2. \A p \in Points(text) : Rank(text, p) < Rank(text, at) => Rank(text, p) < m
        <5>1. ASSUME NEW p \in Points(text), Rank(text, p) < Rank(text, at) PROVE Rank(text, p) < m
          <6>1. Rank(text, p) \in Nat
            BY RankIs
          <6> QED
            BY <2>1, <3>1, <5>1, <6>1
        <5> QED
          BY <5>1
      <4>3. /\ walk[down] \in down[1]..Len(text) /\ walk[on] \in on[1]..Len(text)
            /\ at[3] > 0 => walk[wrap] \in wrap[1]..Len(text)
        BY <1>3, <4>1, <4>2
      <4>4. /\ walk[down] \in at[1]..Len(text) /\ walk[on] \in at[1]..Len(text)
            /\ at[3] > 0 => walk[wrap] \in at[1]..Len(text)
        <5>1. /\ down[1] = at[1] + 1 /\ wrap[1] = at[1] /\ on[1] = at[1] + 1
          BY <3>3
        <5> QED
          BY <3>1, <4>3, <5>1
      <4>5. at[1] \in at[1]..Len(text)
        BY <3>1
      <4> QED
        BY <3>2, <4>4, <4>5, Zenon
    <3> QED
      BY <3>4, <3>5
  <2> QED
    BY <2>1
<1> HIDE DEF S
<1>4. Nat \subseteq S
  BY <1>2, <1>3, SetInduction
<1>5. \A at \in Points(text) : walk[at] \in at[1]..Len(text)
  <2>1. ASSUME NEW at \in Points(text) PROVE walk[at] \in at[1]..Len(text)
    <3>1. Rank(text, at) \in Nat /\ Rank(text, at) < Rank(text, at) + 1
      BY RankIs
    <3>2. Rank(text, at) + 1 \in S
      BY <1>4, <3>1
    <3> QED
      BY <3>1, <3>2 DEF S
  <2> QED
    BY <2>1
<1> DEFINE at == <<start, 0, 0>>
           t == text[start + 1]
           down == <<start + 1, 1, 0>>
           on == <<start + 1, 0, t>>
<1>6. at \in Points(text) /\ at[1] = start /\ at[2] = 0 /\ at[3] = 0
  BY LenProperties DEF Points
<1>7. walk[at] \in start..Len(text)
  BY <1>5, <1>6
<1>8. CASE start < Len(text)
  <2>1. bodyRows(size) # 0 /\ at[1] # Len(text) /\ ~(at[3] > 0)
    BY <1>6, <1>8, LenProperties DEF viewerFrameFits, bodyRows, FrameRows
  <2>2. walk[at] = WalkStep(text, size, walk, at)
    BY <1>0, <1>6
  <2>3. walk[at] = IF t = Newline THEN walk[<<at[1] + 1, at[2] + 1, 0>>]
                   ELSE walk[<<at[1] + 1, at[2], at[3] + t>>]
    BY <1>6, <2>1, <2>2 DEF WalkStep
  <2>4. t \in Nat /\ start \in Nat /\ Len(text) \in Nat
    <3>1. start + 1 \in 1..Len(text) /\ Len(text) \in Nat
      BY <1>8, LenProperties
    <3> QED
      BY <3>1, ElementOfSeq
  <2>5. walk[at] = IF t = Newline THEN walk[down] ELSE walk[on]
    <3>1. at[1] + 1 = start + 1 /\ at[2] + 1 = 1 /\ at[3] + t = t /\ at[2] = 0
      BY <1>6, <2>4
    <3>2. down = <<at[1] + 1, at[2] + 1, 0>> /\ on = <<at[1] + 1, at[2], at[3] + t>>
      BY <3>1
    <3> HIDE DEF at, t, down, on
    <3> QED
      BY <2>3, <3>2, Zenon
  <2>6. down \in Points(text) /\ on \in Points(text)
    BY <1>8, <2>4 DEF Points
  <2>7. down[1] = start + 1 /\ on[1] = start + 1
    OBVIOUS
  <2>8. walk[down] \in (start + 1)..Len(text) /\ walk[on] \in (start + 1)..Len(text)
    BY <1>5, <2>6, <2>7
  <2> HIDE DEF down, on, at
  <2>9. walk[at] > start
    BY <2>4, <2>5, <2>8
  <2> QED
    BY <1>0, <1>7, <2>9 DEF at
<1> QED
  BY <1>0, <1>7, <1>8

\* The layout behind each of the first m tokens of a page.
Layouts(tokens, size, at, m) ==
  [n \in 0..m |-> IF n = 0 THEN top ELSE written(at[n - 1], tokens[n], size)]

LEMMA LayoutsExist ==
  ASSUME NEW tokens, NEW size
  PROVE  \A m \in Nat : \E at : at = Layouts(tokens, size, at, m)
<1> DEFINE S == {m \in Nat : \E at : at = Layouts(tokens, size, at, m)}
<1>1. 0 \in S
  <2> DEFINE at == [n \in 0..0 |-> top]
  <2>1. at = Layouts(tokens, size, at, 0)
    BY DEF Layouts
  <2> QED
    BY <2>1
<1>2. ASSUME NEW m \in Nat, m \in S PROVE m + 1 \in S
  <2>1. PICK at : at = Layouts(tokens, size, at, m)
    BY <1>2
  <2> DEFINE more == [n \in 0..(m + 1) |->
                        IF n <= m THEN at[n] ELSE written(at[n - 1], tokens[n], size)]
  <2>2. \A n \in 0..m : at[n] = IF n = 0 THEN top ELSE written(at[n - 1], tokens[n], size)
    <3> TAKE n \in 0..m
    <3> QED
      BY <2>1 DEF Layouts
  <2>3. \A n \in 0..m : more[n] = at[n]
    OBVIOUS
  <2>4. \A n \in 0..(m + 1) : n # 0 => n - 1 \in 0..m /\ more[n - 1] = at[n - 1]
    BY <2>3
  <2>5. \A n \in 0..(m + 1) :
          more[n] = IF n = 0 THEN top ELSE written(more[n - 1], tokens[n], size)
    <3> TAKE n \in 0..(m + 1)
    <3>1. CASE n <= m
      <4>1. n \in 0..m /\ more[n] = at[n]
        BY <2>3, <3>1
      <4> QED
        BY <2>2, <2>4, <4>1
    <3>2. CASE ~(n <= m)
      <4>1. more[n] = written(at[n - 1], tokens[n], size)
        BY <3>2
      <4> QED
        BY <2>4, <3>2, <4>1
    <3> QED
      BY <3>1, <3>2
  <2>6. more = Layouts(tokens, size, more, m + 1)
    <3>1. more = [n \in 0..(m + 1) |-> more[n]]
      OBVIOUS
    <3> HIDE DEF more
    <3> QED
      BY <2>5, <3>1 DEF Layouts
  <2> QED
    BY <2>6
<1>3. Nat \subseteq S
  <2> HIDE DEF S
  <2> QED
    BY <1>1, <1>2, SetInduction
<1> QED
  BY <1>3

LEMMA LayoutLoop ==
  ASSUME NEW tokens, NEW size, Len(tokens) \in Nat
  PROVE  \E at :
           /\ \A n \in 0..Len(tokens) :
                at[n] = IF n = 0 THEN top ELSE written(at[n - 1], tokens[n], size)
           /\ layout(tokens, size) = at[Len(tokens)]
<1>1. \E at : at = Layouts(tokens, size, at, Len(tokens))
  BY LayoutsExist
<1> DEFINE at == CHOOSE at : at = Layouts(tokens, size, at, Len(tokens))
<1>2. at = Layouts(tokens, size, at, Len(tokens))
  BY <1>1
<1>3. layout(tokens, size) = at[Len(tokens)]
  BY DEF layout, Layouts
<1>4. \A n \in 0..Len(tokens) : at[n] = IF n = 0 THEN top ELSE written(at[n - 1], tokens[n], size)
  <2> TAKE n \in 0..Len(tokens)
  <2> HIDE DEF at
  <2> QED
    BY <1>2 DEF Layouts
<1> QED
  BY <1>3, <1>4

LEMMA NothingLaidOut ==
  ASSUME NEW size
  PROVE  layout(<<>>, size) = top
<1>1. Len(<<>>) = 0 /\ Len(<<>>) \in Nat
  OBVIOUS
<1>2. PICK at :
        /\ \A n \in 0..Len(<<>>) :
             at[n] = IF n = 0 THEN top ELSE written(at[n - 1], <<>>[n], size)
        /\ layout(<<>>, size) = at[Len(<<>>)]
  BY <1>1, LayoutLoop
<1>3. 0 \in 0..Len(<<>>)
  BY <1>1
<1>4. at[0] = top
  BY <1>2, <1>3
<1> QED
  BY <1>1, <1>2, <1>4

LEMMA LayoutAppend ==
  ASSUME NEW S, NEW tokens \in Seq(S), NEW t \in S, NEW size
  PROVE  layout(Append(tokens, t), size) = written(layout(tokens, size), t, size)
<1> DEFINE more == Append(tokens, t)
<1>1. /\ Len(tokens) \in Nat /\ Len(more) = Len(tokens) + 1
      /\ \A n \in 1..Len(tokens) : more[n] = tokens[n]
      /\ more[Len(tokens) + 1] = t
  BY AppendProperties, LenProperties
<1>2. Len(more) \in Nat
  BY <1>1
<1> HIDE DEF more
<1>3. PICK at :
        /\ \A n \in 0..Len(tokens) :
             at[n] = IF n = 0 THEN top ELSE written(at[n - 1], tokens[n], size)
        /\ layout(tokens, size) = at[Len(tokens)]
  BY <1>1, LayoutLoop
<1>4. PICK longer :
        /\ \A n \in 0..Len(more) :
             longer[n] = IF n = 0 THEN top ELSE written(longer[n - 1], more[n], size)
        /\ layout(more, size) = longer[Len(more)]
  BY <1>2, LayoutLoop
<1> DEFINE A == {n \in Nat : n <= Len(tokens) => longer[n] = at[n]}
<1>5. 0 \in A
  BY <1>1, <1>2, <1>3, <1>4
<1>6. ASSUME NEW n \in Nat, n \in A PROVE n + 1 \in A
  <2> SUFFICES ASSUME n + 1 <= Len(tokens) PROVE longer[n + 1] = at[n + 1]
    OBVIOUS
  <2>1. /\ n + 1 \in 0..Len(tokens) /\ n + 1 \in 0..Len(more) /\ n + 1 # 0 /\ (n + 1) - 1 = n
        /\ n + 1 \in 1..Len(tokens) /\ n <= Len(tokens)
    BY <1>1
  <2>2. longer[n] = at[n] /\ more[n + 1] = tokens[n + 1]
    BY <1>1, <1>6, <2>1
  <2>3. longer[n + 1] = written(longer[n], more[n + 1], size) /\ at[n + 1] = written(at[n], tokens[n + 1], size)
    BY <1>3, <1>4, <2>1
  <2> QED
    BY <2>2, <2>3
<1>7. Nat \subseteq A
  <2> HIDE DEF A
  <2> QED
    BY <1>5, <1>6, SetInduction
<1>8. longer[Len(tokens)] = at[Len(tokens)]
  BY <1>1, <1>7
<1>9. longer[Len(more)] = written(longer[Len(tokens)], t, size)
  <2>1. Len(more) \in 0..Len(more) /\ Len(more) # 0 /\ Len(more) - 1 = Len(tokens)
    BY <1>1
  <2> QED
    BY <1>1, <1>4, <2>1
<1> QED
  BY <1>3, <1>4, <1>8, <1>9 DEF more

\* A token is written in the row of the cursor, or begins the next one.
Layout == [row : Nat, column : Nat, lastRow : Nat, lastColumn : Nat]

LEMMA TokenWritten ==
  ASSUME NEW at \in Layout, NEW t \in Nat, NEW size \in Nat \X Nat
  PROVE  LET w == written(at, t, size)
             wraps == at.column > 0 /\ at.column + t > bodyColumns(size)
         IN  /\ w \in Layout
             /\ t = Newline =>
                  /\ w.row = at.row + 1 /\ w.column = 0 /\ w.lastRow = at.lastRow
                  /\ w.lastColumn = at.lastColumn
             /\ t # Newline /\ wraps =>
                  /\ w.row = at.row + 1 /\ w.column = t /\ w.lastRow = at.row + 1
                  /\ w.lastColumn \in {at.lastColumn, t}
             /\ t # Newline /\ ~wraps =>
                  /\ w.row = at.row /\ w.column = at.column + t /\ w.lastRow = at.row
                  /\ w.lastColumn \in {at.lastColumn, at.column + t}
<1> DEFINE wraps == at.column > 0 /\ at.column + t > bodyColumns(size)
           row == at.row + IF t = Newline \/ wraps THEN 1 ELSE 0
           column == CASE t = Newline -> 0 [] t # Newline /\ wraps -> t [] OTHER -> at.column + t
           lastRow == IF t = Newline THEN at.lastRow ELSE row
           lastColumn == IF column > at.lastColumn THEN column ELSE at.lastColumn
<1>1. written(at, t, size) =
        [row |-> row, column |-> column, lastRow |-> lastRow, lastColumn |-> lastColumn]
  BY DEF written
<1>2. at.row \in Nat /\ at.column \in Nat /\ at.lastRow \in Nat /\ at.lastColumn \in Nat
  BY DEF Layout
<1>3. row \in Nat /\ column \in Nat /\ lastRow \in Nat /\ lastColumn \in Nat
  BY <1>2 DEF Newline
<1>4. /\ t = Newline => row = at.row + 1 /\ column = 0 /\ lastRow = at.lastRow
                        /\ lastColumn = at.lastColumn
      /\ t # Newline /\ wraps =>
           /\ row = at.row + 1 /\ column = t /\ lastRow = at.row + 1
           /\ lastColumn \in {at.lastColumn, t}
      /\ t # Newline /\ ~wraps =>
           /\ row = at.row /\ column = at.column + t /\ lastRow = at.row
           /\ lastColumn \in {at.lastColumn, at.column + t}
  BY <1>2 DEF Newline
<1> HIDE DEF row, column, lastRow, lastColumn
<1>5. /\ written(at, t, size) \in Layout
      /\ written(at, t, size).row = row /\ written(at, t, size).column = column
      /\ written(at, t, size).lastRow = lastRow /\ written(at, t, size).lastColumn = lastColumn
  BY <1>1, <1>3 DEF Layout
<1> HIDE DEF wraps
<1> QED
  BY <1>4, <1>5 DEF wraps

\* Where the walk is and what the page up to there looks like. Behind a token
\* that did not fit, the cursor is still in the row before.
Reached(text, size, start, at) ==
  LET tokens == SubSeq(text, start + 1, at[1])
      l == layout(tokens, size)
      t == text[at[1] + 1]
  IN  /\ start <= at[1] /\ at[2] <= bodyRows(size)
      /\ l \in Layout /\ l.lastRow <= bodyRows(size) /\ l.lastColumn <= bodyColumns(size)
      /\ \/ l.row = at[2] + 1 /\ l.column = at[3]
         \/ /\ at[1] < Len(text) /\ t # Newline /\ at[3] = 0 /\ l.row = at[2]
            /\ l.column > 0 /\ l.column + t > bodyColumns(size)

LEMMA PagesAppend ==
  ASSUME NEW text \in Seq(Nat), NEW size, NEW start \in Nat, NEW o \in Nat, start <= o, o < Len(text)
  PROVE  /\ text[o + 1] \in Nat
         /\ layout(SubSeq(text, start + 1, o + 1), size) =
              written(layout(SubSeq(text, start + 1, o), size), text[o + 1], size)
<1> DEFINE tokens == SubSeq(text, start + 1, o)
<1>1. /\ tokens \in Seq(Nat) /\ text[o + 1] \in Nat
      /\ SubSeq(text, start + 1, o + 1) = Append(tokens, text[o + 1])
  BY SubSeqLonger
<1> HIDE DEF tokens
<1>2. layout(Append(tokens, text[o + 1]), size) = written(layout(tokens, size), text[o + 1], size)
  BY <1>1, LayoutAppend
<1> QED
  BY <1>1, <1>2 DEF tokens

Fitting(text, size) ==
  /\ text \in Seq(Nat) /\ size \in Nat \X Nat /\ viewerFrameFits(size)
  /\ \A i \in DOMAIN text : text[i] <= LabelColumns

LEMMA WalkGoesOn ==
  ASSUME NEW text, NEW size, Fitting(text, size), NEW start \in Nat,
         NEW at \in Points(text), Reached(text, size, start, at),
         at[1] # Len(text), at[2] # bodyRows(size)
  PROVE  LET t == text[at[1] + 1] IN
         /\ t = Newline => Reached(text, size, start, <<at[1] + 1, at[2] + 1, 0>>)
         /\ t # Newline /\ at[3] > 0 /\ at[3] + t > bodyColumns(size) =>
              Reached(text, size, start, <<at[1], at[2] + 1, 0>>)
         /\ t # Newline /\ ~(at[3] > 0 /\ at[3] + t > bodyColumns(size)) =>
              Reached(text, size, start, <<at[1] + 1, at[2], at[3] + t>>)
<1> DEFINE o == at[1]
           row == at[2]
           column == at[3]
           t == text[o + 1]
           l == layout(SubSeq(text, start + 1, o), size)
           w == layout(SubSeq(text, start + 1, o + 1), size)
           rows == bodyRows(size)
           columns == bodyColumns(size)
<1>1. /\ o \in Nat /\ row \in Nat /\ column \in Nat /\ o < Len(text) /\ Len(text) \in Nat
      /\ o + 1 \in DOMAIN text
  <2>1. text \in Seq(Nat)
    BY DEF Fitting
  <2> QED
    BY <2>1, RankIs, LenProperties
<1>2. /\ start <= o /\ row <= rows /\ row # rows
      /\ l \in Layout /\ l.lastRow <= rows /\ l.lastColumn <= columns
      /\ \/ l.row = row + 1 /\ l.column = column
         \/ /\ t # Newline /\ column = 0 /\ l.row = row
            /\ l.column > 0 /\ l.column + t > columns
  BY DEF Reached
<1>3. t \in Nat /\ w = written(l, t, size)
  BY <1>1, <1>2, PagesAppend DEF Fitting
<1>4. rows \in Int /\ columns \in Int /\ LabelColumns \in Nat /\ t <= LabelColumns /\ LabelColumns <= columns
  <2>1. text[o + 1] <= LabelColumns
    BY <1>1 DEF Fitting
  <2>2. /\ size[1] \in Nat /\ size[2] \in Nat /\ bodyColumns(size) >= LabelColumns
    BY DEF Fitting, viewerFrameFits
  <2> QED
    BY <2>1, <2>2, LabelsAssumption DEF bodyRows, bodyColumns, FrameRows
<1> HIDE DEF t, l, w, rows, columns
<1>5. /\ w \in Layout
      /\ t = Newline =>
           /\ w.row = l.row + 1 /\ w.column = 0 /\ w.lastRow = l.lastRow
           /\ w.lastColumn = l.lastColumn
      /\ t # Newline /\ (l.column > 0 /\ l.column + t > columns) =>
           /\ w.row = l.row + 1 /\ w.column = t /\ w.lastRow = l.row + 1
           /\ w.lastColumn \in {l.lastColumn, t}
      /\ t # Newline /\ ~(l.column > 0 /\ l.column + t > columns) =>
           /\ w.row = l.row /\ w.column = l.column + t /\ w.lastRow = l.row
           /\ w.lastColumn \in {l.lastColumn, l.column + t}
  <2>1. l \in Layout /\ t \in Nat /\ size \in Nat \X Nat
    BY <1>2, <1>3 DEF Fitting
  <2> QED
    BY <1>3, <2>1, TokenWritten DEF columns
<1>6. /\ l.row \in Nat /\ l.column \in Nat /\ l.lastRow \in Nat /\ l.lastColumn \in Nat
      /\ w.row \in Nat /\ w.column \in Nat /\ w.lastRow \in Nat /\ w.lastColumn \in Nat
  BY <1>2, <1>5 DEF Layout
<1>7. ASSUME NEW r, NEW c,
             r <= rows, w.lastRow <= rows, w.lastColumn <= columns, w.row = r + 1, w.column = c
      PROVE  Reached(text, size, start, <<o + 1, r, c>>)
  <2> DEFINE p == <<o + 1, r, c>>
  <2>1. p[1] = o + 1 /\ p[2] = r /\ p[3] = c /\ start <= o + 1
    BY <1>1, <1>2
  <2>2. w = layout(SubSeq(text, start + 1, p[1]), size)
    BY <2>1 DEF w
  <2> HIDE DEF p
  <2>3. Reached(text, size, start, p)
    BY <1>5, <1>7, <2>1, <2>2 DEF Reached, rows, columns
  <2> QED
    BY <2>3 DEF p
<1>8. CASE t = Newline
  <2>1. l.row = row + 1 /\ row + 1 <= rows
    BY <1>1, <1>2, <1>4, <1>8
  <2>2. Reached(text, size, start, <<o + 1, row + 1, 0>>)
    BY <1>2, <1>5, <1>7, <1>8, <2>1
  <2> QED
    BY <1>8, <2>2 DEF t
<1>9. CASE t # Newline /\ column > 0 /\ column + t > columns
  <2> DEFINE p == <<o, row + 1, 0>>
  <2>1. /\ p[1] = o /\ p[2] = row + 1 /\ p[3] = 0 /\ row + 1 <= rows
        /\ l.row = row + 1 /\ l.column = column
    BY <1>1, <1>2, <1>4, <1>9
  <2>2. l = layout(SubSeq(text, start + 1, p[1]), size) /\ t = text[p[1] + 1]
    BY <2>1 DEF l, t
  <2> HIDE DEF p
  <2>3. Reached(text, size, start, p)
    BY <1>1, <1>2, <1>9, <2>1, <2>2 DEF Reached, rows, columns
  <2> QED
    BY <1>9, <2>3 DEF p, t, columns
<1>10. CASE t # Newline /\ ~(column > 0 /\ column + t > columns)
  <2>1. row + 1 <= rows
    BY <1>1, <1>2, <1>4
  <2>2. CASE l.row = row + 1 /\ l.column = column
    <3>1. column + t <= columns
      BY <1>1, <1>3, <1>4, <1>10
    <3>2. w.row = row + 1 /\ w.column = column + t /\ w.lastRow <= rows /\ w.lastColumn <= columns
      BY <1>2, <1>5, <1>10, <2>1, <2>2, <3>1
    <3>3. Reached(text, size, start, <<o + 1, row, column + t>>)
      BY <1>2, <1>7, <3>2
    <3> QED
      BY <1>10, <3>3 DEF t, columns
  <2>3. CASE column = 0 /\ l.row = row /\ l.column > 0 /\ l.column + t > columns
    <3>1. column + t = t /\ t <= columns
      BY <1>1, <1>3, <1>4, <2>3
    <3>2. w.row = row + 1 /\ w.column = column + t /\ w.lastRow <= rows /\ w.lastColumn <= columns
      BY <1>2, <1>5, <1>10, <2>1, <2>3, <3>1
    <3>3. Reached(text, size, start, <<o + 1, row, column + t>>)
      BY <1>2, <1>7, <3>2
    <3> QED
      BY <1>10, <3>3 DEF t, columns
  <2> QED
    BY <1>2, <2>2, <2>3
<1> QED
  BY <1>8, <1>9, <1>10

LEMMA ReachedFits ==
  ASSUME NEW text, NEW size, Fitting(text, size), NEW start \in Nat,
         NEW at \in Points(text), Reached(text, size, start, at)
  PROVE  fitsBody(SubSeq(text, start + 1, at[1]), size)
<1> DEFINE l == layout(SubSeq(text, start + 1, at[1]), size)
           rows == bodyRows(size)
<1>1. rows \in Int /\ at[2] \in Nat
  BY RankIs DEF Fitting, bodyRows, FrameRows
<1>2. /\ at[2] <= rows /\ l \in Layout /\ l.lastRow <= rows /\ l.lastColumn <= bodyColumns(size)
      /\ l.row = at[2] + 1 \/ l.row = at[2]
  BY DEF Reached
<1> HIDE DEF l, rows
<1>3. l.row <= rows + 1
  BY <1>1, <1>2
<1> QED
  BY <1>2, <1>3 DEF fitsBody, l, rows

\* viewerPageEnd, writeViewerPage: a page never leaves the body of the frame.
LEMMA PageFits ==
  ASSUME NEW text, NEW size, Fitting(text, size), NEW start \in 0..Len(text)
  PROVE  fitsBody(SubSeq(text, start + 1, viewerPageEnd(text, start, size)), size)
<1>1. text \in Seq(Nat) /\ start \in Nat /\ Len(text) \in Nat
  <2>1. text \in Seq(Nat)
    BY DEF Fitting
  <2> QED
    BY <2>1, LenProperties
<1>2. PICK walk : IsWalk(walk, text, size)
  BY <1>1, WalkLoop
<1>3. /\ \A p \in Points(text) : walk[p] = WalkStep(text, size, walk, p)
      /\ \A n : viewerPageEnd(text, n, size) = walk[<<n, 0, 0>>]
  BY <1>2 DEF IsWalk
<1> DEFINE Fits(at) == fitsBody(SubSeq(text, start + 1, walk[at]), size)
           Good(m) == \A at \in Points(text) :
                        Rank(text, at) < m /\ Reached(text, size, start, at) => Fits(at)
           S == {m \in Nat : Good(m)}
<1>4. 0 \in S
  <2>1. \A at \in Points(text) : ~(Rank(text, at) < 0)
    BY <1>1, RankIs
  <2> QED
    BY <2>1
<1>5. ASSUME NEW m \in Nat, m \in S PROVE m + 1 \in S
  <2>1. ASSUME NEW at \in Points(text), Rank(text, at) < m + 1, Reached(text, size, start, at)
        PROVE  Fits(at)
    <3> DEFINE t == text[at[1] + 1]
               down == <<at[1] + 1, at[2] + 1, 0>>
               wrap == <<at[1], at[2] + 1, 0>>
               on == <<at[1] + 1, at[2], at[3] + t>>
    <3>1. Rank(text, at) \in Nat
      BY <1>1, RankIs
    <3>2. walk[at] = IF at[1] = Len(text) \/ at[2] = bodyRows(size) THEN at[1]
                     ELSE IF t = Newline THEN walk[down]
                     ELSE IF at[3] > 0 /\ at[3] + t > bodyColumns(size) THEN walk[wrap]
                     ELSE walk[on]
      BY <1>3, Zenon DEF WalkStep
    <3>3. CASE at[1] = Len(text) \/ at[2] = bodyRows(size)
      <4>1. walk[at] = at[1]
        BY <3>2, <3>3
      <4>2. fitsBody(SubSeq(text, start + 1, at[1]), size)
        BY <1>1, <2>1, ReachedFits
      <4> QED
        BY <4>1, <4>2
    <3>4. CASE at[1] # Len(text) /\ at[2] # bodyRows(size)
      <4>1. /\ down \in Points(text) /\ Rank(text, down) < Rank(text, at)
            /\ wrap \in Points(text) /\ (at[3] > 0 => Rank(text, wrap) < Rank(text, at))
            /\ on \in Points(text) /\ Rank(text, on) < Rank(text, at)
        BY <1>1, <3>4, RankFalls
      <4>2. /\ t = Newline => Reached(text, size, start, down)
            /\ t # Newline /\ at[3] > 0 /\ at[3] + t > bodyColumns(size) =>
                 Reached(text, size, start, wrap)
            /\ t # Newline /\ ~(at[3] > 0 /\ at[3] + t > bodyColumns(size)) =>
                 Reached(text, size, start, on)
        BY <1>1, <2>1, <3>4, WalkGoesOn
      <4> HIDE DEF t, down, wrap, on, Fits
      <4>3. ASSUME NEW p \in Points(text), Rank(text, p) < Rank(text, at), Reached(text, size, start, p)
            PROVE  Fits(p)
        <5>1. Rank(text, p) \in Nat
          BY <1>1, RankIs
        <5>2. Rank(text, p) < m
          BY <2>1, <3>1, <4>3, <5>1
        <5> QED
          BY <1>5, <4>3, <5>2
      <4>4. \A p : walk[at] = walk[p] /\ Fits(p) => Fits(at)
        BY Zenon DEF Fits
      <4>5. CASE t = Newline
        <5>1. walk[at] = walk[down] /\ Fits(down)
          BY <3>2, <3>4, <4>1, <4>2, <4>3, <4>5
        <5> QED
          BY <4>4, <5>1
      <4>6. CASE t # Newline /\ at[3] > 0 /\ at[3] + t > bodyColumns(size)
        <5>1. walk[at] = walk[wrap] /\ Fits(wrap)
          BY <3>2, <3>4, <4>1, <4>2, <4>3, <4>6
        <5> QED
          BY <4>4, <5>1
      <4>7. CASE t # Newline /\ ~(at[3] > 0 /\ at[3] + t > bodyColumns(size))
        <5>1. walk[at] = walk[on] /\ Fits(on)
          BY <3>2, <3>4, <4>1, <4>2, <4>3, <4>7
        <5> QED
          BY <4>4, <5>1
      <4> QED
        BY <4>5, <4>6, <4>7
    <3> QED
      BY <3>3, <3>4
  <2> HIDE DEF Fits
  <2>2. Good(m + 1)
    BY <2>1
  <2> QED
    BY <2>2
<1> HIDE DEF S
<1>6. Nat \subseteq S
  BY <1>4, <1>5, SetInduction
<1> DEFINE at == <<start, 0, 0>>
<1>7. at \in Points(text) /\ at[1] = start /\ at[2] = 0 /\ at[3] = 0
  BY <1>1 DEF Points
<1>8. Reached(text, size, start, at)
  <2>1. SubSeq(text, start + 1, start) = <<>>
    BY <1>1, NothingTaken
  <2>2. layout(SubSeq(text, start + 1, at[1]), size) = top
    BY <1>7, <2>1, NothingLaidOut
  <2>3. top \in Layout /\ top.lastRow = 0 /\ top.lastColumn = 0 /\ top.row = 1 /\ top.column = 0
    BY DEF top, Layout
  <2>4. 0 <= bodyRows(size) /\ 0 <= bodyColumns(size)
    <3>1. size[1] \in Nat /\ size[2] \in Nat /\ size[2] > 4 /\ size[1] - 1 >= LabelColumns
      BY DEF Fitting, viewerFrameFits, bodyColumns, FrameRows
    <3> QED
      BY <3>1, LabelsAssumption DEF bodyRows, bodyColumns, FrameRows
  <2> HIDE DEF at
  <2>5. start <= at[1] /\ 0 + 1 = 1
    BY <1>1, <1>7
  <2> QED
    BY <1>7, <2>2, <2>3, <2>4, <2>5 DEF Reached
<1>9. Rank(text, at) \in Nat
  BY <1>1, <1>7, RankIs
<1>10. Good(Rank(text, at) + 1)
  <2>1. Rank(text, at) + 1 \in S
    BY <1>6, <1>9
  <2> QED
    BY <2>1 DEF S
<1>11. Fits(at)
  <2> HIDE DEF at, Fits
  <2>1. Rank(text, at) < Rank(text, at) + 1
    BY <1>9
  <2> QED
    BY <1>7, <1>8, <1>10, <2>1
<1> QED
  BY <1>3, <1>11

\* Where the first page and the m pages behind it start.
Starts(text, size, start, m) ==
  [n \in 0..m |-> IF n = 0 THEN 0 ELSE viewerPageEnd(text, start[n - 1], size)]

LEMMA StartsExist ==
  ASSUME NEW text, NEW size
  PROVE  \A m \in Nat : \E start : start = Starts(text, size, start, m)
<1> DEFINE S == {m \in Nat : \E start : start = Starts(text, size, start, m)}
<1>1. 0 \in S
  <2> DEFINE start == [n \in 0..0 |-> 0]
  <2>1. start = Starts(text, size, start, 0)
    BY DEF Starts
  <2> QED
    BY <2>1
<1>2. ASSUME NEW m \in Nat, m \in S PROVE m + 1 \in S
  <2>1. PICK start : start = Starts(text, size, start, m)
    BY <1>2
  <2> DEFINE more == [n \in 0..(m + 1) |->
                        IF n <= m THEN start[n] ELSE viewerPageEnd(text, start[n - 1], size)]
  <2>2. \A n \in 0..m : start[n] = IF n = 0 THEN 0 ELSE viewerPageEnd(text, start[n - 1], size)
    <3> TAKE n \in 0..m
    <3> QED
      BY <2>1 DEF Starts
  <2>3. \A n \in 0..m : more[n] = start[n]
    OBVIOUS
  <2>4. \A n \in 0..(m + 1) : n # 0 => n - 1 \in 0..m /\ more[n - 1] = start[n - 1]
    BY <2>3
  <2>5. \A n \in 0..(m + 1) :
          more[n] = IF n = 0 THEN 0 ELSE viewerPageEnd(text, more[n - 1], size)
    <3> TAKE n \in 0..(m + 1)
    <3>1. CASE n <= m
      <4>1. n \in 0..m /\ more[n] = start[n]
        BY <2>3, <3>1
      <4> QED
        BY <2>2, <2>4, <4>1
    <3>2. CASE ~(n <= m)
      <4>1. more[n] = viewerPageEnd(text, start[n - 1], size)
        BY <3>2
      <4> QED
        BY <2>4, <3>2, <4>1
    <3> QED
      BY <3>1, <3>2
  <2>6. more = Starts(text, size, more, m + 1)
    <3>1. more = [n \in 0..(m + 1) |-> more[n]]
      OBVIOUS
    <3> HIDE DEF more
    <3> QED
      BY <2>5, <3>1 DEF Starts
  <2> QED
    BY <2>6
<1>3. Nat \subseteq S
  <2> HIDE DEF S
  <2> QED
    BY <1>1, <1>2, SetInduction
<1> QED
  BY <1>3

LEMMA PageStarts ==
  ASSUME NEW text, NEW size, Fitting(text, size)
  PROVE  /\ pageStart(text, size)[0] = 0
         /\ \A n \in 0..Len(text) :
              /\ pageStart(text, size)[n] \in 0..Len(text)
              /\ pageStart(text, size)[n] < Len(text) => n <= pageStart(text, size)[n]
              /\ n # 0 => pageStart(text, size)[n] =
                            viewerPageEnd(text, pageStart(text, size)[n - 1], size)
<1> DEFINE start == pageStart(text, size)
<1>1. /\ text \in Seq(Nat) /\ size \in Nat \X Nat /\ viewerFrameFits(size)
      /\ Len(text) \in Nat
  <2>1. text \in Seq(Nat)
    BY DEF Fitting
  <2> QED
    BY <2>1, LenProperties DEF Fitting
<1>2. start = Starts(text, size, start, Len(text))
  <2>1. \E s : s = Starts(text, size, s, Len(text))
    BY <1>1, StartsExist
  <2> DEFINE s == CHOOSE s : s = Starts(text, size, s, Len(text))
  <2>2. s = Starts(text, size, s, Len(text))
    BY <2>1
  <2>3. start = s
    BY DEF pageStart, Starts
  <2> HIDE DEF s, start
  <2> QED
    BY <2>2, <2>3
<1> HIDE DEF start
<1>3. \A n \in 0..Len(text) :
        start[n] = IF n = 0 THEN 0 ELSE viewerPageEnd(text, start[n - 1], size)
  <2> TAKE n \in 0..Len(text)
  <2> QED
    BY <1>2 DEF Starts
<1> DEFINE S == {n \in Nat : n <= Len(text) =>
                   start[n] \in 0..Len(text) /\ (start[n] < Len(text) => n <= start[n])}
<1>4. 0 \in S
  <2>1. start[0] = 0
    BY <1>1, <1>3
  <2> QED
    BY <1>1, <2>1
<1>5. ASSUME NEW n \in Nat, n \in S PROVE n + 1 \in S
  <2> SUFFICES ASSUME n + 1 <= Len(text)
               PROVE  /\ start[n + 1] \in 0..Len(text)
                      /\ start[n + 1] < Len(text) => n + 1 <= start[n + 1]
    OBVIOUS
  <2>1. n + 1 \in 0..Len(text) /\ n + 1 # 0 /\ (n + 1) - 1 = n /\ n <= Len(text)
    BY <1>1
  <2>2. start[n + 1] = viewerPageEnd(text, start[n], size)
    BY <1>3, <2>1
  <2>3. start[n] \in 0..Len(text) /\ (start[n] < Len(text) => n <= start[n])
    BY <1>5, <2>1
  <2>4. /\ start[n + 1] \in start[n]..Len(text)
        /\ start[n] < Len(text) => start[n + 1] > start[n]
    BY <1>1, <2>2, <2>3, PageEnds
  <2> QED
    BY <1>1, <2>3, <2>4
<1> HIDE DEF S
<1>6. Nat \subseteq S
  BY <1>4, <1>5, SetInduction
<1>7. start[0] = 0
  BY <1>1, <1>3
<1>8. ASSUME NEW n \in 0..Len(text)
      PROVE  /\ start[n] \in 0..Len(text) /\ (start[n] < Len(text) => n <= start[n])
             /\ n # 0 => start[n] = viewerPageEnd(text, start[n - 1], size)
  <2>1. n \in Nat /\ n <= Len(text)
    BY <1>1
  <2>2. n \in S
    BY <1>6, <2>1
  <2> QED
    BY <1>3, <2>1, <2>2 DEF S
<1> QED
  BY <1>7, <1>8 DEF start

\* The pages up to one are chained, and the last of them starts within the text.
Chained(text, size, starts) ==
  /\ starts \in Seq(Nat) /\ starts # <<>> /\ starts[1] = 0
  /\ \A i \in 2..Len(starts) : starts[i] = viewerPageEnd(text, starts[i - 1], size)
  /\ \A i \in 1..Len(starts) :
       starts[i] <= Len(text) /\ (text # <<>> => starts[i] < Len(text))

\* viewerPageStartsAt: the pages that a resize leaves do not go beyond the
\* text that was at the top of the screen.
LEMMA StartsAt ==
  ASSUME NEW text, NEW size, Fitting(text, size), NEW target \in Nat
  PROVE  LET starts == viewerPageStartsAt(text, target, size) IN
         /\ Chained(text, size, starts)
         /\ starts[Len(starts)] <= target
<1> DEFINE start == pageStart(text, size)
           end(n) == viewerPageEnd(text, start[n], size)
           stops(n) == end(n) >= Len(text) \/ end(n) > target
           S == {n \in 0..Len(text) : stops(n)}
           last == CHOOSE n \in 0..Len(text) : stops(n) /\ \A m \in 0..(n - 1) : ~stops(m)
<1>1. /\ text \in Seq(Nat) /\ size \in Nat \X Nat /\ viewerFrameFits(size)
      /\ Len(text) \in Nat
  <2>1. text \in Seq(Nat)
    BY DEF Fitting
  <2> QED
    BY <2>1, LenProperties DEF Fitting
<1>2. /\ start[0] = 0
      /\ \A n \in 0..Len(text) :
           /\ start[n] \in 0..Len(text)
           /\ start[n] < Len(text) => n <= start[n]
           /\ n # 0 => start[n] = viewerPageEnd(text, start[n - 1], size)
  BY PageStarts
<1> HIDE DEF start
<1>3. \A n \in 0..Len(text) : end(n) \in start[n]..Len(text)
  BY <1>1, <1>2, PageEnds
<1>4. viewerPageStartsAt(text, target, size) = [i \in 1..(last + 1) |-> start[i - 1]]
  BY DEF viewerPageStartsAt, start
<1> HIDE DEF end
<1>5. S \subseteq Nat /\ S # {}
  <2>1. Len(text) \in 0..Len(text)
    BY <1>1
  <2>2. start[Len(text)] \in 0..Len(text) /\ ~(start[Len(text)] < Len(text))
    BY <1>1, <1>2, <2>1
  <2>3. end(Len(text)) >= Len(text)
    BY <1>1, <1>3, <2>1, <2>2
  <2> QED
    BY <1>1, <2>1, <2>3
<1>6. PICK k \in S : \A n \in S : k <= n
  <2> HIDE DEF S
  <2> QED
    BY <1>5, LeastNumber
<1>7. k \in 0..Len(text) /\ stops(k) /\ \A m \in 0..(k - 1) : ~stops(m)
  BY <1>1, <1>6
<1> HIDE DEF S, stops
<1>8. last \in 0..Len(text) /\ stops(last) /\ \A m \in 0..(last - 1) : ~stops(m)
  BY <1>7
<1> HIDE DEF last
<1> DEFINE starts == [i \in 1..(last + 1) |-> start[i - 1]]
<1>9. \A i \in 1..(last + 1) : i - 1 \in 0..Len(text) /\ starts[i] = start[i - 1] /\ starts[i] \in Nat
  BY <1>1, <1>2, <1>8
<1>10. starts \in Seq(Nat) /\ Len(starts) = last + 1 /\ starts # <<>>
  <2>1. last + 1 \in Nat /\ starts \in [1..(last + 1) -> Nat]
    <3>1. last + 1 \in Nat
      BY <1>1, <1>8
    <3>2. \A i \in 1..(last + 1) : start[i - 1] \in Nat
      BY <1>9
    <3> QED
      BY <3>1, <3>2
  <2>2. starts \in Seq(Nat)
    BY <2>1, SeqDef
  <2>3. Len(starts) = last + 1
    BY <2>1, <2>2, LenProperties
  <2> HIDE DEF starts
  <2> QED
    BY <1>8, <2>2, <2>3, EmptySeq
<1> HIDE DEF starts
<1>11. starts[1] = 0
  BY <1>2, <1>8, <1>9
<1>12. ASSUME NEW i \in 2..Len(starts)
       PROVE  /\ starts[i] = viewerPageEnd(text, starts[i - 1], size)
              /\ starts[i] < Len(text) /\ starts[i] <= target
  <2>1. /\ i \in 1..(last + 1) /\ i - 1 \in 1..(last + 1) /\ i - 1 \in 0..Len(text)
        /\ (i - 1) - 1 \in 0..(last - 1) /\ (i - 1) - 1 \in 0..Len(text) /\ i - 1 # 0
    BY <1>1, <1>8, <1>10
  <2>2. starts[i] = start[i - 1] /\ starts[i - 1] = start[(i - 1) - 1]
    BY <1>9, <2>1
  <2>3. start[i - 1] = end((i - 1) - 1)
    BY <1>2, <2>1 DEF end
  <2>4. ~stops((i - 1) - 1) /\ end((i - 1) - 1) \in Nat
    <3> DEFINE j == (i - 1) - 1
    <3>1. j \in 0..(last - 1) /\ j \in 0..Len(text)
      BY <2>1
    <3> HIDE DEF j
    <3>2. ~stops(j)
      BY <1>8, <3>1
    <3>3. start[j] \in 0..Len(text) /\ end(j) \in start[j]..Len(text)
      BY <1>2, <1>3, <3>1
    <3>4. end(j) \in Nat
      BY <1>1, <3>3
    <3> QED
      BY <3>2, <3>4 DEF j
  <2>5. starts[i] < Len(text) /\ starts[i] <= target
    BY <1>1, <2>2, <2>3, <2>4 DEF stops
  <2> QED
    BY <2>2, <2>3, <2>5 DEF end
<1>13. Len(starts) \in Nat /\ Len(starts) >= 1
  BY <1>8, <1>10
<1>14. text # <<>> => 0 < Len(text)
  BY <1>1, EmptySeq
<1>15. \A i \in 1..Len(starts) :
         starts[i] <= Len(text) /\ (text # <<>> => starts[i] < Len(text))
  <2> TAKE i \in 1..Len(starts)
  <2>1. CASE i = 1
    BY <1>1, <1>11, <1>14, <2>1
  <2>2. CASE i # 1
    <3>1. i \in 2..Len(starts)
      BY <1>13, <2>2
    <3>2. starts[i] \in Nat /\ starts[i] < Len(text)
      BY <1>9, <1>10, <1>12, <3>1
    <3> QED
      BY <1>1, <3>2
  <2> QED
    BY <2>1, <2>2
<1>16. starts[Len(starts)] <= target
  <2>1. CASE Len(starts) = 1
    BY <1>11, <2>1
  <2>2. CASE Len(starts) # 1
    <3>1. Len(starts) \in 2..Len(starts)
      BY <1>13, <2>2
    <3> QED
      BY <1>12, <3>1
  <2> QED
    BY <2>1, <2>2
<1>17. Chained(text, size, starts)
  BY <1>10, <1>11, <1>12, <1>15 DEF Chained
<1> QED
  BY <1>4, <1>16, <1>17 DEF starts
-----------------------------------------------------------------------------
(* What the user has read. *)

\* The pages known are those of the window they were made for, and all that is
\* before the page on the screen has been in view.
Read(w) ==
  /\ w.size \in Nat \X Nat /\ viewerFrameFits(w.size)
  /\ Chained(scenario.text, w.size, w.starts)
  /\ w.page \in 1..Len(w.starts)
  /\ passed(w) \subseteq viewed

ViewInv ==
  /\ scenario \in Scenarios /\ win \in scenario.sizes
  /\ screen = "alternate" => stage = "watch"
  /\ stage \in {"enter", "watch"} => Read(view)

LEMMA ScenarioFacts ==
  ASSUME scenario \in Scenarios
  PROVE  /\ scenario.text \in Seq(Nat) /\ Len(scenario.text) \in Nat
         /\ scenario.sizes \subseteq Nat \X Nat
         /\ \A size \in Nat \X Nat : viewerFrameFits(size) => Fitting(scenario.text, size)
<1>1. scenario \in ScenarioType /\ \A i \in DOMAIN scenario.text : scenario.text[i] <= LabelColumns
  BY ScenariosAssumption
<1>2. scenario.text \in Seq(Nat) /\ scenario.sizes \subseteq Nat \X Nat
  BY <1>1 DEF ScenarioType
<1> QED
  BY <1>1, <1>2, LenProperties DEF Fitting

\* Where the page on the screen starts and ends.
LEMMA PageOnScreen ==
  ASSUME scenario \in Scenarios, NEW w, Read(w)
  PROVE  LET start == w.starts[w.page]
             end == viewerPageEnd(scenario.text, start, w.size)
         IN  /\ Fitting(scenario.text, w.size)
             /\ start \in 0..Len(scenario.text) /\ end \in start..Len(scenario.text)
             /\ start < Len(scenario.text) => end > start
             /\ passed(w) = 1..start
             /\ shown(w) = (start + 1)..end
             /\ scenario.text # <<>> => start < Len(scenario.text)
<1> DEFINE text == scenario.text
           start == w.starts[w.page]
           end == viewerPageEnd(text, start, w.size)
<1>1. /\ text \in Seq(Nat) /\ Len(text) \in Nat /\ Fitting(text, w.size)
      /\ w.size \in Nat \X Nat /\ viewerFrameFits(w.size)
  BY ScenarioFacts DEF Read
<1>2. /\ start \in Nat /\ start <= Len(text) /\ (text # <<>> => start < Len(text))
  <2>1. w.starts \in Seq(Nat) /\ w.page \in 1..Len(w.starts)
    BY DEF Read, Chained
  <2>2. start \in Nat
    BY <2>1, ElementOfSeq
  <2> QED
    BY <2>1, <2>2 DEF Read, Chained
<1>3. page(w) = SubSeq(text, start + 1, end)
  BY DEF page
<1>4. passed(w) = 1..start
  BY DEF passed
<1>5. shown(w) = (start + 1)..(start + Len(page(w)))
  BY DEF shown
<1> HIDE DEF start
<1>6. end \in start..Len(text) /\ (start < Len(text) => end > start)
  BY <1>1, <1>2, PageEnds
<1> HIDE DEF end, text
<1>7. Len(SubSeq(text, start + 1, end)) = end - start
  <2> DEFINE m == start + 1
  <2>1. m \in Int /\ end \in Int /\ \A i \in m..end : text[i] \in Nat
    <3>1. \A i \in m..end : i \in 1..Len(text)
      BY <1>1, <1>2, <1>6
    <3> QED
      BY <1>1, <1>2, <1>6, <3>1, ElementOfSeq
  <2>2. (m <= end => end - m + 1 = end - start) /\ (~(m <= end) => end - start = 0)
    BY <1>1, <1>2, <1>6
  <2> HIDE DEF m
  <2>3. Len(SubSeq(text, m, end)) = IF m <= end THEN end - m + 1 ELSE 0
    BY <2>1, SubSeqProperties
  <2> QED
    BY <2>2, <2>3 DEF m
<1>8. start + (end - start) = end
  BY <1>1, <1>2, <1>6
<1>9. shown(w) = (start + 1)..end
  BY <1>3, <1>5, <1>7, <1>8
<1> QED
  BY <1>1, <1>2, <1>4, <1>6, <1>9 DEF start, end, text

LEMMA ReadIsOnScreen == ViewInv => PagesAreRead
<1> SUFFICES ASSUME ViewInv, screen = "alternate"
             PROVE  /\ passed(view) \subseteq viewed
                    /\ fitsBody(page(view), view.size)
                    /\ scenario.text # <<>> => shown(view) # {}
                    /\ \A i \in 2..Len(view.starts) :
                         view.starts[i] = viewerPageEnd(scenario.text, view.starts[i - 1], view.size)
  BY DEF PagesAreRead
<1> DEFINE start == view.starts[view.page]
           end == viewerPageEnd(scenario.text, start, view.size)
<1>1. scenario \in Scenarios /\ Read(view)
  BY DEF ViewInv
<1>2. /\ Fitting(scenario.text, view.size)
      /\ start \in 0..Len(scenario.text) /\ end \in start..Len(scenario.text)
      /\ start < Len(scenario.text) => end > start
      /\ shown(view) = (start + 1)..end
      /\ scenario.text # <<>> => start < Len(scenario.text)
      /\ Len(scenario.text) \in Nat
  BY <1>1, PageOnScreen, ScenarioFacts
<1>3. page(view) = SubSeq(scenario.text, start + 1, end)
  BY DEF page
<1> HIDE DEF start
<1>4. fitsBody(page(view), view.size)
  BY <1>2, <1>3, PageFits
<1> HIDE DEF end
<1>5. ASSUME scenario.text # <<>> PROVE shown(view) # {}
  <2>1. start + 1 \in (start + 1)..end
    BY <1>2, <1>5
  <2> QED
    BY <1>2, <2>1
<1> QED
  BY <1>1, <1>4, <1>5 DEF Read, Chained

LEMMA RedrawReads ==
  ASSUME scenario' = scenario, NEW size \in Nat \X Nat, viewerFrameFits(size),
         NEW starts, Chained(scenario.text, size, starts), NEW number \in 1..Len(starts),
         Redraw(size, starts, number), 1..starts[number] \subseteq viewed'
  PROVE  Read(view)'
<1>1. view'.size = size /\ view'.starts = starts /\ view'.page = number
  BY DEF Redraw
<1>2. passed(view)' = 1..starts[number]
  BY <1>1 DEF passed
<1> QED
  BY <1>1, <1>2, Zenon DEF Read

LEMMA NextPageReads ==
  ASSUME ViewInv, stage = "watch", Looked, win = view.size, scenario' = scenario, NextPage
  PROVE  Read(view)'
<1> DEFINE text == scenario.text
           start == view.starts[view.page]
           end == viewerPageEnd(text, start, view.size)
           more == IF view.page = Len(view.starts) THEN Append(view.starts, end) ELSE view.starts
<1>1. /\ scenario \in Scenarios /\ Read(view)
      /\ viewed' = viewed \cup shown(view)
  BY DEF ViewInv, Looked
<1>2. /\ start \in 0..Len(text) /\ end \in start..Len(text) /\ Len(text) \in Nat
      /\ passed(view) = 1..start /\ shown(view) = (start + 1)..end
      /\ text # <<>> => start < Len(text)
  BY <1>1, PageOnScreen, ScenarioFacts
<1>3. /\ view.size \in Nat \X Nat /\ viewerFrameFits(view.size)
      /\ Chained(text, view.size, view.starts) /\ view.page \in 1..Len(view.starts)
      /\ 1..start \subseteq viewed
  BY <1>1, <1>2 DEF Read
<1> HIDE DEF text
<1>4. 1..end \subseteq viewed'
  <2> HIDE DEF start, end
  <2>1. ASSUME NEW i \in 1..end PROVE i \in viewed'
    <3>1. i \in 1..start \/ i \in (start + 1)..end
      BY <1>2
    <3> QED
      BY <1>1, <1>2, <1>3, <3>1
  <2> QED
    BY <2>1
<1>5. CASE end >= Len(text)
  <2>1. view' = view
    BY <1>5 DEF NextPage, Stay, text
  <2>2. passed(view)' = passed(view)
    BY <2>1 DEF passed
  <2> QED
    BY <1>1, <2>1, <2>2, Zenon DEF Read
<1>6. CASE ~(end >= Len(text))
  <2>1. Redraw(view.size, more, view.page + 1)
    BY <1>6 DEF NextPage, text
  <2>2. /\ view.starts \in Seq(Nat) /\ view.starts # <<>> /\ view.starts[1] = 0
        /\ \A i \in 2..Len(view.starts) :
             view.starts[i] = viewerPageEnd(text, view.starts[i - 1], view.size)
        /\ \A i \in 1..Len(view.starts) :
             view.starts[i] <= Len(text) /\ (text # <<>> => view.starts[i] < Len(text))
        /\ Len(view.starts) \in Nat
    BY <1>3, LenProperties DEF Chained
  <2>3. /\ Chained(text, view.size, more) /\ view.page + 1 \in 1..Len(more)
        /\ more[view.page + 1] = end
    <3>1. CASE view.page = Len(view.starts)
      <4>1. end \in Nat /\ end < Len(text) /\ more = Append(view.starts, end)
        BY <1>2, <1>6, <3>1
      <4>2. start = view.starts[Len(view.starts)]
        BY <3>1
      <4>3. end = viewerPageEnd(text, view.starts[Len(view.starts)], view.size)
        BY <4>2
      <4> HIDE DEF start, end, more
      <4>4. /\ more \in Seq(Nat) /\ Len(more) = Len(view.starts) + 1
            /\ \A i \in 1..Len(view.starts) : more[i] = view.starts[i]
            /\ more[Len(view.starts) + 1] = end
        BY <2>2, <4>1, AppendProperties
      <4>5. Len(view.starts) >= 1
        BY <1>3, <2>2
      <4>6. more # <<>> /\ more[1] = 0
        BY <2>2, <4>4, <4>5, EmptySeq
      <4>7. ASSUME NEW i \in 2..Len(more)
            PROVE  more[i] = viewerPageEnd(text, more[i - 1], view.size)
        <5>1. i - 1 \in 1..Len(view.starts) /\ more[i - 1] = view.starts[i - 1]
          BY <2>2, <4>4
        <5>2. CASE i = Len(view.starts) + 1
          <6>1. i - 1 = Len(view.starts)
            BY <2>2, <5>2
          <6> QED
            BY <4>3, <4>4, <5>1, <5>2, <6>1
        <5>3. CASE i # Len(view.starts) + 1
          <6>1. i \in 2..Len(view.starts) /\ i \in 1..Len(view.starts)
            BY <2>2, <4>4, <5>3
          <6> QED
            BY <2>2, <4>4, <5>1, <6>1
        <5> QED
          BY <5>2, <5>3
      <4>8. ASSUME NEW i \in 1..Len(more)
            PROVE  more[i] <= Len(text) /\ (text # <<>> => more[i] < Len(text))
        <5>1. CASE i = Len(view.starts) + 1
          BY <1>2, <4>1, <4>4, <5>1
        <5>2. CASE i # Len(view.starts) + 1
          <6>1. i \in 1..Len(view.starts)
            BY <2>2, <4>4, <5>2
          <6> QED
            BY <2>2, <4>4, <6>1
        <5> QED
          BY <5>1, <5>2
      <4>9. view.page + 1 \in 1..Len(more) /\ more[view.page + 1] = end
        BY <2>2, <3>1, <4>4
      <4> QED
        BY <4>4, <4>6, <4>7, <4>8, <4>9 DEF Chained
    <3>2. CASE view.page # Len(view.starts)
      <4>1. more = view.starts
        BY <3>2
      <4>2. view.page + 1 \in 2..Len(view.starts) /\ (view.page + 1) - 1 = view.page
        BY <1>3, <2>2, <3>2
      <4>3. view.starts[view.page + 1] = end
        BY <2>2, <4>2
      <4> HIDE DEF more, start, end
      <4> QED
        BY <1>3, <2>2, <4>1, <4>2, <4>3
    <3> QED
      BY <3>1, <3>2
  <2>4. scenario' = scenario /\ scenario.text = text
    BY DEF text
  <2> HIDE DEF more, end, start
  <2> QED
    BY <1>3, <1>4, <2>1, <2>3, <2>4, RedrawReads
<1> QED
  BY <1>5, <1>6

LEMMA PreviousPageReads ==
  ASSUME ViewInv, stage = "watch", Looked, scenario' = scenario, PreviousPage
  PROVE  Read(view)'
<1> DEFINE text == scenario.text
           starts == view.starts
           before == starts[view.page - 1]
           start == starts[view.page]
<1>1. scenario \in Scenarios /\ Read(view) /\ viewed \subseteq viewed'
  BY DEF ViewInv, Looked
<1>2. /\ view.size \in Nat \X Nat /\ viewerFrameFits(view.size)
      /\ Chained(text, view.size, starts) /\ view.page \in 1..Len(starts)
      /\ Len(starts) \in Nat /\ 1..start \subseteq viewed
  BY <1>1, LenProperties DEF Read, Chained, passed
<1>3. CASE view.page = 1
  <2>1. view' = view
    BY <1>3 DEF PreviousPage, Stay
  <2>2. passed(view)' = passed(view)
    BY <2>1 DEF passed
  <2> QED
    BY <1>1, <2>1, <2>2, Zenon DEF Read
<1>4. CASE view.page # 1
  <2>1. Redraw(view.size, starts, view.page - 1)
    BY <1>4 DEF PreviousPage
  <2>2. view.page \in 2..Len(starts) /\ view.page - 1 \in 1..Len(starts)
    BY <1>2, <1>4
  <2>3. before \in Nat /\ before <= Len(text) /\ start = viewerPageEnd(text, before, view.size)
    BY <1>2, <2>2, ElementOfSeq DEF Chained
  <2>4. text \in Seq(Nat) /\ Len(text) \in Nat
    BY <1>1, ScenarioFacts
  <2> HIDE DEF text, start, before
  <2>5. start \in before..Len(text)
    <3>1. before \in 0..Len(text)
      BY <2>3, <2>4
    <3> QED
      BY <1>2, <2>3, <2>4, <3>1, PageEnds
  <2>6. 1..before \subseteq viewed'
    <3>1. ASSUME NEW i \in 1..before PROVE i \in 1..start
      BY <2>3, <2>4, <2>5
    <3> QED
      BY <1>1, <1>2, <3>1
  <2> HIDE DEF starts
  <2>7. Read(view)'
    BY <1>2, <2>1, <2>2, <2>6, RedrawReads DEF text, before
  <2> QED
    BY <2>7
<1> QED
  BY <1>3, <1>4

LEMMA ReflowReads ==
  ASSUME ViewInv, stage = "watch", Looked, scenario' = scenario, Reflow, viewerFrameFits(win)
  PROVE  Read(view)'
<1> DEFINE text == scenario.text
           target == view.starts[view.page]
           starts == viewerPageStartsAt(text, target, win)
<1>1. /\ scenario \in Scenarios /\ Read(view) /\ viewed \subseteq viewed'
      /\ win \in scenario.sizes
  BY DEF ViewInv, Looked
<1>2. /\ win \in Nat \X Nat /\ Fitting(text, win)
      /\ target \in 0..Len(text) /\ passed(view) = 1..target /\ passed(view) \subseteq viewed
      /\ Len(text) \in Nat
  BY <1>1, ScenarioFacts, PageOnScreen DEF Read
<1>3. Redraw(win, starts, Len(starts))
  BY DEF Reflow
<1> HIDE DEF target
<1>4. Chained(text, win, starts) /\ starts[Len(starts)] <= target
  BY <1>2, StartsAt
<1> HIDE DEF starts
<1>5. Len(starts) \in 1..Len(starts) /\ starts[Len(starts)] \in Nat
  <2>1. starts \in Seq(Nat) /\ starts # <<>>
    BY <1>4 DEF Chained
  <2>2. Len(starts) \in Nat \ {0}
    BY <2>1, EmptySeq
  <2> QED
    BY <2>1, <2>2, ElementOfSeq
<1>6. 1..starts[Len(starts)] \subseteq viewed'
  BY <1>1, <1>2, <1>4, <1>5
<1> QED
  BY <1>2, <1>3, <1>4, <1>5, <1>6, RedrawReads

LEMMA GestureReads ==
  ASSUME ViewInv, stage = "watch", Looked, scenario' = scenario, NEW key, Gesture(key)
  PROVE  /\ screen' = "alternate" => stage' = "watch"
         /\ stage' \in {"enter", "watch"} => Read(view)'
<1>1. CASE stage' = "done" /\ screen' = "main"
  BY <1>1
<1>2. CASE Stay
  <2>1. stage' = "watch" /\ view' = view
    BY <1>2 DEF Stay, Go
  <2>2. Read(view) /\ viewed \subseteq viewed' /\ passed(view)' = passed(view)
    BY <2>1 DEF ViewInv, Looked, passed
  <2>3. passed(view)' \subseteq viewed'
    BY <2>2 DEF Read
  <2>4. Read(view)'
    BY <2>1, <2>2, <2>3, Zenon DEF Read
  <2> QED
    BY <2>1, <2>4
<1>3. CASE win = view.size /\ NextPage
  <2>1. screen' = "alternate" => stage' = "watch"
    BY <1>3 DEF NextPage, Stay, Redraw, Go, Finish
  <2> QED
    BY <1>3, <2>1, NextPageReads
<1>4. CASE PreviousPage
  <2>1. screen' = "alternate" => stage' = "watch"
    BY <1>4 DEF PreviousPage, Stay, Redraw, Go, Finish
  <2> QED
    BY <1>4, <2>1, PreviousPageReads
<1>5. CASE Reflow /\ viewerFrameFits(win)
  <2>1. screen' = "alternate" => stage' = "watch"
    BY <1>5 DEF Reflow, Redraw, Go, Finish
  <2> QED
    BY <1>5, <2>1, ReflowReads
<1>6. CASE Reflow /\ ~viewerFrameFits(win)
  <2>1. stage' = "note" /\ screen' = "main"
    BY <1>6 DEF Reflow
  <2> QED
    BY <2>1
<1> QED
  BY <1>1, <1>2, <1>3, <1>4, <1>5, <1>6 DEF Gesture, Finish

\* What the steps of the program outside the viewer do to the screen.
LEMMA OtherStepsRead ==
  ASSUME ViewInv,
         StartLine \/ LineKey \/ LineClosed \/ LineCanceled \/ Await
           \/ WriteNote \/ WriteBody \/ SessionEnds \/ ViewerClosed \/ ViewerCanceled
  PROVE  ViewInv'
<1>1. scenario' = scenario /\ win' = win
  <2>1. CASE LineKey
    BY <2>1 DEF LineKey, Take, inputVars, Answer
  <2>2. CASE LineClosed \/ LineCanceled
    <3>1. \E what, line : Answer(what, line)
      BY <2>2 DEF LineClosed, LineCanceled
    <3>2. scenario' = scenario
      BY <3>1 DEF Answer
    <3> QED
      BY <2>2, <3>2 DEF LineClosed, LineCanceled, Closed, Canceled, inputVars
  <2>3. CASE StartLine \/ WriteNote \/ WriteBody \/ SessionEnds
    BY <2>3 DEF StartLine, WriteNote, WriteBody, SessionEnds, queueVars, inputVars, promptVars
  <2>4. CASE Await \/ ViewerClosed \/ ViewerCanceled
    BY <2>4 DEF Await, Check, ViewerClosed, ViewerCanceled, Closed, Canceled, inputVars, promptVars
  <2> QED
    BY <2>1, <2>2, <2>3, <2>4
<1>2. CASE Await
  <2>1. UNCHANGED <<stage, screen, viewVars>>
    BY <1>2 DEF Await
  <2>2. UNCHANGED <<stage, screen, view, viewed>>
    BY <2>1 DEF viewVars
  <2>3. passed(view)' = passed(view)
    BY <2>2 DEF passed
  <2>4. Read(view) => Read(view)'
    BY <1>1, <2>2, <2>3, Zenon DEF Read
  <2> QED
    BY <1>1, <2>2, <2>4 DEF ViewInv
<1>3. CASE ~Await
  <2>1. stage' \notin {"enter", "watch"} /\ screen' \in {screen, "main"}
    <3>1. ASSUME NEW what, NEW line, Answer(what, line)
          PROVE  stage' \notin {"enter", "watch"} /\ screen' \in {screen, "main"}
      BY <3>1 DEF Answer, PhraseAnswer, OtherAnswer, Finish, Go, NextPrompt
    <3>2. CASE LineKey
      BY <3>1, <3>2 DEF LineKey
    <3>3. CASE LineClosed \/ LineCanceled
      <4>1. \E what, line : Answer(what, line)
        BY <3>3 DEF LineClosed, LineCanceled
      <4> QED
        BY <3>1, <4>1
    <3>4. CASE StartLine \/ WriteNote \/ WriteBody \/ SessionEnds \/ ViewerClosed \/ ViewerCanceled
      BY <3>4 DEF StartLine, WriteNote, WriteBody, SessionEnds, ViewerClosed, ViewerCanceled,
                  Finish, Go
    <3> QED
      BY <1>3, <3>2, <3>3, <3>4
  <2>2. screen' # "alternate"
    <3>1. CASE ViewerClosed \/ ViewerCanceled
      BY <3>1 DEF ViewerClosed, ViewerCanceled, Finish
    <3>2. CASE ~(ViewerClosed \/ ViewerCanceled)
      <4>1. stage # "watch"
        BY <1>3, <3>2
           DEF StartLine, LineKey, LineClosed, LineCanceled, WriteNote, WriteBody, SessionEnds
      <4> QED
        BY <2>1, <4>1 DEF ViewInv
    <3> QED
      BY <3>1, <3>2
  <2> QED
    BY <1>1, <2>1, <2>2 DEF ViewInv
<1> QED
  BY <1>2, <1>3

LEMMA ViewerStarts == ViewInv /\ (StartViewer \/ EnterViewer) => ViewInv'
<1> SUFFICES ASSUME ViewInv, StartViewer \/ EnterViewer PROVE ViewInv'
  OBVIOUS
<1>1. scenario' = scenario /\ win' = win
  BY DEF StartViewer, EnterViewer, queueVars, inputVars, promptVars
<1>2. CASE StartViewer
  <2>1. screen' # "alternate"
    BY <1>2 DEF StartViewer, ViewInv, Go
  <2>2. CASE stage' = "note"
    BY <1>1, <2>1, <2>2 DEF ViewInv
  <2>3. CASE stage' # "note"
    <3> DEFINE starts == <<0>>
    <3>1. viewerFrameFits(win) /\ view' = [size |-> win, starts |-> starts, page |-> 1]
      BY <1>2, <2>3 DEF StartViewer, Go
    <3>2. /\ scenario.text \in Seq(Nat) /\ Len(scenario.text) \in Nat /\ win \in Nat \X Nat
          /\ scenario.text # <<>> => 0 < Len(scenario.text)
      <4>1. /\ scenario.text \in Seq(Nat) /\ Len(scenario.text) \in Nat /\ win \in Nat \X Nat
        BY ScenarioFacts DEF ViewInv
      <4> QED
        BY <4>1, EmptySeq
    <3>3. starts \in Seq(Nat) /\ Len(starts) = 1 /\ starts[1] = 0
      OBVIOUS
    <3>4. starts # <<>> /\ 2..1 = {} /\ \A i \in 1..1 : i = 1
      OBVIOUS
    <3> HIDE DEF starts
    <3>5. Chained(scenario.text, win, starts)
      BY <3>2, <3>3, <3>4 DEF Chained
    <3>6. view'.size = win /\ view'.starts = starts /\ view'.page = 1
      BY <3>1
    <3>7. passed(view)' \subseteq viewed'
      <4>1. passed(view)' = {}
        BY <3>3, <3>6 DEF passed
      <4> QED
        BY <4>1
    <3>8. Read(view)'
      <4>1. 1 \in 1..Len(starts)
        BY <3>3
      <4> QED
        BY <1>1, <3>1, <3>2, <3>5, <3>6, <3>7, <4>1, Zenon DEF Read
    <3> QED
      BY <1>1, <2>1, <3>8 DEF ViewInv
  <2> QED
    BY <2>2, <2>3
<1>3. CASE EnterViewer
  <2>1. /\ stage = "enter" /\ UNCHANGED viewVars
        /\ \/ stage' = "done" /\ screen' = "main"
           \/ stage' = "watch"
    BY <1>3 DEF EnterViewer, Finish
  <2>2. view' = view /\ viewed' = viewed
    BY <2>1 DEF viewVars
  <2>3. passed(view)' = passed(view)
    BY <2>2 DEF passed
  <2>4. Read(view) => Read(view)'
    BY <1>1, <2>2, <2>3, Zenon DEF Read
  <2> QED
    BY <1>1, <2>1, <2>4 DEF ViewInv
<1> QED
  BY <1>2, <1>3

\* ShowViewerContext, viewerPageEnd, viewerPageStartsAt: moving on never skips
\* text, whatever the resizes, and a page is what fits into the frame.
THEOREM PagesAreReadAlways == Spec => []PagesAreRead
<1>1. Init => ViewInv
  BY DEF Init, ViewInv
<1>2. ViewInv /\ [Next]_vars => ViewInv'
  <2> SUFFICES ASSUME ViewInv, [Next]_vars PROVE ViewInv'
    OBVIOUS
  <2>1. CASE StartLine \/ LineKey \/ LineClosed \/ LineCanceled \/ Await
               \/ WriteNote \/ WriteBody \/ SessionEnds \/ ViewerClosed \/ ViewerCanceled
    BY <2>1, OtherStepsRead
  <2>2. CASE StartViewer \/ EnterViewer
    BY <2>2, ViewerStarts
  <2>3. CASE ViewerKey \/ ViewerTick
    <3>1. /\ stage = "watch" /\ Looked /\ scenario' = scenario /\ win' = win
          /\ \E key : Gesture(key)
      BY <2>3 DEF ViewerKey, ViewerTick, promptVars, Take, TakeTick, inputVars
    <3>2. /\ screen' = "alternate" => stage' = "watch"
          /\ stage' \in {"enter", "watch"} => Read(view)'
      BY <3>1, GestureReads
    <3> QED
      BY <3>1, <3>2 DEF ViewInv
  <2>4. CASE World
    <3>1. UNCHANGED <<scenario, stage, screen, view, viewed>>
      BY <2>4 DEF World, promptVars, viewVars
    <3>2. win' \in scenario.sizes
      BY <2>4 DEF World, Type, InputEnds, Cancel, Resize, ViewInv
    <3>3. passed(view)' = passed(view)
      BY <3>1 DEF passed
    <3>4. Read(view) => Read(view)'
      BY <3>1, <3>3, Zenon DEF Read
    <3> QED
      BY <3>1, <3>2, <3>4 DEF ViewInv
  <2>5. CASE UNCHANGED vars
    <3>1. UNCHANGED <<scenario, win, stage, screen, view, viewed>>
      BY <2>5 DEF vars, queueVars, inputVars, viewVars
    <3>2. passed(view)' = passed(view)
      BY <3>1 DEF passed
    <3>3. Read(view) => Read(view)'
      BY <3>1, <3>2, Zenon DEF Read
    <3> QED
      BY <3>1, <3>3 DEF ViewInv
  <2> QED
    BY <2>1, <2>2, <2>3, <2>4, <2>5 DEF Next, Step, Program
<1>3. ViewInv => PagesAreRead
  BY ReadIsOnScreen
<1> QED
  BY <1>1, <1>2, <1>3, PTL DEF Spec
=============================================================================
