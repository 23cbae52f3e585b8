-------------------------- MODULE TerminalSession --------------------------
(***************************************************************************)
(* What one invocation asks and shows on its terminal: line prompts        *)
(* (credentials.go), the plain phrase prompt (plain.go) and the viewer     *)
(* (viewer.go) one after another, all fed by the event channel of the one  *)
(* TTY. The user types, resizes the window and Run cancels at any moment.  *)
(***************************************************************************)
EXTENDS EventQueue, LineEditor, ViewerPages

CONSTANTS
  Words, MinWords, MaxWords,  \* the word list and the limits of a phrase
  Limit,                      \* bytes of a line, for each kind of line prompt
  Scenarios                   \* what is asked, and what the user has for it

LinePrompts == {"url", "token", "phrase"}

\* A scenario: the prompts; the keys on the keyboard and the most that are
\* typed; the text, the sizes of the window and the most resizes; plain or not;
\* and what else happens, of "cancel", "eof" and "error".
ScenarioType ==
  [prompts : Seq(LinePrompts \cup {"viewer"}),
   keys : SUBSET (STRING \X Seq(STRING)), most : Nat,
   text : Seq(Nat), sizes : SUBSET (Nat \X Nat), resizes : Nat,
   plain : SUBSET BOOLEAN, faults : SUBSET {"cancel", "eof", "error"}]

ASSUME PhraseAssumption == MinWords \in Nat \ {0} /\ MaxWords \in Nat /\ MinWords <= MaxWords

ASSUME LimitsAssumption == Limit \in [LinePrompts -> Nat \ {0}]

\* A frame that fits has room for every token: the widest has ten columns,
\* the labels need more than forty.
ASSUME ScenariosAssumption ==
  \A s \in Scenarios : s \in ScenarioType /\ \A i \in DOMAIN s.text : s.text[i] <= LabelColumns

VARIABLES
  scenario,
  plain,       \* no alternate screen: --plain or TERM=dumb
  prompts,     \* what is still to be asked or shown
  stage,       \* where the session is
  ed,          \* the line being read
  answers,     \* what the line prompts returned
  committed,   \* PlainPhrase
  state,
  long,
  mode,        \* of the terminal: "cooked", "password" or "raw"
  screen,      \* "main" or "alternate"
  quiet,       \* does the viewer ignore a cancellation that came before it?
  view,        \* the window's size it knows, the page starts and the page
  scrollback,  \* what was written to the main screen by the viewer, and how
  viewed,      \* text positions the user has had in view (a history)
  resizes,     \* how often the window was resized
  outcome

phraseVars == <<committed, state, long>>

viewVars == <<quiet, view, scrollback, viewed>>

vars == <<queueVars, resizes, scenario, plain, prompts, stage, ed, answers, phraseVars,
          mode, screen, viewVars, outcome>>

Phrase == INSTANCE PlainPhrase

Entry == INSTANCE PhraseEntry

Init ==
  /\ scenario \in Scenarios /\ plain \in scenario.plain
  /\ typed = <<>> /\ taken = 0 /\ ended = "no"
  /\ canceled = FALSE /\ armed = FALSE /\ winch = FALSE /\ late = 0
  /\ win \in scenario.sizes /\ resizes = 0
  /\ prompts = scenario.prompts /\ stage = "next" /\ ed = newLine /\ answers = <<>>
  /\ Phrase!Init
  /\ mode = "cooked" /\ screen = "main" /\ quiet = FALSE
  /\ view = [size |-> win, starts |-> <<0>>, page |-> 1]
  /\ scrollback = <<>> /\ viewed = {} /\ outcome = "none"

\* Every way out restores the terminal.
Finish(how) ==
  /\ stage' = "done" /\ outcome' = how
  /\ mode' = "cooked" /\ screen' = "main"
  /\ UNCHANGED prompts

Go(to) == stage' = to /\ UNCHANGED <<outcome, mode, screen, prompts>>

NextPrompt ==
  /\ stage' = "next" /\ prompts' = Tail(prompts)
  /\ mode' = "cooked" /\ UNCHANGED <<outcome, screen>>
-----------------------------------------------------------------------------
(* Line prompts. *)

\* ReadLineContext, ReadPasswordContext, ReadPhraseContext up to their loops:
\* the mode or the prompt may fail, except that the phrase prompt's is unchecked.
StartLine ==
  /\ stage = "next" /\ prompts # <<>> /\ Head(prompts) \in LinePrompts
  /\ \/ canceled /\ Finish("canceled")
     \/ ~canceled /\ Head(prompts) # "phrase" /\ Finish("error")
     \/ /\ ~canceled /\ stage' = "line"
        /\ mode' = IF Head(prompts) = "token" THEN "password" ELSE mode
        /\ UNCHANGED <<outcome, screen, prompts>>
  /\ ed' = newLine
  /\ UNCHANGED <<queueVars, scenario, plain, answers, phraseVars, viewVars>>

\* The words of a line.
split(line) ==
  FoldLeft(
    LAMBDA at, c :
      CASE c \in Blanks \cup {"\n"} -> [at EXCEPT !.open = FALSE]
        [] at.open -> [at EXCEPT !.words[Len(at.words)] = Append(@, c)]
        [] OTHER -> [words |-> Append(at.words, <<c>>), open |-> TRUE],
    [words |-> <<>>, open |-> FALSE], line).words

\* readPhrasePlainLines goes on with a line.
PhraseAnswer(what, line) ==
  \/ what = "tooLong" /\ Phrase!TooLongLine /\ Go("line")
  \/ what = "line" /\ line # <<>> /\ Phrase!Line(split(line)) /\ Go("line")
  \/ /\ what = "line" /\ line = <<>> /\ Phrase!EmptyLine
     /\ IF state' = "submitted" THEN NextPrompt ELSE Go("line")
  \/ what \in {"interrupted", "canceled"} /\ Phrase!Interrupt /\ Finish(what)

\* The commands end on every error of the other prompts. They may refuse the
\* line, and the line feed after a password may fail to be written.
OtherAnswer(what) ==
  /\ \/ what = "line" /\ (NextPrompt \/ Finish("error"))
     \/ what # "line" /\ Finish(what)
     \/ Head(prompts) = "token" /\ Finish("error")
  /\ UNCHANGED phraseVars

Answer(what, line) ==
  /\ answers' = Append(answers,
       [prompt |-> Head(prompts), last |-> taken', what |-> what, line |-> line])
  /\ ed' = newLine
  /\ IF Head(prompts) = "phrase" THEN PhraseAnswer(what, line) ELSE OtherAnswer(what)
  /\ UNCHANGED <<scenario, plain, viewVars>>

\* As LineKey, but a line too long is reported at once and the rest of it stays.
LineKeyAtOnce ==
  /\ stage = "line"
  /\ \E key \in scenario.keys :
       /\ Take(key)
       /\ LET after == edit(ed, key, Limit[Head(prompts)]) IN
          CASE after.overflow -> Answer("tooLong", <<>>)
            [] ~after.overflow /\ key[1] = "enter" -> Answer("line", ed.text)
            [] key[1] \in {"ctrlC", "ctrlD"} -> Answer("interrupted", <<>>)
            [] OTHER -> /\ ed' = after
                        /\ UNCHANGED <<scenario, plain, prompts, stage, answers, phraseVars,
                                       mode, screen, viewVars, outcome>>

LineKey ==
  /\ stage = "line"
  /\ \E key \in scenario.keys :
       /\ Take(key)
       /\ CASE key[1] = "enter" /\ ed.overflow -> Answer("tooLong", <<>>)
            [] key[1] = "enter" /\ ~ed.overflow -> Answer("line", ed.text)
            [] key[1] \in {"ctrlC", "ctrlD"} -> Answer("interrupted", <<>>)
            [] OTHER -> /\ ed' = edit(ed, key, Limit[Head(prompts)])
                        /\ UNCHANGED <<scenario, plain, prompts, stage, answers, phraseVars,
                                       mode, screen, viewVars, outcome>>

\* A last line without Enter counts, other errors do not; cancellation first.
LineClosed ==
  /\ stage = "line" /\ Closed
  /\ CASE ended = "eof" /\ ed.overflow -> Answer("tooLong", <<>>)
       [] ended = "eof" /\ ed.text # <<>> -> Answer("line", ed.text)
       [] OTHER -> Answer(IF canceled THEN "canceled" ELSE "interrupted", <<>>)

LineCanceled == stage = "line" /\ Canceled /\ Answer("canceled", <<>>)

\* Consumers share the wait.
Await ==
  /\ stage \in {"line", "watch"} /\ Check
  /\ UNCHANGED <<scenario, plain, prompts, stage, ed, answers, phraseVars, mode, screen,
                 viewVars, outcome>>
-----------------------------------------------------------------------------
(* The viewer. *)

promptVars == <<scenario, plain, ed, answers, phraseVars>>

\* The text of the page on the screen.
page(w) ==
  LET start == w.starts[w.page] IN
  SubSeq(scenario.text, start + 1, viewerPageEnd(scenario.text, start, w.size))

\* The positions of the text on the page, and those before it.
shown(w) == (w.starts[w.page] + 1)..(w.starts[w.page] + Len(page(w)))

passed(w) == 1..w.starts[w.page]

\* deliverPlaintext looks at the context once; ShowViewerContext wants a window
\* with room for a frame, and raw mode.
StartViewer ==
  /\ stage = "next" /\ prompts # <<>> /\ Head(prompts) = "viewer"
  /\ quiet' = canceled
  /\ view' = [size |-> win, starts |-> <<0>>, page |-> 1]
  /\ \/ Go("note")
     \/ /\ ~(canceled \/ plain) /\ viewerFrameFits(win)
        /\ stage' = "enter" /\ mode' = "raw" /\ UNCHANGED <<outcome, screen, prompts>>
  /\ UNCHANGED <<queueVars, promptVars, scrollback, viewed>>

\* The alternate screen and the first frame, each of which may fail.
EnterViewer ==
  /\ stage = "enter"
  /\ \/ Finish("error")
     \/ stage' = "watch" /\ screen' = "alternate" /\ UNCHANGED <<outcome, mode, prompts>>
  /\ UNCHANGED <<queueVars, promptVars, viewVars>>

\* A frame for the page is written, or writing it fails.
Redraw(size, starts, number) ==
  /\ view' = [size |-> size, starts |-> starts, page |-> number]
  /\ Go("watch") \/ Finish("error")
  /\ UNCHANGED <<quiet, scrollback>>

Stay == Go("watch") /\ UNCHANGED <<quiet, view, scrollback>>

NextPage ==
  LET end == viewerPageEnd(scenario.text, view.starts[view.page], view.size) IN
  IF end >= Len(scenario.text) THEN Stay
  ELSE Redraw(view.size,
              IF view.page = Len(view.starts) THEN Append(view.starts, end) ELSE view.starts,
              view.page + 1)

PreviousPage ==
  IF view.page = 1 THEN Stay ELSE Redraw(view.size, view.starts, view.page - 1)

\* As Reflow, but the scrollback rendition starts in raw mode.
ReflowRaw ==
  IF viewerFrameFits(win)
  THEN LET starts == viewerPageStartsAt(scenario.text, view.starts[view.page], win) IN
       Redraw(win, starts, Len(starts))
  ELSE /\ stage' = "note" /\ screen' = "main"
       /\ view' = [view EXCEPT !.size = win]
       /\ UNCHANGED <<outcome, mode, prompts, quiet, scrollback>>

\* The window has changed: the page with the text at the top of the screen is
\* drawn for it, or there is no room and all goes to the main screen.
Reflow ==
  IF viewerFrameFits(win)
  THEN LET starts == viewerPageStartsAt(scenario.text, view.starts[view.page], win) IN
       Redraw(win, starts, Len(starts))
  ELSE /\ stage' = "note" /\ mode' = "cooked" /\ screen' = "main"
       /\ view' = [view EXCEPT !.size = win]
       /\ UNCHANGED <<outcome, prompts, quiet, scrollback>>

Closes(key) == key[1] = "rune" /\ key[2] \in {<<"q">>, <<"Q">>}

GoesBack(key) == key[1] = "rune" /\ key[2] \in {<<"b">>, <<"B">>}

\* As Gesture, but the key also does what it stands for on the redrawn page.
GestureAfterReflow(key) ==
  CASE Closes(key) -> Finish("closed") /\ UNCHANGED <<quiet, view, scrollback>>
    [] key[1] = "ctrlC" -> Finish("interrupted") /\ UNCHANGED <<quiet, view, scrollback>>
    [] key[1] \in {"space", "enter"} /\ win # view.size /\ viewerFrameFits(win) ->
         LET starts == viewerPageStartsAt(scenario.text, view.starts[view.page], win)
             end == viewerPageEnd(scenario.text, Last(starts), win)
             more == IF end < Len(scenario.text) THEN Append(starts, end) ELSE starts
         IN  Redraw(win, more, Len(more))
    [] key[1] \in {"space", "enter"} /\ win = view.size -> NextPage
    [] OTHER -> IF win # view.size THEN Reflow ELSE Stay

\* Gestures that do not close are consumed when the window has changed.
Gesture(key) ==
  CASE Closes(key) -> Finish("closed") /\ UNCHANGED <<quiet, view, scrollback>>
    [] key[1] = "ctrlC" -> Finish("interrupted") /\ UNCHANGED <<quiet, view, scrollback>>
    [] OTHER ->
         CASE win # view.size -> Reflow
           [] win = view.size /\ key[1] \in {"space", "enter"} -> NextPage
           [] win = view.size /\ GoesBack(key) -> PreviousPage
           [] OTHER -> Stay

\* What is on the screen has been in view if it was drawn for this window.
Looked == viewed' = viewed \cup IF win = view.size THEN shown(view) ELSE {}

ViewerKey ==
  /\ stage = "watch" /\ Looked
  /\ \E key \in scenario.keys : Take(key) /\ Gesture(key)
  /\ UNCHANGED promptVars

ViewerTick ==
  /\ stage = "watch" /\ Looked
  /\ TakeTick /\ Gesture(<<"resize", <<>>>>)
  /\ UNCHANGED promptVars

ViewerClosed ==
  /\ stage = "watch" /\ Closed
  /\ Finish(IF ended = "eof" THEN "closed" ELSE "error")
  /\ UNCHANGED <<promptVars, viewVars>>

ViewerCanceled ==
  /\ stage = "watch" /\ Canceled /\ Finish("canceled")
  /\ UNCHANGED <<promptVars, viewVars>>

\* The scrollback rendition: a note, the text, and the context's error.
Write(what) == scrollback' = Append(scrollback, [what |-> what, mode |-> mode, screen |-> screen])

WriteNote ==
  /\ stage = "note"
  /\ \/ Write("note") /\ Go("body")
     \/ UNCHANGED scrollback /\ Finish("error")
  /\ UNCHANGED <<queueVars, promptVars, quiet, view, viewed>>

WriteBody ==
  /\ stage = "body" /\ Write("text")
  /\ Finish("error") \/ Finish(IF canceled /\ ~quiet THEN "canceled" ELSE "closed")
  /\ UNCHANGED <<queueVars, promptVars, quiet, view, viewed>>

SessionEnds ==
  /\ stage = "next" /\ prompts = <<>> /\ Finish("answered")
  /\ UNCHANGED <<queueVars, promptVars, viewVars>>
-----------------------------------------------------------------------------
Program ==
  \/ StartLine \/ LineKey \/ LineClosed \/ LineCanceled \/ Await
  \/ StartViewer \/ EnterViewer \/ ViewerKey \/ ViewerTick \/ ViewerClosed
  \/ ViewerCanceled \/ WriteNote \/ WriteBody \/ SessionEnds

World ==
  /\ stage # "done"
  /\ \/ Len(typed) < scenario.most /\ \E key \in scenario.keys : Type(key)
     \/ \E how \in scenario.faults \ {"cancel"} : InputEnds(how)
     \/ "cancel" \in scenario.faults /\ Cancel
     \/ resizes < scenario.resizes /\ \E size \in scenario.sizes : Resize(size)
  /\ resizes' = resizes + IF win' = win THEN 0 ELSE 1
  /\ UNCHANGED <<promptVars, prompts, stage, mode, screen, viewVars, outcome>>

Step == Program /\ UNCHANGED resizes

Next == Step \/ World

\* The program does not pause by itself; the user may.
Spec == Init /\ [][Next]_vars /\ WF_vars(Step)
-----------------------------------------------------------------------------
(* Properties. *)

\* The events of the i-th answer: those behind the answer before it.
segment(i) ==
  SubSeq(typed, IF i = 1 THEN 1 ELSE answers[i - 1].last + 1, answers[i].last)

\* The line that events mean if there were no limit.
meaning(keys) ==
  LET line[n \in 0..Len(keys)] ==
        IF n = 0 THEN <<>> ELSE edited(line[n - 1], keys[n])
  IN  line[Len(keys)]

\* Did the line exceed the limit at any time?
exceeds(keys, limit) ==
  \/ \E i \in DOMAIN keys : keys[i][1] = "inputTooLong"
  \/ \E i \in DOMAIN keys : Size(meaning(SubSeq(keys, 1, i))) > limit

Enders == {"enter", "ctrlC", "ctrlD"}

AsTyped(answer, keys) ==
  LET enders == {n \in DOMAIN keys : keys[n][1] \in Enders}
      line == IF enders = {} THEN keys ELSE Front(keys)
  IN  /\ enders \subseteq {Len(keys)}
      /\ answer.what \in {"line", "tooLong"} =>
           IF enders = {} THEN ended = "eof" ELSE Last(keys)[1] = "enter"
      /\ answer.what = "line" =>
           ~exceeds(line, Limit[answer.prompt]) /\ answer.line = meaning(line)
      /\ answer.what = "tooLong" => exceeds(line, Limit[answer.prompt])

\* Every answer of a line prompt is what was typed for it, from the end of the
\* answer before it to its own Enter: whatever was typed ahead, none of it is
\* lost or lands in another answer. It is refused exactly if it was ever longer
\* than its limit, together with all that follows up to its Enter, so that the
\* rest of a line too long never becomes an answer of its own.
LinesAsTyped == \A i \in DOMAIN answers : AsTyped(answers[i], segment(i))

\* Cancellation is not starved by keys: at most the one key that a select had
\* the choice of is taken after it, through all prompts that may follow.
FewKeysAfterCancel == late <= 1

\* Moving on never skips text: all of it before the page on the screen was in
\* view, in a frame drawn for the window as it was, whatever the resizes. What a
\* page is taken to hold and what is written of it agree: text stays in the body
\* of the frame, and each page starts where the one before it ends.
PagesAreRead ==
  screen = "alternate" =>
    /\ passed(view) \subseteq viewed
    /\ fitsBody(page(view), view.size)
    /\ scenario.text # <<>> => shown(view) # {}
    /\ \A i \in 2..Len(view.starts) :
         view.starts[i] = viewerPageEnd(scenario.text, view.starts[i - 1], view.size)

\* Plaintext reaches the scrollback only after the note, with the terminal as
\* it was found: raw mode would stagger its lines, and the alternate screen
\* would take it away.
ScrollbackIsAnnounced ==
  \A i \in DOMAIN scrollback :
    scrollback[i].what = "text" =>
      /\ i > 1 /\ scrollback[i - 1].what = "note"
      /\ scrollback[i].mode = "cooked" /\ scrollback[i].screen = "main"

\* The plain phrase prompt, with its lines typed key by key, implements entry.
ImplementsEntry == Entry!Spec

\* A cancellation, or the end of the input, ends the session wherever it is.
EndsWhenCanceled == (canceled \/ ended # "no") ~> stage = "done"
=============================================================================
