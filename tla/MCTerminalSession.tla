------------------------- MODULE MCTerminalSession -------------------------
(***************************************************************************)
(* Sessions whose interesting events differ, with small keyboards.         *)
(***************************************************************************)
EXTENDS TerminalSession

Key(kind) == <<kind, <<>>>>

Rune(c) == <<"rune", <<c>>>>

Space == <<"space", <<" ">>>>

Editing ==
  {Rune("a"), Rune("w"), Space, <<"paste", <<"a", " ", "a">>>>} \cup
  {Key(k) : k \in {"enter", "backspace", "ctrlU", "ctrlW", "ctrlD", "inputTooLong"}}

All == {"cancel", "eof", "error"}

Window == {<<6, 7>>}

\* A management token, edited in every way.
Token ==
  [prompts |-> <<"token">>, keys |-> Editing, most |-> 4, text |-> <<>>,
   sizes |-> Window, resizes |-> 0, plain |-> {FALSE}, faults |-> {}]

\* The same with the input ending and Run cancelling.
TokenEnds ==
  [Token EXCEPT !.most = 3, !.faults = All,
                !.keys = {Rune("a"), Key("enter"), Key("ctrlD"), Key("inputTooLong")}]

\* A share URL, then the phrase by lines: type-ahead from one to the other.
Lines ==
  [prompts |-> <<"url", "phrase">>,
   keys |-> {Rune("a"), Rune("b"), Space, Key("enter"), <<"paste", <<"b", " ", "a">>>>},
   most |-> 5, text |-> <<>>,
   sizes |-> Window, resizes |-> 0, plain |-> {FALSE}, faults |-> {"cancel"}]

\* The same with the input ending as well.
LinesEnd == [Lines EXCEPT !.keys = @ \ {Rune("b"), Space}, !.most = 4, !.faults = All]

\* The viewer in windows that change: the second is narrower and lower than the
\* first, the third has no room for a frame.
Viewing ==
  [prompts |-> <<"viewer">>, keys |-> {Rune("b"), Space}, most |-> 4,
   text |-> <<1, 4, 2, 0, 3, 0, 0, 2, 2, 1, 4>>,
   sizes |-> {<<7, 7>>, <<5, 6>>, <<5, 4>>}, resizes |-> 2, plain |-> {FALSE},
   faults |-> {}]

\* The same with every way to end.
ViewingEnds ==
  [Viewing EXCEPT !.keys = {Rune("q"), Space, Key("ctrlC")}, !.most = 2, !.resizes = 1,
                  !.plain = BOOLEAN, !.faults = All]

MCScenarios == {Token, TokenEnds, Lines, LinesEnd, Viewing, ViewingEnds}

MCWords == {<<"a">>, <<"b">>}

MCLimit == [url |-> 2, token |-> 3, phrase |-> 4]
=============================================================================
