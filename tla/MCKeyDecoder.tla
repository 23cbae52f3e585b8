---------------------------- MODULE MCKeyDecoder ----------------------------
(* Keys of every kind the decoder tells apart, escape sequences up to the    *)
(* limit of six bytes, and pastes of up to four bytes, a limit of three,     *)
(* among them beginnings of the end marker and escape sequences.             *)
EXTENDS KeyDecoder

Key(bytes, means) == [bytes |-> bytes, means |-> means]

MCKeys ==
  { Key(<<"x">>, << <<"rune", <<"x">>>> >>),
    Key(<<"^W">>, <<Ev("ctrlW")>>),
    Key(<<"C0">>, <<Ignored>>),
    Key(<<"ESC">>, <<Ignored>>),                               \* Escape
    Key(<<"ESC", "x">>, <<Ignored>>),                          \* Alt chord
    Key(<<"ESC", "O", "x">>, <<Ignored>>),                     \* F1
    Key(<<"ESC", "[", "x">>, <<Ignored>>),                     \* arrow
    Key(<<"ESC", "[", "1", "2", "1", "x">>, <<Ignored>>),      \* the longest
    Key(pasteEnd, <<Ignored>>),                                \* stray
    Key(<<"L2", "C">>, << <<"rune", <<"L2", "C">>>> >>),
    Key(<<"L3", "C", "C">>, << <<"rune", <<"L3", "C", "C">>>> >>),
    Key(<<"L3", "S", "C">>, <<Ignored>>),                      \* surrogate
    Key(<<"L3", "C">>, <<Ignored>>) }                          \* torn

MCNewlines == {<<"CR">>, <<"LF">>, <<"CR", "LF">>}

MCContents ==
  BoundedSeq({"ESC", "[", "1"}, 4) \union BoundedSeq({"ESC", "~", "CR"}, 2)
    \union {<<"ESC", "[", "2", "~">>, <<"x", "L2", "C">>, <<"C0", "LF", "^W", "O">>}
=============================================================================
