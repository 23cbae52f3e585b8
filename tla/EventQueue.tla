----------------------------- MODULE EventQueue -----------------------------
(***************************************************************************)
(* The input side of a TTY (internal/term/phrase.go, viewer.go): one pump  *)
(* puts key events into one channel for the lifetime of the process, and   *)
(* the prompts and the viewer take them from it one after another. What a  *)
(* prompt leaves in the channel is there for the next one: type-ahead.     *)
(*                                                                         *)
(* A consumer looks at the context and then selects among the context, the *)
(* channel and, in the viewer, the resize tick. The typed events are kept  *)
(* as a history with the number of those taken, so that the channel holds  *)
(* typed[taken + 1] and what follows. Its capacity (64) only delays the    *)
(* pump and cannot be seen by a consumer.                                  *)
(*                                                                         *)
(* An event is a pair of its kind and the characters it carries.           *)
(***************************************************************************)
EXTENDS Naturals, Sequences

VARIABLES
  typed,     \* every event the pump has decoded
  taken,     \* how many of them were taken
  ended,     \* "no", or how the input ended: "eof" or "error"
  canceled,  \* is Run's context canceled?
  armed,     \* has the consumer seen a live context and entered its select?
  win,       \* the size of the terminal window
  winch,     \* is a resize tick waiting?
  late       \* events taken although the context was canceled

inputVars == <<typed, ended, canceled, win>>

queueVars == <<inputVars, taken, armed, winch, late>>
-----------------------------------------------------------------------------
(* The user, the terminal and Run. *)

Type(key) ==
  /\ ended = "no"
  /\ typed' = Append(typed, key)
  /\ UNCHANGED <<ended, canceled, win, taken, armed, winch, late>>

InputEnds(how) ==
  /\ ended = "no" /\ ended' = how
  /\ UNCHANGED <<typed, canceled, win, taken, armed, winch, late>>

Cancel ==
  /\ ~canceled /\ canceled' = TRUE
  /\ UNCHANGED <<typed, ended, win, taken, armed, winch, late>>

\* The tick is coalesced, and Windows has none.
Resize(size) ==
  /\ win # size /\ win' = size
  /\ winch' \in {winch, TRUE}
  /\ UNCHANGED <<typed, ended, canceled, taken, armed, late>>
-----------------------------------------------------------------------------
(* One call of readEventContext or readViewerEventContext: the check, then *)
(* one of the ready alternatives of the select.                            *)

\* As Check, but the context is left to the select.
CheckNothing == ~armed /\ armed' = TRUE /\ UNCHANGED <<inputVars, taken, winch, late>>

Check ==
  /\ ~armed /\ ~canceled /\ armed' = TRUE
  /\ UNCHANGED <<inputVars, taken, winch, late>>

\* As Canceled, but a select that has begun waits for a key.
CanceledBeforeSelect ==
  /\ canceled /\ ~armed
  /\ UNCHANGED queueVars

\* The context's error, from the check or from the select.
Canceled ==
  /\ canceled /\ armed' = FALSE
  /\ UNCHANGED <<inputVars, taken, winch, late>>

Take(key) ==
  /\ armed /\ armed' = FALSE
  /\ taken < Len(typed) /\ key = typed[taken + 1]
  /\ taken' = taken + 1
  /\ late' = late + IF canceled THEN 1 ELSE 0
  /\ UNCHANGED <<inputVars, winch>>

\* The pump closes the channel behind the last event.
Closed ==
  /\ armed /\ armed' = FALSE
  /\ ended # "no" /\ taken = Len(typed)
  /\ UNCHANGED <<inputVars, taken, winch, late>>

TakeTick ==
  /\ armed /\ armed' = FALSE
  /\ winch /\ winch' = FALSE
  /\ UNCHANGED <<inputVars, taken, late>>
=============================================================================
