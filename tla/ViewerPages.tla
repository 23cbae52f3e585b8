---------------------------- MODULE ViewerPages ----------------------------
(***************************************************************************)
(* internal/term/viewer.go: how a text is cut into pages. A text is a      *)
(* sequence of tokens, each a line break or the number of columns its safe *)
(* rendition takes; a position is the number of tokens before it.          *)
(***************************************************************************)
EXTENDS Naturals, Sequences, SequencesExt

CONSTANT LabelColumns  \* columns that header and footer need

ASSUME LabelsAssumption == LabelColumns \in Nat \ {0}

Newline == 0

FrameRows == 4

\* A window is a pair of its columns and rows. The last column stays free.
bodyColumns(size) == size[1] - 1

bodyRows(size) == size[2] - FrameRows

viewerFrameFits(size) == size[2] > FrameRows /\ bodyColumns(size) >= LabelColumns

\* The page that starts at a position ends where the first row below the body
\* would begin: behind a line break, or before a token that is wrapped.
viewerPageEnd(text, start, size) ==
  LET wraps(o, column) == column > 0 /\ column + text[o + 1] > bodyColumns(size)
      walk[at \in (0..Len(text)) \X Nat \X Nat] ==
        LET o == at[1] row == at[2] column == at[3] IN
        IF o = Len(text) \/ row = bodyRows(size) THEN o
        ELSE IF text[o + 1] = Newline THEN walk[<<o + 1, row + 1, 0>>]
        ELSE IF wraps(o, column) THEN walk[<<o, row + 1, 0>>]
        ELSE walk[<<o + 1, row, column + text[o + 1]>>]
  IN  walk[<<start, 0, 0>>]

\* Where the pages of a text start, the first one being page 0.
pageStart(text, size) ==
  LET start[n \in 0..Len(text)] ==
        IF n = 0 THEN 0 ELSE viewerPageEnd(text, start[n - 1], size)
  IN  start

\* The pages up to the one that shows the token at target, or to the last one.
viewerPageStartsAt(text, target, size) ==
  LET start == pageStart(text, size)
      stops(n) == LET end == viewerPageEnd(text, start[n], size) IN
                  end >= Len(text) \/ end > target
      last == CHOOSE n \in 0..Len(text) : stops(n) /\ \A m \in 0..(n - 1) : ~stops(m)
  IN  [i \in 1..(last + 1) |-> start[i - 1]]
-----------------------------------------------------------------------------
(* What writeViewerPage puts on the screen, and whether it fits. *)

\* Rows and columns of a page: the cursor, and the last row and column written.
top == [row |-> 1, column |-> 0, lastRow |-> 0, lastColumn |-> 0]

written(at, t, size) ==
  LET wraps == at.column > 0 /\ at.column + t > bodyColumns(size)
      row == at.row + IF t = Newline \/ wraps THEN 1 ELSE 0
      column == CASE t = Newline -> 0 [] t # Newline /\ wraps -> t [] OTHER -> at.column + t
  IN  [row |-> row, column |-> column,
       lastRow |-> IF t = Newline THEN at.lastRow ELSE row,
       lastColumn |-> IF column > at.lastColumn THEN column ELSE at.lastColumn]

layout(page, size) ==
  LET at[n \in 0..Len(page)] == IF n = 0 THEN top ELSE written(at[n - 1], page[n], size)
  IN  at[Len(page)]

\* Text stays within the body; the cursor may rest on the row of the separator.
fitsBody(page, size) ==
  LET at == layout(page, size) IN
  /\ at.lastRow <= bodyRows(size) /\ at.lastColumn <= bodyColumns(size)
  /\ at.row <= bodyRows(size) + 1
=============================================================================
