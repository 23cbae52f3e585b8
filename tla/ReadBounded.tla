---------------------------- MODULE ReadBounded ----------------------------
(***************************************************************************)
(* readBounded of internal/cli/create.go: every secret, phrase, token and  *)
(* receipt that does not come from the terminal is read through it. It     *)
(* reads one byte more than the limit to recognise an over-long input, and *)
(* it ends when the invocation's context is cancelled: by closing a reader *)
(* that can be closed, by leaving any other reader to a goroutine.         *)
(*                                                                         *)
(* kind says what closing does. "pollable": a file the Go runtime polls,   *)
(* a blocked read returns. "blocking": an inherited standard input or      *)
(* descriptor in blocking mode, a blocked read stays. "plain": not a       *)
(* Closer.                                                                 *)
(***************************************************************************)
EXTENDS Naturals

CONSTANTS Limit,   \* the most bytes accepted
          Kinds    \* the kinds of reader considered

ASSUME BoundAssumption ==
  Limit \in Nat /\ Kinds \subseteq {"pollable", "blocking", "plain"}

VARIABLES
  kind,      \* the kind of this reader
  length,    \* bytes the peer sends before it ends or is left writing
  peer,      \* "writing", how it ended: "eof", "failed", or "enough": it goes on
             \* writing, with more bytes sent than are read
  canceled,  \* is the context cancelled?
  closer,    \* the AfterFunc callback: "armed", "closed", "stopped"
  reading,   \* the read: "running", "read", "handed", "wiped"
  got,       \* bytes in the buffer
  failed,    \* did the read end with an error?
  unwiped,   \* is there a buffer with input that has not been wiped?
  caller,    \* "waiting", "deciding", "returned"
  answer     \* "none", "data", "canceled", "local", "tooLong"

readVars == <<kind, length, peer, canceled, closer, reading, got, failed, unwiped, caller, answer>>

ReadTypeOK ==
  /\ kind \in Kinds /\ length \in 0..(Limit + 2)
  /\ peer \in {"writing", "eof", "failed", "enough"} /\ canceled \in BOOLEAN
  /\ closer \in {"armed", "closed", "stopped"}
  /\ reading \in {"running", "read", "handed", "wiped"}
  /\ got \in 0..(Limit + 1) /\ failed \in BOOLEAN /\ unwiped \in BOOLEAN
  /\ caller \in {"waiting", "deciding", "returned"}
  /\ answer \in {"none", "data", "canceled", "local", "tooLong"}

ReadInit ==
  /\ kind \in Kinds /\ length \in 0..(Limit + 2)
  /\ peer = "writing" /\ canceled \in BOOLEAN
  /\ closer = "armed" /\ reading = "running"
  /\ got = 0 /\ failed = FALSE /\ unwiped = FALSE
  /\ caller = "waiting" /\ answer = "none"
-----------------------------------------------------------------------------
\* As readLimit, but no byte is read to recognise a longer input.
readLimitExact == Limit

readLimit == Limit + 1

AtMost(n, m) == IF n <= m THEN n ELSE m

(* The environment: the peer of the pipe, and Run. *)

\* The peer has sent what it sends before the read needs nothing more of it.
PeerEnds ==
  /\ peer = "writing"
  /\ peer' \in {"eof", "failed"} \union (IF length >= readLimit THEN {"enough"} ELSE {})
  /\ UNCHANGED <<kind, length, canceled, closer, reading, got, failed, unwiped, caller, answer>>

Cancel ==
  /\ ~canceled /\ canceled' = TRUE
  /\ UNCHANGED <<kind, length, peer, closer, reading, got, failed, unwiped, caller, answer>>

\* As AfterFunc, but the callback is not run once the read has begun.
AfterFuncBeforeRead ==
  /\ kind # "plain" /\ canceled /\ closer = "armed" /\ peer # "writing"
  /\ closer' = "closed"
  /\ UNCHANGED <<kind, length, peer, canceled, reading, got, failed, unwiped, caller, answer>>

\* context.AfterFunc runs its callback in a goroutine of its own.
AfterFunc ==
  /\ kind # "plain" /\ canceled /\ closer = "armed"
  /\ closer' = "closed"
  /\ UNCHANGED <<kind, length, peer, canceled, reading, got, failed, unwiped, caller, answer>>
-----------------------------------------------------------------------------
\* Without an error: at the end of the input, or of the io.LimitReader, which asks
\* for nothing after the last byte it lets through.
WholeRead ==
  /\ peer = "eof" \/ (peer # "writing" /\ length >= readLimit)
  /\ failed' = FALSE
  /\ got' = AtMost(length, readLimit)

\* With the peer's error, or that of a reader closed meanwhile.
BrokenRead ==
  /\ peer = "failed" \/ (closer = "closed" /\ (kind = "pollable" \/ peer # "writing"))
  /\ failed' = TRUE
  /\ got' \in 0..AtMost(length, readLimit)

\* io.ReadAll returns; the caller of a closable reader then calls stopClose.
ReadReturns ==
  /\ reading = "running"
  /\ WholeRead \/ BrokenRead
  /\ unwiped' = TRUE
  /\ IF kind = "plain"
       THEN reading' = "read" /\ UNCHANGED <<closer, caller>>
       ELSE /\ reading' = "handed" /\ caller' = "deciding"
            /\ closer' = IF closer = "armed" THEN "stopped" ELSE closer
  /\ UNCHANGED <<kind, length, peer, canceled, answer>>

\* resultC is unbuffered: goroutine and caller meet.
HandOver ==
  /\ kind = "plain" /\ reading = "read" /\ caller = "waiting"
  /\ reading' = "handed" /\ caller' = "deciding"
  /\ UNCHANGED <<kind, length, peer, canceled, closer, got, failed, unwiped, answer>>

\* As GoroutineWipes, but the buffer is dropped as it is.
GoroutineLeaves ==
  /\ kind = "plain" /\ reading = "read" /\ canceled
  /\ reading' = "wiped"
  /\ UNCHANGED <<kind, length, peer, canceled, closer, got, failed, unwiped, caller, answer>>

\* The goroutine's ctx.Done case: nobody will take the buffer.
GoroutineWipes ==
  /\ kind = "plain" /\ reading = "read" /\ canceled
  /\ reading' = "wiped" /\ unwiped' = FALSE
  /\ UNCHANGED <<kind, length, peer, canceled, closer, got, failed, caller, answer>>

\* The caller's ctx.Done case: it returns while the goroutine may still read.
CallerCanceled ==
  /\ kind = "plain" /\ caller = "waiting" /\ canceled
  /\ caller' = "returned" /\ answer' = "canceled"
  /\ UNCHANGED <<kind, length, peer, canceled, closer, reading, got, failed, unwiped>>

\* As Verdict, but the length is not looked at.
VerdictOfAnyLength ==
  IF canceled THEN "canceled" ELSE IF failed THEN "local" ELSE "data"

\* As Verdict, but the context is not looked at again after the read.
VerdictOfRead ==
  IF failed THEN "local" ELSE IF got > Limit THEN "tooLong" ELSE "data"

Verdict ==
  IF canceled THEN "canceled"
  ELSE IF failed THEN "local"
  ELSE IF got > Limit THEN "tooLong"
  ELSE "data"

\* What is not returned is wiped.
Decide ==
  /\ caller = "deciding"
  /\ answer' = Verdict /\ unwiped' = (Verdict = "data")
  /\ caller' = "returned"
  /\ UNCHANGED <<kind, length, peer, canceled, closer, reading, got, failed>>

Program ==
  \/ AfterFunc \/ ReadReturns \/ HandOver \/ GoroutineWipes \/ CallerCanceled \/ Decide

ReadNext == Program \/ PeerEnds \/ Cancel

\* The goroutines are scheduled; the peer owes nothing.
ReadSpec == ReadInit /\ [][ReadNext]_readVars /\ WF_readVars(Program)
-----------------------------------------------------------------------------
(* Properties *)

\* Accepted input is the whole input, never its first bytes.
NeverTruncated == answer = "data" => got = length /\ length <= Limit /\ peer = "eof"

\* A cancelled read is reported as cancelled, also when the cancellation made it
\* fail or came together with the data: Run then returns the signal's status.
CancellationDecides ==
  [][canceled /\ answer = "none" /\ answer' # "none" => answer' = "canceled"]_readVars

\* Input that was read is returned or wiped, by whichever goroutine has it.
ReturnedOrWiped == unwiped ~> (answer = "data" \/ ~unwiped)

\* context.AfterFunc, CallerCanceled: where closing ends a read, or no read has to
\* end, a cancelled wait for input is over whatever the peer does.
CancellationEndsRead == (canceled /\ kind # "blocking") ~> caller = "returned"

\* docs/ARCHITECTURE.md: "One Run-owned cancellation context covers input,
\* mutation transport, and interactive waits."
CancellationCoversInput == canceled ~> caller = "returned"
=============================================================================
