---------------------------- MODULE RunLifecycle ----------------------------
(***************************************************************************)
(* internal/cli/run.go: the life of one invocation. The main goroutine     *)
(* (Run) subscribes to SIGINT and SIGTERM, starts the command in a second  *)
(* goroutine, waits for whichever comes first, and after a signal cancels  *)
(* the command's context and joins it. The operating system delivers       *)
(* signals at any moment: into the subscribed channel of capacity one, or, *)
(* without a subscription, by killing the process.                         *)
(*                                                                         *)
(* What a command does is left to Command, which returns any result of     *)
(* Results; PlaintextCommands replaces it by a real command.               *)
(***************************************************************************)
EXTENDS Integers

CONSTANTS
  Results,     \* what a command may return, see ResultType
  MaxSignals   \* bound on the signals sent to one invocation

Causes == {"none", "canceled", "interrupted"}

\* An error as run.go looks at it: its exit code (0 is a nil error) and what
\* errors.Is finds behind it.
ResultType == [exit : Nat, cause : Causes]

Nil == [exit |-> 0, cause |-> "none"]

ASSUME ResultsAssumption ==
  /\ Results \subseteq ResultType /\ Nil \in Results
  /\ MaxSignals \in Nat

Signals == {"INT", "TERM"}

NoResult == [exit |-> 0, cause |-> "pending"]

Running == -1
Killed  == -2

VARIABLES
  source,     \* "process": signal.Notify; "injected": a channel of the caller
  main,       \* where the main goroutine is
  subscribed, \* do signals reach the channel (production subscription)?
  pending,    \* the signal in the channel, "none", or "closed"
  got,        \* the signal Run has taken from the channel
  canceled,   \* is the invocation's context cancelled?
  dispatch,   \* the command goroutine: "none", "running", "returned"
  done,       \* the result in the done channel, if any
  jsonBroken, \* --json was given and standard output cannot be written
  signals,    \* how many signals were sent so far
  exit        \* the exit status, or Running, or Killed by the system

runVars == <<source, main, subscribed, pending, got, canceled, dispatch, done,
             jsonBroken, signals, exit>>

MainPlaces == {"start", "preload", "select", "recheck", "stop", "cancel", "join", "returned"}

TypeOK ==
  /\ source \in {"process", "injected"}
  /\ main \in MainPlaces
  /\ subscribed \in BOOLEAN
  /\ pending \in Signals \union {"none", "closed"}
  /\ got \in Signals \union {"none"}
  /\ canceled \in BOOLEAN
  /\ dispatch \in {"none", "running", "returned"}
  /\ done \in Results \union {NoResult}
  /\ jsonBroken \in BOOLEAN
  /\ signals \in 0..MaxSignals
  /\ exit \in Nat \union {Running, Killed}

Init ==
  /\ source \in {"process", "injected"}
  /\ main = "start" /\ subscribed = FALSE
  /\ pending \in IF source = "injected" THEN Signals \union {"none", "closed"} ELSE {"none"}
  /\ got = "none" /\ canceled = FALSE
  /\ dispatch = "none" /\ done = NoResult
  /\ jsonBroken \in BOOLEAN
  /\ signals = 0 /\ exit = Running
-----------------------------------------------------------------------------
signalExit(sig) == IF sig = "TERM" THEN 143 ELSE 130

\* report: a substantive error keeps its code unless its JSON document cannot
\* be written.
report(e) ==
  IF e.exit \in 1..127 /\ jsonBroken THEN 3 ELSE e.exit

\* As reportAfterSignal, but every result of a cancelled command is dropped.
AlwaysSignalExit(e, sig) == signalExit(sig)

\* reportAfterSignal: success and cancellation yield to the signal, any other
\* result stays authoritative.
reportAfterSignal(e, sig) ==
  IF e.exit = 0 \/ e.cause # "none" \/ e.exit >= 128
    THEN signalExit(sig)
    ELSE report(e)

Return(code) == main' = "returned" /\ exit' = code

Subscribe ==
  /\ main = "start"
  /\ main' = "preload"
  /\ subscribed' = (source = "process")
  /\ UNCHANGED <<source, pending, got, canceled, dispatch, done, jsonBroken, signals, exit>>

\* No signal is waiting (a closed channel never holds one): the command starts.
Start ==
  /\ main = "preload" /\ pending \notin Signals
  /\ main' = "select" /\ dispatch' = "running"
  /\ UNCHANGED <<source, subscribed, pending, got, canceled, done, jsonBroken, signals, exit>>

\* A signal was waiting: nothing is dispatched.
PreloadedSignal ==
  /\ main = "preload" /\ pending \in Signals
  /\ subscribed' = FALSE /\ canceled' = TRUE
  /\ got' = pending /\ pending' = "none"
  /\ Return(signalExit(pending))
  /\ UNCHANGED <<source, dispatch, done, jsonBroken, signals>>

\* waitDispatch's outer select with the command finished, and its inner one.
Complete ==
  /\ main \in {"select", "recheck"} /\ done # NoResult
  /\ subscribed' = FALSE
  /\ Return(report(done))
  /\ UNCHANGED <<source, pending, got, canceled, dispatch, done, jsonBroken, signals>>

\* The outer select takes a signal, although the command may be finished too.
TakeSignal ==
  /\ main = "select" /\ pending \in Signals
  /\ main' = "recheck"
  /\ got' = pending /\ pending' = "none"
  /\ UNCHANGED <<source, subscribed, canceled, dispatch, done, jsonBroken, signals, exit>>

\* As AcceptSignal, but without the inner select.
AcceptSignalAtOnce ==
  /\ main = "recheck"
  /\ main' = "stop"
  /\ UNCHANGED <<source, subscribed, pending, got, canceled, dispatch, done, jsonBroken, signals, exit>>

\* The inner select finds no result.
AcceptSignal ==
  /\ main = "recheck" /\ done = NoResult
  /\ main' = "stop"
  /\ UNCHANGED <<source, subscribed, pending, got, canceled, dispatch, done, jsonBroken, signals, exit>>

\* stop(): from here a second signal has its default effect again.
StopSignals ==
  /\ main = "stop"
  /\ main' = "cancel" /\ subscribed' = FALSE
  /\ UNCHANGED <<source, pending, got, canceled, dispatch, done, jsonBroken, signals, exit>>

CancelContext ==
  /\ main = "cancel"
  /\ main' = "join" /\ canceled' = TRUE
  /\ UNCHANGED <<source, subscribed, pending, got, dispatch, done, jsonBroken, signals, exit>>

\* err = <-done: the command's cleanup and classification come first. (The
\* variable done keeps the result it delivered.)
Join ==
  /\ main = "join" /\ done # NoResult
  /\ Return(reportAfterSignal(done, got))
  /\ UNCHANGED <<source, subscribed, pending, got, canceled, dispatch, done, jsonBroken, signals>>

Main ==
  \/ Subscribe \/ Start \/ PreloadedSignal \/ Complete \/ TakeSignal
  \/ AcceptSignal \/ StopSignals \/ CancelContext \/ Join
-----------------------------------------------------------------------------
\* A signal reaches the process: the channel keeps one and drops the rest;
\* without a subscription the process ends.
SendSignal(sig) ==
  /\ exit = Running /\ signals < MaxSignals /\ pending # "closed"
  /\ signals' = signals + 1
  /\ IF source = "injected" \/ subscribed
       THEN /\ pending' = IF pending = "none" THEN sig ELSE pending
            /\ UNCHANGED <<main, exit>>
       ELSE /\ exit' = Killed /\ main' = "returned"
            /\ UNCHANGED pending
  /\ UNCHANGED <<source, subscribed, got, canceled, dispatch, done, jsonBroken>>

\* The owner of an injected channel closes it; from then on its case of the
\* select is disabled (signals = nil).
CloseSource ==
  /\ source = "injected" /\ pending = "none" /\ exit = Running
  /\ pending' = "closed"
  /\ UNCHANGED <<source, main, subscribed, got, canceled, dispatch, done,
                 jsonBroken, signals, exit>>

OperatingSystem == CloseSource \/ \E sig \in Signals : SendSignal(sig)

\* The command goroutine ends with a result; a panic ends it with "internal".
CommandReturns(r) ==
  /\ exit = Running
  /\ dispatch = "running"
  /\ dispatch' = "returned" /\ done' = r
  /\ UNCHANGED <<source, main, subscribed, pending, got, canceled, jsonBroken, signals, exit>>

\* Only a cancelled context makes an error that wraps context.Canceled.
Command ==
  \E r \in Results : (r.cause = "canceled" => canceled) /\ CommandReturns(r)

RunNext == Main \/ OperatingSystem

Next == RunNext \/ Command

\* The scheduler runs both goroutines; a command is assumed to return.
Spec == Init /\ [][Next]_runVars /\ WF_runVars(Main) /\ WF_runVars(Command)
-----------------------------------------------------------------------------
(* Properties *)

Substantive(r) == r.exit \in 1..127 /\ r.cause = "none"

\* Run joins: it returns (other than by being killed) only when no command
\* goroutine is left that could still touch the terminal or a file.
JoinedBeforeReturn == exit >= 0 => dispatch # "running"

\* reportAfterSignal: a signal never hides a substantive failure, an unknown
\* outcome of a transmitted mutation above all.
SubstantiveResultSurvives ==
  exit >= 0 /\ Substantive(done) => exit = report(done)

\* waitDispatch: a result that is in the channel before Run has accepted a
\* signal is what Run reports, whichever case its select happened to choose.
CompletionIsAuthoritative ==
  [](main \in {"select", "recheck"} /\ done # NoResult
       => [](exit >= 0 => exit = report(done)))
=============================================================================
