------------------------------ MODULE RunProofs ------------------------------
(***************************************************************************)
(* Proofs about what holds when an invocation ends, whenever and however   *)
(* often it is interrupted: the exit status that Run chooses               *)
(* (RunLifecycle, for every set of command results and every number of     *)
(* signals), and the terminal that it leaves behind (TTYModes, for any     *)
(* number of uses).                                                        *)
(*                                                                         *)
(* JoinedBeforeReturn and SubstantiveResultSurvives speak of the exit      *)
(* status only. They are inductive together with what links the two        *)
(* goroutines: the command exists exactly in the middle of Run             *)
(* (DispatchFollowsMain), it has returned when its result is in the        *)
(* channel (ResultMeansReturned), and Run returns by itself only without a *)
(* command or with its result (ReturnJustified).                           *)
(*                                                                         *)
(* Every change that was made to the terminal has one party that is going  *)
(* to undo it: the bookkeeping under the lock, the command that has taken  *)
(* it over (leaving), or EmergencyRestore (snapshot). That is inductive    *)
(* as long as EmergencyRestore has not run, and, when it has, during the   *)
(* first use: a later use could save a mode that is about to be undone.    *)
(***************************************************************************)
EXTENDS RunLifecycle, TTYModes, TLAPS

DispatchFollowsMain ==
  /\ main \in {"start", "preload"} => dispatch = "none"
  /\ main \in {"select", "recheck", "stop", "cancel", "join"} => dispatch # "none"

ResultMeansReturned == dispatch = "returned" <=> done # NoResult

ReturnJustified ==
  /\ main = "returned" <=> exit # Running
  /\ exit >= 0 => dispatch # "running" /\ (Substantive(done) => exit = report(done))

IInv ==
  /\ TypeOK
  /\ DispatchFollowsMain
  /\ ResultMeansReturned
  /\ ReturnJustified

-----------------------------------------------------------------------------
\* A result of a command is never taken for its absence.
LEMMA ResultIsNotPending ==
  ASSUME NEW r \in Results
  PROVE  /\ r # NoResult
         /\ r.exit \in Nat
BY ResultsAssumption DEF ResultType, Causes, NoResult

LEMMA PendingIsNotSubstantive == ~Substantive(NoResult)
BY DEF Substantive, NoResult

LEMMA ExitCodesAreNat ==
  /\ \A sig : signalExit(sig) \in Nat
  /\ \A r \in Results : /\ report(r) \in Nat
                        /\ \A sig : reportAfterSignal(r, sig) \in Nat
BY ResultIsNotPending DEF signalExit, report, reportAfterSignal

\* reportAfterSignal leaves a substantive error its status.
LEMMA SignalKeepsSubstantive ==
  ASSUME NEW r \in Results, NEW sig, Substantive(r)
  PROVE  reportAfterSignal(r, sig) = report(r)
BY ResultIsNotPending DEF Substantive, reportAfterSignal

LEMMA InitIInv == Init => IInv
<1> SUFFICES ASSUME Init PROVE IInv
  OBVIOUS
<1>1. TypeOK
  <2>1. 0 \in 0..MaxSignals
    BY ResultsAssumption
  <2>2. pending \in Signals \union {"none", "closed"}
    BY DEF Init
  <2> QED
    BY <2>1, <2>2 DEF Init, TypeOK, MainPlaces
<1>2. DispatchFollowsMain /\ ResultMeansReturned
  BY DEF Init, DispatchFollowsMain, ResultMeansReturned
<1>3. ReturnJustified
  BY DEF Init, ReturnJustified, Running
<1> QED
  BY <1>1, <1>2, <1>3 DEF IInv

LEMMA MainKeepsIInv == IInv /\ Main => IInv'
<1> SUFFICES ASSUME IInv, Main PROVE IInv'
  OBVIOUS
<1> USE DEF IInv, TypeOK, MainPlaces, Signals, Running, Killed, DispatchFollowsMain,
            ResultMeansReturned, ReturnJustified
<1>1. CASE Subscribe
  BY <1>1 DEF Subscribe
<1>2. CASE Start
  BY <1>2 DEF Start
<1>3. CASE PreloadedSignal
  <2>1. done = NoResult /\ exit' = signalExit(pending) /\ main' = "returned"
    BY <1>3 DEF PreloadedSignal, Return
  <2>2. exit' \in Nat /\ ~Substantive(done)
    BY <2>1, ExitCodesAreNat, PendingIsNotSubstantive
  <2>3. ReturnJustified'
    BY <1>3, <2>1, <2>2 DEF PreloadedSignal, Substantive
  <2> QED
    BY <1>3, <2>1, <2>2, <2>3 DEF PreloadedSignal
<1>4. CASE Complete
  <2>1. done \in Results /\ exit' = report(done) /\ main' = "returned" /\ done' = done
    BY <1>4 DEF Complete, Return
  <2>2. exit' \in Nat
    BY <2>1, ExitCodesAreNat
  <2>3. report(done)' = report(done) /\ dispatch' = dispatch /\ dispatch = "returned"
    BY <1>4, <2>1, ResultIsNotPending DEF Complete, report
  <2>4. ReturnJustified'
    BY <2>1, <2>2, <2>3
  <2> QED
    BY <1>4, <2>1, <2>2, <2>3, <2>4 DEF Complete
<1>5. CASE TakeSignal
  BY <1>5 DEF TakeSignal
<1>6. CASE AcceptSignal
  BY <1>6 DEF AcceptSignal
<1>7. CASE StopSignals
  <2>1. exit' = Running /\ main' = "cancel"
    BY <1>7 DEF StopSignals
  <2>2. ReturnJustified'
    BY <2>1
  <2>3. TypeOK'
    BY <1>7, <2>1 DEF StopSignals
  <2>4. DispatchFollowsMain' /\ ResultMeansReturned'
    BY <1>7 DEF StopSignals
  <2> QED
    BY <2>2, <2>3, <2>4
<1>8. CASE CancelContext
  <2>1. exit' = Running /\ main' = "join"
    BY <1>8 DEF CancelContext
  <2>2. ReturnJustified'
    BY <2>1
  <2>3. TypeOK'
    BY <1>8, <2>1 DEF CancelContext
  <2>4. DispatchFollowsMain' /\ ResultMeansReturned'
    BY <1>8 DEF CancelContext
  <2> QED
    BY <2>2, <2>3, <2>4
<1>9. CASE Join
  <2>1. done \in Results /\ exit' = reportAfterSignal(done, got) /\ main' = "returned" /\ done' = done
    BY <1>9 DEF Join, Return
  <2>2. exit' \in Nat
    BY <2>1, ExitCodesAreNat
  <2>3. Substantive(done) => exit' = report(done)
    BY <2>1, SignalKeepsSubstantive
  <2>4. report(done)' = report(done) /\ dispatch' = dispatch /\ dispatch = "returned"
    BY <1>9, <2>1, ResultIsNotPending DEF Join, report
  <2>5. ReturnJustified'
    BY <2>1, <2>2, <2>3, <2>4 DEF Substantive
  <2>6. TypeOK'
    BY <1>9, <2>1, <2>2 DEF Join
  <2>7. DispatchFollowsMain' /\ ResultMeansReturned'
    BY <2>1, <2>4
  <2> QED
    BY <2>5, <2>6, <2>7
<1> QED
  BY <1>1, <1>2, <1>3, <1>4, <1>5, <1>6, <1>7, <1>8, <1>9 DEF Main

LEMMA OperatingSystemKeepsIInv == IInv /\ OperatingSystem => IInv'
<1> SUFFICES ASSUME IInv, OperatingSystem PROVE IInv'
  OBVIOUS
<1> USE DEF IInv, TypeOK, MainPlaces, Signals, Running, Killed, DispatchFollowsMain,
            ResultMeansReturned, ReturnJustified
<1>1. CASE CloseSource
  BY <1>1 DEF CloseSource
<1>2. ASSUME NEW sig \in Signals, SendSignal(sig) PROVE IInv'
  BY <1>2, ResultsAssumption DEF SendSignal
<1> QED
  BY <1>1, <1>2 DEF OperatingSystem

LEMMA CommandKeepsIInv == IInv /\ Command => IInv'
<1> SUFFICES ASSUME IInv, NEW r \in Results, CommandReturns(r) PROVE IInv'
  BY DEF Command
<1> USE DEF IInv, TypeOK, MainPlaces, Running, DispatchFollowsMain, ResultMeansReturned,
            ReturnJustified
<1> QED
  BY ResultIsNotPending DEF CommandReturns

LEMMA NextKeepsIInv == IInv /\ [Next]_runVars => IInv'
<1>1. IInv /\ UNCHANGED runVars => IInv'
  BY DEF runVars, IInv, TypeOK, DispatchFollowsMain, ResultMeansReturned, ReturnJustified,
         Substantive, report
<1> QED
  BY <1>1, MainKeepsIInv, OperatingSystemKeepsIInv, CommandKeepsIInv DEF Next, RunNext

\* The strengthened invariant holds in every reachable state.
THEOREM Invariance == Spec => []IInv
BY InitIInv, NextKeepsIInv, PTL DEF Spec

\* Every variable of an invocation keeps its type.
THEOREM TypeCorrect == Spec => []TypeOK
<1>1. IInv => TypeOK
  BY DEF IInv
<1> QED
  BY <1>1, Invariance, PTL

\* Run never returns while its command goroutine is running.
THEOREM JoinedBeforeReturnAlways == Spec => []JoinedBeforeReturn
<1>1. IInv => JoinedBeforeReturn
  BY DEF IInv, ReturnJustified, JoinedBeforeReturn
<1> QED
  BY <1>1, Invariance, PTL

\* Whatever signals arrive and whenever, a substantive failure of the command
\* is what the exit status reports.
THEOREM SubstantiveResultSurvivesAlways == Spec => []SubstantiveResultSurvives
<1>1. IInv => SubstantiveResultSurvives
  BY DEF IInv, ReturnJustified, SubstantiveResultSurvives
<1> QED
  BY <1>1, Invariance, PTL

-----------------------------------------------------------------------------
(* CompletionIsAuthoritative: from the moment the result is in the channel   *)
(* and no signal has been accepted, Run can only return with that result.    *)

Decided ==
  /\ main \in {"select", "recheck", "returned"}
  /\ done # NoResult
  /\ exit >= 0 => exit = report(done)

LEMMA DecidedStays == IInv /\ Decided /\ [Next]_runVars => Decided'
<1> SUFFICES ASSUME IInv, Decided, [Next]_runVars PROVE Decided'
  OBVIOUS
<1> USE DEF IInv, Decided, ResultMeansReturned, ReturnJustified, Running, Killed
<1>1. CASE UNCHANGED runVars
  BY <1>1 DEF runVars, report
<1>2. CASE Main
  <2>1. CASE Complete
    BY <2>1 DEF Complete, Return, report
  <2>2. CASE TakeSignal
    BY <2>2 DEF TakeSignal, TypeOK
  <2> QED
    BY <1>2, <2>1, <2>2 DEF Main, Subscribe, Start, PreloadedSignal, AcceptSignal,
                            StopSignals, CancelContext, Join
<1>3. CASE OperatingSystem
  <2>1. CASE CloseSource
    BY <2>1 DEF CloseSource
  <2>2. ASSUME NEW sig \in Signals, SendSignal(sig) PROVE Decided'
    BY <2>2 DEF SendSignal
  <2> QED
    BY <1>3, <2>1, <2>2 DEF OperatingSystem
<1>4. CASE Command
  BY <1>4 DEF Command, CommandReturns
<1> QED
  BY <1>1, <1>2, <1>3, <1>4 DEF Next, RunNext

\* A result that is there before Run has accepted a signal is what Run reports.
THEOREM CompletionIsAuthoritativeAlways == Spec => CompletionIsAuthoritative
<1>1. IInv /\ main \in {"select", "recheck"} /\ done # NoResult => Decided
  BY DEF IInv, Decided, ReturnJustified, Running
<1>2. Decided => (exit >= 0 => exit = report(done))
  BY DEF Decided
<1> QED
  BY <1>1, <1>2, Invariance, DecidedStays, PTL DEF Spec, CompletionIsAuthoritative
-----------------------------------------------------------------------------
(* The terminal modes. *)

Tame == emergency = "none" \/ use.id <= 1

\* Who holds a mode, and in which phase of the command.
Holders ==
  /\ raw \in {NoUse, use} /\ password \in {NoUse, use}
  /\ raw # NoUse => command \in {"raw", "viewer", "viewed"}
  /\ password # NoUse => command = "hidden"
  /\ raw = NoUse => ~paste
  /\ alternate => command = "viewer"
  /\ command \notin {"idle", "ended"} => use.id > 0

\* What the command and EmergencyRestore have taken over, never both the same.
Takers ==
  /\ command \notin {"viewed", "leaving"} => leaving = NoWork
  /\ command = "viewed" => ~leaving.paste /\ leaving.mode = "keep"
  /\ use.saved = "cooked" /\ leaving.mode \in {"keep", "cooked"}
  /\ snapshot.mode \in {"keep", "cooked"}
  /\ use.id = 0 \/ emergency # "writing" => snapshot = NoWork
  /\ snapshot.mode # "keep" => raw = NoUse /\ password = NoUse /\ leaving.mode = "keep"
  /\ snapshot.alternate => ~alternate /\ ~leaving.alternate /\ command # "raw"

\* Nothing that was changed is forgotten.
Remembered ==
  /\ device.paste => paste \/ leaving.paste \/ snapshot.paste
  /\ device.alternate => alternate \/ leaving.alternate \/ snapshot.alternate
  /\ device.mode # "cooked" =>
       raw # NoUse \/ password # NoUse \/ leaving.mode # "keep" \/ snapshot.mode # "keep"

TTYInv == TTYTypeOK /\ (Tame => Holders /\ Takers /\ Remembered)
-----------------------------------------------------------------------------
LEMMA Constants ==
  /\ NoUse \in Uses /\ NoUse.id = 0 /\ NoUse.saved = "cooked"
  /\ NoWork \in Work /\ ~NoWork.paste /\ ~NoWork.alternate /\ NoWork.mode = "keep"
BY UsesAssumption DEF NoUse, NoWork, Uses, Work, Modes

LEMMA FreshUse ==
  ASSUME TTYTypeOK, use.id < MaxUses
  PROVE  /\ Fresh \in Uses /\ Fresh.id = use.id + 1 /\ Fresh.saved = device.mode
         /\ Fresh # NoUse
<1>1. Fresh \in Uses /\ Fresh.id = use.id + 1 /\ Fresh.saved = device.mode /\ use.id \in Nat
  BY UsesAssumption DEF TTYTypeOK, Fresh, Uses, Device
<1> QED
  BY <1>1, Constants

\* One write of the work w, by whoever has it.
LEMMA UndoOne ==
  ASSUME device \in Device, NEW w \in Work, NEW w2, Undo(w, w2)
  PROVE  /\ device' \in Device /\ w2 \in Work
         /\ \/ /\ w.paste /\ device' = [device EXCEPT !.paste = FALSE]
               /\ ~w2.paste /\ w2.alternate = w.alternate /\ w2.mode = w.mode
            \/ /\ w.alternate /\ device' = [device EXCEPT !.alternate = FALSE]
               /\ ~w2.alternate /\ w2.paste = w.paste /\ w2.mode = w.mode
            \/ /\ w.mode # "keep" /\ device' = [device EXCEPT !.mode = w.mode]
               /\ ~w.paste /\ ~w.alternate /\ w2 = NoWork
<1>1. CASE w.paste
  BY <1>1 DEF Undo, Device, Work
<1>2. CASE ~w.paste /\ w.alternate
  BY <1>2 DEF Undo, Device, Work
<1>3. CASE ~w.paste /\ ~w.alternate
  BY <1>3, Constants DEF Undo, Device, Work
<1> QED
  BY <1>1, <1>2, <1>3

LEMMA InitTTYTypeOK == TTYInit => TTYTypeOK
<1> SUFFICES ASSUME TTYInit PROVE TTYTypeOK
  OBVIOUS
<1>1. device \in Device
  BY DEF TTYInit, Device, Modes
<1>2. raw \in Uses /\ password \in Uses /\ use \in Uses /\ leaving \in Work /\ snapshot \in Work
  BY Constants DEF TTYInit
<1>3. /\ paste \in BOOLEAN /\ alternate \in BOOLEAN
      /\ command \in {"idle", "raw", "viewer", "viewed", "hidden", "leaving", "ended"}
      /\ emergency \in {"none", "writing", "done"}
  BY DEF TTYInit
<1> QED
  BY <1>1, <1>2, <1>3 DEF TTYTypeOK

LEMMA CommandKeepsType == TTYTypeOK /\ CommandSteps => TTYTypeOK'
<1> SUFFICES ASSUME TTYTypeOK, CommandSteps PROVE TTYTypeOK'
  OBVIOUS
<1>1. /\ device \in Device /\ leaving \in Work /\ snapshot \in Work
      /\ paste \in BOOLEAN /\ alternate \in BOOLEAN /\ use.saved \in Modes
  BY DEF TTYTypeOK, Uses
<1>2. device' \in Device
  <2>1. CASE makeRaw \/ makePasswordMode \/ enterAlternateScreen
    BY <1>1, <2>1 DEF makeRaw, makePasswordMode, enterAlternateScreen, Device, Modes
  <2>2. CASE CommandWrites
    BY <1>1, <2>2, UndoOne DEF CommandWrites
  <2>3. CASE UNCHANGED device
    BY <1>1, <2>3
  <2> QED
    BY <2>1, <2>2, <2>3 DEF CommandSteps, leaveAlternateScreen, restore, restorePassword, Left, Ends
<1>3. raw' \in Uses /\ password' \in Uses /\ use' \in Uses
  BY FreshUse, Constants
     DEF TTYTypeOK, CommandSteps, makeRaw, makePasswordMode, enterAlternateScreen,
         leaveAlternateScreen, restore, restorePassword, CommandWrites, Left, Ends
<1>4. leaving' \in Work /\ snapshot' \in Work
  <2>1. CASE leaveAlternateScreen \/ restore \/ restorePassword
    BY <1>1, <2>1, Constants DEF leaveAlternateScreen, restore, restorePassword, Work
  <2>2. CASE CommandWrites
    BY <1>1, <2>2, UndoOne DEF CommandWrites
  <2>3. CASE UNCHANGED <<leaving, snapshot>>
    BY <1>1, <2>3
  <2> QED
    BY <2>1, <2>2, <2>3 DEF CommandSteps, makeRaw, makePasswordMode, enterAlternateScreen, Left, Ends
<1>5. /\ paste' \in BOOLEAN /\ alternate' \in BOOLEAN
      /\ command' \in {"idle", "raw", "viewer", "viewed", "hidden", "leaving", "ended"}
      /\ emergency' \in {"none", "writing", "done"}
  BY DEF TTYTypeOK, CommandSteps, makeRaw, makePasswordMode, enterAlternateScreen,
         leaveAlternateScreen, restore, restorePassword, CommandWrites, Left, Ends
<1> QED
  BY <1>2, <1>3, <1>4, <1>5 DEF TTYTypeOK

LEMMA EmergencyKeepsType == TTYTypeOK /\ Emergency => TTYTypeOK'
<1> SUFFICES ASSUME TTYTypeOK, Emergency PROVE TTYTypeOK'
  OBVIOUS
<1>1. /\ device \in Device /\ snapshot \in Work /\ paste \in BOOLEAN /\ alternate \in BOOLEAN
      /\ raw.saved \in Modes /\ password.saved \in Modes
  BY DEF TTYTypeOK, Uses
<1>2. device' \in Device /\ snapshot' \in Work
  <2>1. CASE EmergencyTakes
    BY <1>1, <2>1 DEF EmergencyTakes, SavedMode, Work
  <2>2. CASE EmergencyWrites
    BY <1>1, <2>2, UndoOne DEF EmergencyWrites
  <2>3. CASE EmergencyDone
    BY <1>1, <2>3 DEF EmergencyDone
  <2> QED
    BY <2>1, <2>2, <2>3 DEF Emergency
<1>3. /\ raw' \in Uses /\ password' \in Uses /\ use' \in Uses /\ leaving' \in Work
      /\ paste' \in BOOLEAN /\ alternate' \in BOOLEAN
      /\ command' \in {"idle", "raw", "viewer", "viewed", "hidden", "leaving", "ended"}
      /\ emergency' \in {"none", "writing", "done"}
  BY Constants DEF TTYTypeOK, Emergency, EmergencyTakes, EmergencyWrites, EmergencyDone
<1> QED
  BY <1>2, <1>3 DEF TTYTypeOK
-----------------------------------------------------------------------------
(* Preservation, for the steps after which the situation is still tame. *)

LEMMA InitTTYInv == TTYInit => TTYInv
BY InitTTYTypeOK, Constants DEF TTYInit, TTYInv, Tame, Holders, Takers, Remembered

LEMMA StaysTame ==
  ASSUME TTYTypeOK, TTYNext, Tame'
  PROVE  Tame /\ use.id \in Nat
<1>1. use.id \in Nat /\ use' \in {use, Fresh} /\ Fresh.id = use.id + 1
  BY UsesAssumption
     DEF TTYTypeOK, Uses, Fresh, TTYNext, CommandSteps, makeRaw, makePasswordMode, enterAlternateScreen,
         leaveAlternateScreen, restore, restorePassword, CommandWrites, Left, Ends,
         Emergency, EmergencyTakes, EmergencyWrites, EmergencyDone
<1>2. emergency' = "none" => emergency = "none"
  BY DEF TTYNext, CommandSteps, makeRaw, makePasswordMode, enterAlternateScreen,
         leaveAlternateScreen, restore, restorePassword, CommandWrites, Left, Ends,
         Emergency, EmergencyTakes, EmergencyWrites, EmergencyDone
<1> QED
  BY <1>1, <1>2 DEF Tame

LEMMA StartKeeps ==
  ASSUME TTYInv, Tame, Tame', makeRaw \/ makePasswordMode
  PROVE  (Holders /\ Takers /\ Remembered)'
<1>1. /\ use' = Fresh /\ Fresh.id = use.id + 1 /\ Fresh.saved = device.mode /\ Fresh # NoUse
      /\ use.id \in Nat /\ device \in Device
  BY FreshUse, UsesAssumption DEF TTYInv, TTYTypeOK, Uses, makeRaw, makePasswordMode
<1>2. /\ snapshot = NoWork /\ leaving = NoWork /\ raw = NoUse /\ password = NoUse
      /\ ~paste /\ ~alternate /\ emergency' = emergency
  BY <1>1, Constants DEF TTYInv, Tame, Holders, Takers, makeRaw, makePasswordMode
<1>3. device.mode = "cooked" /\ ~device.paste /\ ~device.alternate
  BY <1>2, Constants DEF TTYInv, Remembered
<1>4. CASE makeRaw
  <2>1. device'.mode = "raw" /\ device'.paste /\ ~device'.alternate
    BY <1>1, <1>3, <1>4 DEF makeRaw, Device
  <2> QED
    BY <1>1, <1>2, <1>3, <1>4, <2>1, Constants DEF makeRaw, Holders, Takers, Remembered
<1>5. CASE makePasswordMode
  <2>1. device'.mode = "hidden" /\ ~device'.paste /\ ~device'.alternate
    BY <1>1, <1>3, <1>5 DEF makePasswordMode, Device
  <2> QED
    BY <1>1, <1>2, <1>3, <1>5, <2>1, Constants DEF makePasswordMode, Holders, Takers, Remembered
<1> QED
  BY <1>4, <1>5

LEMMA ScreenKeeps ==
  ASSUME TTYInv, Tame, enterAlternateScreen \/ leaveAlternateScreen
  PROVE  (Holders /\ Takers /\ Remembered)'
<1> USE DEF TTYInv, Holders, Takers, Remembered
<1>1. CASE enterAlternateScreen
  <2>1. device'.mode = device.mode /\ device'.paste = device.paste
    BY <1>1 DEF enterAlternateScreen, TTYTypeOK, Device
  <2> QED
    BY <1>1, <2>1 DEF enterAlternateScreen
<1>2. CASE leaveAlternateScreen
  <2>1. leaving'.alternate = alternate /\ ~leaving'.paste /\ leaving'.mode = "keep"
    BY <1>2 DEF leaveAlternateScreen, NoWork
  <2> QED
    BY <1>2, <2>1, Constants DEF leaveAlternateScreen
<1> QED
  BY <1>1, <1>2

LEMMA RestoreKeeps ==
  ASSUME TTYInv, Tame, restore \/ restorePassword
  PROVE  (Holders /\ Takers /\ Remembered)'
<1> USE DEF TTYInv, Holders, Takers, Remembered
<1>1. use # NoUse
  BY Constants DEF restore, restorePassword, Tame
<1>2. CASE restore /\ raw = use
  <2>1. leaving'.paste = paste /\ ~leaving'.alternate /\ leaving'.mode = "cooked"
    BY <1>2 DEF restore, NoWork, Tame
  <2> QED
    BY <1>1, <1>2, <2>1, Constants DEF restore, Tame
<1>3. CASE restorePassword /\ password = use
  <2>1. ~leaving'.paste /\ ~leaving'.alternate /\ leaving'.mode = "cooked"
    BY <1>3 DEF restorePassword, NoWork, Tame
  <2> QED
    BY <1>1, <1>3, <2>1, Constants DEF restorePassword, Tame
<1>4. CASE restore /\ raw # use
  BY <1>1, <1>4, Constants DEF restore, Tame
<1>5. CASE restorePassword /\ password # use
  BY <1>1, <1>5, Constants DEF restorePassword, Tame
<1> QED
  BY <1>2, <1>3, <1>4, <1>5

LEMMA WritesKeep ==
  ASSUME TTYInv, Tame, CommandWrites \/ EmergencyWrites
  PROVE  (Holders /\ Takers /\ Remembered)'
<1>1. device \in Device /\ leaving \in Work /\ snapshot \in Work
  BY DEF TTYInv, TTYTypeOK
<1>2. CASE CommandWrites
  <2>1. Undo(leaving, leaving') /\ leaving # NoWork
    BY <1>2, Constants DEF CommandWrites, Undo
  <2> QED
    BY <1>1, <1>2, <2>1, UndoOne, Constants
       DEF CommandWrites, TTYInv, Tame, Holders, Takers, Remembered, Device
<1>3. CASE EmergencyWrites
  BY <1>1, <1>3, UndoOne, Constants
     DEF EmergencyWrites, TTYInv, Tame, Holders, Takers, Remembered, Device
<1> QED
  BY <1>2, <1>3

LEMMA TakesKeeps ==
  ASSUME TTYInv, Tame, Tame', EmergencyTakes
  PROVE  (Holders /\ Takers /\ Remembered)'
<1>1. /\ snapshot'.paste = paste /\ snapshot'.alternate = alternate
      /\ snapshot'.mode = SavedMode /\ snapshot = NoWork
  BY DEF EmergencyTakes, TTYInv, Takers, Tame
<1>2. SavedMode = IF raw # NoUse \/ password # NoUse THEN "cooked" ELSE "keep"
  BY DEF SavedMode, TTYInv, Tame, Holders, Takers
<1>3. use.id = 0 => snapshot' = NoWork
  <2> SUFFICES ASSUME use.id = 0 PROVE snapshot' = NoWork
    OBVIOUS
  <2>1. raw = NoUse /\ password = NoUse /\ ~paste /\ ~alternate
    BY DEF TTYInv, Tame, Holders
  <2>2. paste = FALSE /\ alternate = FALSE /\ SavedMode = "keep"
    BY <1>2, <2>1 DEF TTYInv, TTYTypeOK
  <2> QED
    BY <2>2 DEF EmergencyTakes, NoWork
<1> QED
  BY <1>1, <1>2, <1>3, Constants
     DEF EmergencyTakes, TTYInv, Tame, Holders, Takers, Remembered

LEMMA StepKeepsTame ==
  ASSUME TTYInv, TTYNext, Tame'
  PROVE  (Holders /\ Takers /\ Remembered)'
<1>1. Tame
  BY StaysTame DEF TTYInv
<1>2. CASE Left \/ Ends \/ EmergencyDone
  BY <1>1, <1>2 DEF Left, Ends, EmergencyDone, TTYInv, Tame, Holders, Takers, Remembered
<1> QED
  BY <1>1, <1>2, StartKeeps, ScreenKeeps, RestoreKeeps, WritesKeep, TakesKeeps
     DEF TTYNext, CommandSteps, Emergency

LEMMA StepKeepsTTYInv == TTYInv /\ [TTYNext]_ttyVars => TTYInv'
<1> SUFFICES ASSUME TTYInv, [TTYNext]_ttyVars PROVE TTYInv'
  OBVIOUS
<1>1. CASE UNCHANGED ttyVars
  BY <1>1 DEF ttyVars, TTYInv, TTYTypeOK, Tame, Holders, Takers, Remembered
<1> QED
  BY <1>1, CommandKeepsType, EmergencyKeepsType, StepKeepsTame DEF TTYNext, TTYInv

LEMMA EndedIsCooked ==
  ASSUME TTYInv, Tame, command = "ended", snapshot = NoWork
  PROVE  Cooked
<1>1. ~device.paste /\ ~device.alternate /\ device.mode = "cooked"
  BY Constants DEF TTYInv, Holders, Takers, Remembered
<1> QED
  BY <1>1 DEF TTYInv, TTYTypeOK, Device, Cooked

LEMMA AlwaysTTYInv == TTYSpec => []TTYInv
BY InitTTYInv, StepKeepsTTYInv, PTL DEF TTYSpec
-----------------------------------------------------------------------------
\* Every mode that is saved and every change that is due is one of the terminal's.
THEOREM TTYTypeCorrect == TTYSpec => []TTYTypeOK
<1>1. TTYInv => TTYTypeOK
  BY DEF TTYInv
<1> QED
  BY <1>1, AlwaysTTYInv, PTL

\* restore, leaveAlternateScreen: a command that ends by itself has restored the
\* terminal, however often it has used it.
THEOREM CommandCleansUpAlways == TTYSpec => []CommandCleansUp
<1>1. TTYInv => CommandCleansUp
  BY EndedIsCooked DEF TTYInv, Tame, Takers, CommandCleansUp
<1> QED
  BY <1>1, AlwaysTTYInv, PTL

\* restore and EmergencyRestore: one use and the emergency, in any interleaving
\* of their writes, leave the terminal as it was found.
THEOREM OneUseLeavesCookedAlways == TTYSpec => []OneUseLeavesCooked
<1>1. TTYInv => OneUseLeavesCooked
  BY EndedIsCooked DEF TTYInv, Tame, Takers, OneUseLeavesCooked
<1> QED
  BY <1>1, AlwaysTTYInv, PTL

\* The same two parties never undo the same change twice.
THEOREM UndoneOnceAlways == TTYSpec => []UndoneOnce
<1>1. TTYInv => UndoneOnce
  BY DEF TTYInv, TTYTypeOK, Tame, Holders, Takers, Remembered, UndoneOnce, NoUse, NoWork, Uses, Work, Modes
<1> QED
  BY <1>1, AlwaysTTYInv, PTL
=============================================================================
