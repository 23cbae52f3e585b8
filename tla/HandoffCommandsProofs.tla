----------------------- MODULE HandoffCommandsProofs -----------------------
(***************************************************************************)
(* Proofs about HandoffCommands: create and burn with their request, Run   *)
(* and the operating system, for every set of settings, every number of    *)
(* signals and every server that keeps the contract.                       *)
(*                                                                         *)
(* The argument goes from the exit status back to the server. Run exits    *)
(* with its command's result or with a signal's status instead of it       *)
(* (ExitJustified); a result that may yield to a signal was returned       *)
(* before the request, for a request that is off the wire for good, or     *)
(* with everything handed over (ResultJustified); and what the command     *)
(* knows of the request is what the wire allows (Wire).                    *)
(***************************************************************************)
EXTENDS HandoffCommands, SequenceTheorems, TLAPS

\* The request, as in MutationRequestProofs.
Wire ==
  /\ wrote <=> writer # "idle"
  /\ sent => writer = "done"
  /\ phase \in {"ready", "dialing"} => writer = "idle" /\ ~open
  /\ phase = "failed" => ~open
  /\ outcome = "network" => ~open /\ ~sent
  /\ served = "executed" => sent
  /\ reply # Request!NoReply /\ reply.status = 200 /\ reply.body = "valid" => served = "executed"
  /\ phase = "reading" => reply # Request!NoReply
  /\ phase # "returned" => outcome = "none"
  /\ outcome = "ok" => served = "executed"

Early == {"plaintext", "phrase", "target", "token", "disclose"}

\* Where the command is, and what that says of the request and the target.
Place ==
  /\ setting \in Settings /\ step \in Steps
  /\ step \in Early => phase = "ready"
  /\ step = "handoff" => outcome = "ok"
  /\ setting.op = "create" => step \notin {"target", "token"}
  /\ setting.op = "revoke" => step \notin {"plaintext", "phrase"}
  /\ step \in {"phrase", "token", "disclose", "request"} =>
       server # "none" /\ (setting.origin # "none" => server = setting.origin)
  /\ phase # "ready" \/ step = "request" =>
       /\ disclosed = server /\ server # "none"
       /\ setting.origin # "none" => server = setting.origin

Parts == {"burned", "receipt", "link", "phrase", "token", "ttl", "note"}

HandedPrefix ==
  /\ handed \in Seq(Parts) /\ Len(handed) <= Len(Handoff)
  /\ \A i \in 1..Len(handed) : handed[i] = Handoff[i]

\* What a result says: "later" is an error that may yield to a signal.
ResultJustified ==
  /\ result \in CommandResults \union {Run!NoResult}
  /\ step = "end" <=> result # Run!NoResult
  /\ result # Run!NoResult /\ result.exit = 0 => Complete /\ outcome = "ok"
  /\ result # Run!NoResult /\ result.exit # 0 /\ (result.cause # "none" \/ result.exit >= 128) =>
       phase = "ready" \/ outcome = "network"

\* How Run follows the command.
ExitJustified ==
  /\ main = "returned" <=> exit # Run!Running
  /\ main \in {"start", "preload"} => dispatch = "none"
  /\ main \in {"select", "recheck", "stop", "cancel", "join"} => dispatch # "none"
  /\ dispatch = "none" => phase = "ready"
  /\ dispatch = "returned" => done = result /\ step = "end"
  /\ dispatch # "returned" => done = Run!NoResult
  /\ exit \in Int
  /\ exit >= 0 =>
       \/ dispatch = "none" /\ exit \in {130, 143}
       \/ /\ dispatch = "returned"
          /\ \/ exit = Run!report(done)
             \/ exit = Run!reportAfterSignal(done, got)

IInv == Wire /\ Place /\ HandedPrefix /\ ResultJustified /\ ExitJustified
-----------------------------------------------------------------------------
(* The request. *)

LEMMA ClassifyReports ==
  ASSUME NEW o, NEW s
  PROVE  Request!classifyStatus(o, s) \notin {"none", "ok", "network"}
BY DEF Request!classifyStatus

LEMMA CallerKeepsWire == Wire /\ Request!Caller => Wire'
<1> SUFFICES ASSUME Wire, Request!Caller PROVE Wire'
  OBVIOUS
<1> USE DEF Wire
<1>1. CASE Request!Begin \/ Request!DialSucceeds \/ Request!DialFails \/ Request!GiveUp
  BY <1>1 DEF Request!Begin, Request!DialSucceeds, Request!DialFails, Request!GiveUp
<1>2. CASE Request!ReturnError \/ Request!ReceiveHeaders
  BY <1>2 DEF Request!ReturnError, Request!ReceiveHeaders
<1>3. CASE Request!ReturnResponse
  BY <1>3, ClassifyReports DEF Request!ReturnResponse
<1> QED
  BY <1>1, <1>2, <1>3 DEF Request!Caller

LEMMA NetworkKeepsWire ==
  ASSUME Wire, \/ Request!WriteHeaders \/ Request!FlushRequest
               \/ Request!ServerExecutes \/ Request!ServerReplies
  PROVE  Wire'
<1> USE DEF Wire
<1>1. CASE Request!WriteHeaders \/ Request!FlushRequest \/ Request!ServerExecutes
  BY <1>1 DEF Request!WriteHeaders, Request!FlushRequest, Request!ServerExecutes
<1>2. CASE Request!ServerReplies
  <2>1. reply'.status = 200 => <<op, reply'.status>> \notin NoEffect
    BY RequestAssumption DEF Request!Contract
  <2>2. CASE <<op, reply'.status>> \in NoEffect
    BY <1>2, <2>1, <2>2 DEF Request!ServerReplies
  <2>3. CASE <<op, reply'.status>> \notin NoEffect
    BY <1>2, <2>3 DEF Request!ServerReplies
  <2> QED
    BY <2>2, <2>3
<1> QED
  BY <1>1, <1>2

LEMMA SameWire == Wire /\ UNCHANGED requestVars => Wire'
BY DEF Wire, requestVars
-----------------------------------------------------------------------------
(* The command. *)

\* The end of the handoff differs, its parts are always names.
LEMMA HandoffIsSeq == Handoff \in Seq(Parts)
<1> DEFINE phraseOrNot == IF ~setting.supplied \/ setting.tty THEN <<"phrase">> ELSE <<>>
           noteOrNot == IF setting.clamps THEN <<"note">> ELSE <<>>
<1>1. <<"burned">> \in Seq(Parts) /\ <<"receipt">> \in Seq(Parts) /\ <<"link">> \in Seq(Parts)
  BY DEF Parts
<1>2. <<"token", "ttl">> \in Seq(Parts)
  BY DEF Parts
<1>3. phraseOrNot \in Seq(Parts) /\ noteOrNot \in Seq(Parts)
  <2>1. <<"phrase">> \in Seq(Parts) /\ <<"note">> \in Seq(Parts)
    BY DEF Parts
  <2>2. <<>> \in Seq(Parts)
    OBVIOUS
  <2> QED
    BY <2>1, <2>2, Zenon
<1>5. Handoff = IF setting.op = "revoke" THEN <<"burned">>
                ELSE IF setting.json THEN <<"receipt">>
                ELSE <<"link">> \o phraseOrNot \o <<"token", "ttl">> \o noteOrNot
  BY Zenon DEF Handoff
<1> HIDE DEF phraseOrNot, noteOrNot
<1>6. <<"link">> \o phraseOrNot \in Seq(Parts)
  BY <1>1, <1>3, ConcatProperties
<1>7. <<"link">> \o phraseOrNot \o <<"token", "ttl">> \in Seq(Parts)
  BY <1>2, <1>6, ConcatProperties
<1>8. <<"link">> \o phraseOrNot \o <<"token", "ttl">> \o noteOrNot \in Seq(Parts)
  BY <1>3, <1>7, ConcatProperties
<1> QED
  BY <1>1, <1>5, <1>8, Zenon

LEMMA SameHandoff == UNCHANGED setting => Handoff' = Handoff
BY DEF Handoff

LEMMA Results ==
  /\ Run!NoResult \notin CommandResults
  /\ \A e \in CommandResults :
       /\ e \in [exit : Nat, cause : {"none", "canceled", "interrupted"}]
       /\ e.exit >= 128 => e.exit = 130
       /\ e.exit = 0 => e.cause = "none"
BY DEF CommandResults, Error, Run!NoResult

LEMMA TheErrors ==
  /\ \A code \in {2, 3, 4, 6, 7, 9} :
       /\ Error(code, "none") \in CommandResults
       /\ Error(code, "none").exit # 0 /\ Error(code, "none").exit < 128
       /\ Error(code, "none").cause = "none"
  /\ \A e \in {Error(130, "canceled"), Error(130, "interrupted"), Error(7, "canceled")} :
       e \in CommandResults /\ e.exit # 0
  /\ Error(0, "none") \in CommandResults /\ Error(0, "none").exit = 0
  /\ Error(0, "none").cause = "none"
BY DEF CommandResults, Error

\* What a step of the command owes to its own state.
LocalKeeps == Place' /\ HandedPrefix' /\ ResultJustified'

\* The command fails while nothing has been sent.
LEMMA EarlyFails ==
  ASSUME IInv, step \in Early, NEW e \in CommandResults, e.exit # 0, Fail(e),
         UNCHANGED <<phase, outcome, setting, handed, disclosed>>
  PROVE  LocalKeeps
<1>1. phase = "ready"
  BY DEF IInv, Place
<1>2. e # Run!NoResult
  BY Results
<1>3. Place'
  BY <1>1 DEF IInv, Place, Fail, Steps, Early
<1>4. HandedPrefix'
  BY SameHandoff DEF IInv, HandedPrefix
<1>5. ResultJustified'
  BY <1>1, <1>2 DEF Fail, ResultJustified
<1> QED
  BY <1>3, <1>4, <1>5 DEF LocalKeeps

\* The command goes on without a request to a place where the server is known.
LEMMA EarlyGoes ==
  ASSUME IInv, step \in Early, NEW next \in {"phrase", "token", "disclose"}, Go(next),
         next = "phrase" => setting.op = "create", next = "token" => setting.op = "revoke",
         server' # "none", setting.origin # "none" => server' = setting.origin,
         UNCHANGED <<phase, outcome, setting, handed, disclosed>>
  PROVE  LocalKeeps
<1>1. phase = "ready" /\ step # "end"
  BY DEF IInv, Place, Early
<1>2. Place'
  BY <1>1, SettingsAssumption DEF IInv, Place, Go, Steps, Early
<1>3. HandedPrefix'
  BY SameHandoff DEF IInv, HandedPrefix
<1>4. ResultJustified'
  BY <1>1 DEF IInv, Go, ResultJustified
<1> QED
  BY <1>2, <1>3, <1>4 DEF LocalKeeps

LEMMA ReadKeeps ==
  ASSUME IInv, step \in Early, NEW next \in {"phrase", "token", "disclose"}, Read(next),
         next = "phrase" => setting.op = "create", next = "token" => setting.op = "revoke",
         server' # "none", setting.origin # "none" => server' = setting.origin,
         UNCHANGED <<phase, outcome, setting, handed, disclosed>>
  PROVE  LocalKeeps
<1>1. CASE Go(next)
  BY <1>1, EarlyGoes
<1>2. ASSUME NEW e \in CommandResults, e.exit # 0, Fail(e) PROVE LocalKeeps
  BY <1>2, EarlyFails
<1>3. Go(next) \/ \E e \in CommandResults : e.exit # 0 /\ Fail(e)
  BY TheErrors DEF Read
<1> QED
  BY <1>1, <1>2, <1>3

LEMMA InputsKeep ==
  ASSUME IInv, ReadPlaintext \/ CreatePhrase \/ ReadTarget \/ ReadToken
  PROVE  LocalKeeps
<1>1. setting \in SettingType /\ setting \in Settings
  BY SettingsAssumption DEF IInv, Place
<1>2. setting.selected # "none"
  BY <1>1 DEF SettingType
<1>3. CASE ReadPlaintext
  <2>1. setting.op = "create" /\ setting.origin = "none" /\ step \in Early
    BY <1>1, <1>3, SettingsAssumption DEF IInv, Place, ReadPlaintext, At, Early, SettingType
  <2>2. server' # "none" /\ UNCHANGED <<phase, outcome, setting, handed, disclosed>> /\ Read("phrase")
    BY <1>2, <1>3 DEF ReadPlaintext, Others, requestVars
  <2> QED
    BY <2>1, <2>2, ReadKeeps
<1>4. CASE CreatePhrase
  <2>1. step = "phrase" /\ step \in Early /\ UNCHANGED <<phase, outcome, setting, handed, disclosed, server>>
    BY <1>4 DEF CreatePhrase, At, Early, Others, requestVars
  <2>2. server' # "none" /\ (setting.origin # "none" => server' = setting.origin)
    BY <2>1 DEF IInv, Place
  <2>3. \/ Read("disclose") \/ Go("disclose")
        \/ Fail(Error(2, "none"))
    BY <1>4 DEF CreatePhrase
  <2>4. CASE Read("disclose")
    BY <2>1, <2>2, <2>4, ReadKeeps
  <2>5. CASE Go("disclose")
    BY <2>1, <2>2, <2>5, EarlyGoes
  <2>6. CASE Fail(Error(2, "none"))
    BY <2>1, <2>6, EarlyFails, TheErrors
  <2> QED
    BY <2>3, <2>4, <2>5, <2>6
<1>5. CASE ReadTarget
  <2>1. step = "target" /\ step \in Early /\ UNCHANGED <<phase, outcome, setting, handed, disclosed>>
    BY <1>5 DEF ReadTarget, At, Early, Others, requestVars
  <2>2. server' = Server
    BY <1>5 DEF ReadTarget
  <2>3. setting.op = "revoke" /\ setting.target \in {"receipt", "url", "id"}
    BY <1>1, <2>1, SettingsAssumption DEF IInv, Place, SettingType
  <2>4. setting.target # "receipt" \/ Server # "none" =>
          server' # "none" /\ (setting.origin # "none" => server' = setting.origin)
    BY <1>1, <1>2, <2>2, <2>3, SettingsAssumption DEF Server
  <2>5. \/ (setting.target # "receipt" \/ Server # "none") /\ (Read("disclose") \/ Go("token"))
        \/ Fail(Error(2, "none")) \/ Fail(Error(3, "none"))
    BY <1>5 DEF ReadTarget
  <2>6. CASE (setting.target # "receipt" \/ Server # "none") /\ Read("disclose")
    BY <2>1, <2>4, <2>6, ReadKeeps
  <2>7. CASE (setting.target # "receipt" \/ Server # "none") /\ Go("token")
    BY <2>1, <2>3, <2>4, <2>7, EarlyGoes
  <2>8. CASE Fail(Error(2, "none")) \/ Fail(Error(3, "none"))
    BY <2>1, <2>8, EarlyFails, TheErrors
  <2> QED
    BY <2>5, <2>6, <2>7, <2>8
<1>6. CASE ReadToken
  <2>1. step = "token" /\ step \in Early /\ UNCHANGED <<phase, outcome, setting, handed, disclosed, server>>
    BY <1>6 DEF ReadToken, At, Early, Others, requestVars
  <2>2. server' # "none" /\ (setting.origin # "none" => server' = setting.origin)
    BY <2>1 DEF IInv, Place
  <2> QED
    BY <1>6, <2>1, <2>2, ReadKeeps DEF ReadToken
<1> QED
  BY <1>3, <1>4, <1>5, <1>6

LEMMA DiscloseKeeps == IInv /\ DiscloseServer => LocalKeeps
<1> SUFFICES ASSUME IInv, DiscloseServer PROVE LocalKeeps
  OBVIOUS
<1>1. step = "disclose" /\ step \in Early /\ UNCHANGED <<phase, outcome, setting, handed, server>>
  BY DEF DiscloseServer, At, Early, Others, requestVars
<1>2. CASE Go("request") /\ disclosed' = server
  <2>1. Place'
    BY <1>1, <1>2 DEF IInv, Place, Go, Steps, Early
  <2>2. HandedPrefix'
    BY <1>1, SameHandoff DEF IInv, HandedPrefix
  <2>3. ResultJustified'
    BY <1>1, <1>2 DEF IInv, Go, ResultJustified
  <2> QED
    BY <2>1, <2>2, <2>3 DEF LocalKeeps
<1>3. CASE Fail(Error(3, "none")) /\ UNCHANGED disclosed
  BY <1>1, <1>3, EarlyFails, TheErrors
<1> QED
  BY <1>2, <1>3 DEF DiscloseServer

LEMMA CallKeeps == IInv /\ Call => Wire' /\ LocalKeeps
<1> SUFFICES ASSUME IInv, Call PROVE Wire' /\ LocalKeeps
  OBVIOUS
<1>1. step = "request" /\ UNCHANGED <<setting, step, server, disclosed, handed, result>>
  BY DEF Call, At, localVars
<1>2. Wire'
  BY CallerKeepsWire DEF IInv, Call
<1>3. Place'
  BY <1>1 DEF IInv, Place, Early
<1>4. HandedPrefix'
  BY <1>1, SameHandoff DEF IInv, HandedPrefix
<1>5. result = Run!NoResult
  BY <1>1 DEF IInv, ResultJustified
<1>6. ResultJustified'
  BY <1>1, <1>5 DEF IInv, ResultJustified
<1> QED
  BY <1>2, <1>3, <1>4, <1>6 DEF LocalKeeps

\* What mapAPIError makes of a request that failed.
LEMMA MappedAreJustified ==
  ASSUME NEW e \in MappedErrors
  PROVE  /\ e \in CommandResults /\ e.exit # 0
         /\ e.cause # "none" \/ e.exit >= 128 => outcome = "network"
<1>1. \/ e \in {Error(code, "none") : code \in {4, 6, 7, 9}}
      \/ outcome = "network" /\ e = Error(7, "canceled")
  BY DEF MappedErrors
<1>2. ASSUME NEW code \in {4, 6, 7, 9}, e = Error(code, "none")
      PROVE  e \in CommandResults /\ e.exit # 0 /\ e.cause = "none" /\ e.exit < 128
  BY <1>2, TheErrors
<1>3. \A code \in {2, 3, 4, 6, 7, 9} : Error(code, "none").exit \in Nat
  BY DEF Error
<1> QED
  BY <1>1, <1>2, <1>3, TheErrors

LEMMA AnsweredKeeps == IInv /\ Answered => LocalKeeps
<1> SUFFICES ASSUME IInv, Answered PROVE LocalKeeps
  OBVIOUS
<1>1. step = "request" /\ UNCHANGED <<phase, outcome, setting, handed, server, disclosed>>
  BY DEF Answered, At, Others, requestVars
<1>2. HandedPrefix'
  BY <1>1, SameHandoff DEF IInv, HandedPrefix
<1>3. CASE outcome = "ok" /\ Go("handoff")
  <2>1. Place'
    BY <1>1, <1>3 DEF IInv, Place, Go, Steps, Early
  <2>2. ResultJustified'
    BY <1>1, <1>3 DEF IInv, Go, ResultJustified
  <2> QED
    BY <1>2, <2>1, <2>2 DEF LocalKeeps
<1>4. ASSUME NEW e \in MappedErrors, Fail(e) PROVE LocalKeeps
  <2>1. e \in CommandResults /\ e # Run!NoResult /\ e.exit # 0
    BY MappedAreJustified, Results
  <2>2. Place'
    BY <1>1, <1>4 DEF IInv, Place, Fail, Steps, Early
  <2>3. ResultJustified'
    BY <1>1, <1>4, <2>1, MappedAreJustified DEF Fail, ResultJustified
  <2> QED
    BY <1>2, <2>2, <2>3 DEF LocalKeeps
<1> QED
  BY <1>3, <1>4 DEF Answered

LEMMA HandKeeps == IInv /\ Hand => LocalKeeps
<1> SUFFICES ASSUME IInv, Hand PROVE LocalKeeps
  OBVIOUS
<1>1. step = "handoff" /\ outcome = "ok" /\ UNCHANGED <<phase, outcome, setting, server, disclosed>>
  BY DEF IInv, Place, Hand, At, Others, requestVars
<1>2. step' \in {"handoff", "end"}
  BY DEF Hand, Fail, Go
<1>3. Place'
  BY <1>1, <1>2 DEF IInv, Place, Steps, Early
<1>4. handed \in Seq(Parts) /\ Handoff \in Seq(Parts) /\ Len(handed) <= Len(Handoff)
      /\ \A i \in 1..Len(handed) : handed[i] = Handoff[i]
  BY HandoffIsSeq DEF IInv, HandedPrefix
<1>5. Handoff' = Handoff
  BY <1>1, SameHandoff
<1>6. CASE Len(handed) = Len(Handoff) /\ Fail(Error(0, "none")) /\ UNCHANGED handed
  <2>1. handed = Handoff
    BY <1>4, <1>6
  <2>2. HandedPrefix'
    BY <1>4, <1>5, <1>6 DEF HandedPrefix
  <2>3. ResultJustified'
    BY <1>1, <1>5, <1>6, <2>1, TheErrors, Results DEF Fail, ResultJustified, Complete
  <2> QED
    BY <1>3, <2>2, <2>3 DEF LocalKeeps
<1>7. CASE /\ Len(handed) # Len(Handoff)
           /\ handed' = Append(handed, Handoff[Len(handed) + 1]) /\ Go("handoff")
  <2>1. Len(handed) + 1 \in 1..Len(Handoff)
    BY <1>4, <1>7
  <2>2. Handoff[Len(handed) + 1] \in Parts
    BY <1>4, <2>1
  <2>3. handed' \in Seq(Parts) /\ Len(handed') = Len(handed) + 1
        /\ (\A i \in 1..Len(handed) : handed'[i] = handed[i])
        /\ handed'[Len(handed) + 1] = Handoff[Len(handed) + 1]
    BY <1>4, <1>7, <2>2
  <2>4. HandedPrefix'
    BY <1>4, <1>5, <2>1, <2>3 DEF HandedPrefix
  <2>5. ResultJustified'
    BY <1>1, <1>7 DEF IInv, Go, ResultJustified
  <2> QED
    BY <1>3, <2>4, <2>5 DEF LocalKeeps
<1>8. CASE Fail(Error(3, "none")) /\ UNCHANGED handed
  <2>1. HandedPrefix'
    BY <1>4, <1>5, <1>8 DEF HandedPrefix
  <2>2. ResultJustified'
    BY <1>8, TheErrors, Results DEF Fail, ResultJustified
  <2> QED
    BY <1>3, <2>1, <2>2 DEF LocalKeeps
<1> QED
  BY <1>6, <1>7, <1>8 DEF Hand
-----------------------------------------------------------------------------
(* Run and the operating system. *)

\* A step of the command leaves Run where it is.
LEMMA LocalKeepsExit ==
  ASSUME IInv, dispatch = "running", exit = Run!Running, UNCHANGED lifeVars
  PROVE  ExitJustified'
BY DEF IInv, ExitJustified, lifeVars, Run!Running

LEMMA EndsKeepsExit == IInv /\ CommandEnds => ExitJustified'
BY DEF IInv, ExitJustified, CommandEnds, Run!CommandReturns, Run!Running, localVars

LEMMA ExitCodes ==
  ASSUME NEW sig, NEW e \in CommandResults
  PROVE  /\ Run!signalExit(sig) \in {130, 143}
         /\ Run!report(e) \in Nat /\ Run!reportAfterSignal(e, sig) \in Nat
BY Results DEF Run!signalExit, Run!report, Run!reportAfterSignal

LEMMA MainKeepsExit ==
  ASSUME IInv, Run!Main, UNCHANGED <<requestVars, localVars>>
  PROVE  ExitJustified'
<1>1. phase' = phase /\ result' = result /\ step' = step
  BY DEF requestVars, localVars
<1> USE DEF IInv, ExitJustified, Run!Running
<1>2. CASE Run!Subscribe \/ Run!Start \/ Run!TakeSignal \/ Run!AcceptSignal \/ Run!StopSignals \/ Run!CancelContext
  <2>1. exit' = exit /\ done' = done /\ main # "returned"
    BY <1>2 DEF Run!Subscribe, Run!Start, Run!TakeSignal, Run!AcceptSignal, Run!StopSignals, Run!CancelContext
  <2>2. exit' = -1 /\ main' # "returned"
    BY <1>2, <2>1 DEF Run!Subscribe, Run!Start, Run!TakeSignal, Run!AcceptSignal, Run!StopSignals, Run!CancelContext
  <2>3. /\ main' \in {"start", "preload"} => dispatch' = "none"
        /\ main' \in {"select", "recheck", "stop", "cancel", "join"} => dispatch' # "none"
        /\ dispatch' = "none" => dispatch = "none"
        /\ dispatch' = "returned" <=> dispatch = "returned"
    BY <1>2 DEF Run!Subscribe, Run!Start, Run!TakeSignal, Run!AcceptSignal, Run!StopSignals, Run!CancelContext
  <2> QED
    BY <1>1, <2>1, <2>2, <2>3
<1>3. CASE Run!PreloadedSignal
  <2>1. exit' \in {130, 143} /\ dispatch' = dispatch /\ dispatch = "none" /\ done' = done /\ main' = "returned"
    BY <1>3 DEF Run!PreloadedSignal, Run!Return, Run!signalExit
  <2> QED
    BY <1>1, <2>1
<1>4. ASSUME dispatch = "returned", done \in CommandResults, UNCHANGED <<dispatch, done, got, jsonBroken>>,
             main' = "returned",
             exit' = Run!report(done) \/ exit' = Run!reportAfterSignal(done, got)
      PROVE  ExitJustified'
  <2>1. exit' \in Nat
    BY <1>4, ExitCodes
  <2>2. Run!report(done)' = Run!report(done)
        /\ Run!reportAfterSignal(done, got)' = Run!reportAfterSignal(done, got)
    BY <1>4 DEF Run!report, Run!reportAfterSignal, Run!signalExit
  <2> QED
    BY <1>1, <1>4, <2>1, <2>2
<1>5. done # Run!NoResult => dispatch = "returned" /\ done \in CommandResults
  BY DEF ResultJustified
<1>6. CASE Run!Complete
  BY <1>4, <1>5, <1>6 DEF Run!Complete, Run!Return
<1>7. CASE Run!Join
  BY <1>4, <1>5, <1>7 DEF Run!Join, Run!Return
<1> QED
  BY <1>2, <1>3, <1>6, <1>7 DEF Run!Main

LEMMA SystemKeepsExit ==
  ASSUME IInv, Run!OperatingSystem, UNCHANGED <<requestVars, localVars>>
  PROVE  ExitJustified'
<1>1. phase' = phase /\ result' = result /\ step' = step
  BY DEF requestVars, localVars
<1>2. exit = -1 /\ UNCHANGED <<dispatch, done>>
      /\ \/ exit' = -1 /\ main' = main
         \/ exit' = -2 /\ main' = "returned"
  BY DEF Run!OperatingSystem, Run!CloseSource, Run!SendSignal, Run!Running, Run!Killed
<1> QED
  BY <1>1, <1>2 DEF IInv, ExitJustified, Run!Running
-----------------------------------------------------------------------------
(* The whole. *)

LEMMA InitIInv == Init => IInv
<1> SUFFICES ASSUME Init PROVE IInv
  OBVIOUS
<1>1. Wire
  BY DEF Init, Request!Init, Wire, Request!NoReply
<1>2. Place
  <2>1. setting \in SettingType /\ (step = "plaintext" <=> setting.op = "create")
        /\ step \in {"plaintext", "target"}
    BY SettingsAssumption DEF Init
  <2> QED
    BY <2>1 DEF Init, Request!Init, Place, Steps, Early, SettingType
<1>3. HandedPrefix
  BY HandoffIsSeq DEF Init, HandedPrefix
<1>4. ResultJustified
  BY DEF Init, ResultJustified
<1>5. ExitJustified
  BY DEF Init, Run!Init, Request!Init, ExitJustified, Run!Running
<1> QED
  BY <1>1, <1>2, <1>3, <1>4, <1>5 DEF IInv

LEMMA CommandKeepsIInv == IInv /\ Command => IInv'
<1> SUFFICES ASSUME IInv, Command PROVE IInv'
  OBVIOUS
<1>1. CASE ReadPlaintext \/ CreatePhrase \/ ReadTarget \/ ReadToken \/ DiscloseServer \/ Answered \/ Hand
  <2>1. LocalKeeps
    BY <1>1, InputsKeep, DiscloseKeeps, AnsweredKeeps, HandKeeps
  <2>2. dispatch = "running" /\ exit = Run!Running
    BY <1>1 DEF ReadPlaintext, CreatePhrase, ReadTarget, ReadToken, DiscloseServer, Answered, Hand, At
  <2>3. UNCHANGED <<lifeVars, requestVars>>
    BY <1>1 DEF ReadPlaintext, CreatePhrase, ReadTarget, ReadToken, DiscloseServer, Answered, Hand, Others
  <2>4. Wire' /\ ExitJustified'
    BY <2>2, <2>3, SameWire, LocalKeepsExit DEF IInv
  <2> QED
    BY <2>1, <2>4 DEF IInv, LocalKeeps
<1>2. CASE Call
  <2>1. ExitJustified'
    BY <1>2, LocalKeepsExit DEF Call, At
  <2> QED
    BY <1>2, <2>1, CallKeeps DEF IInv, LocalKeeps
<1>3. CASE CommandEnds
  <2>1. UNCHANGED <<requestVars, localVars>>
    BY <1>3 DEF CommandEnds
  <2>2. Wire'
    BY <2>1, SameWire DEF IInv
  <2>3. Place' /\ HandedPrefix' /\ ResultJustified'
    BY <2>1, SameHandoff DEF IInv, localVars, requestVars, Place, HandedPrefix, ResultJustified, Complete
  <2> QED
    BY <1>3, <2>2, <2>3, EndsKeepsExit DEF IInv
<1> QED
  BY <1>1, <1>2, <1>3 DEF Command

LEMMA NextKeepsIInv == IInv /\ [Next]_vars => IInv'
<1> SUFFICES ASSUME IInv, [Next]_vars PROVE IInv'
  OBVIOUS
<1>1. ASSUME UNCHANGED <<setting, step, server, disclosed, handed, result, phase, outcome>>
      PROVE  Place' /\ HandedPrefix' /\ ResultJustified'
  BY <1>1, SameHandoff DEF IInv, Place, HandedPrefix, ResultJustified, Complete
<1>2. CASE Command
  BY <1>2, CommandKeepsIInv
<1>3. CASE Network
  <2>1. Wire'
    BY <1>3, NetworkKeepsWire DEF IInv, Network
  <2>2. UNCHANGED <<lifeVars, localVars, phase, outcome>>
    BY <1>3 DEF Network, Request!WriteHeaders, Request!FlushRequest, Request!ServerExecutes, Request!ServerReplies
  <2>3. ExitJustified'
    BY <2>2 DEF IInv, ExitJustified, lifeVars, localVars, Run!report, Run!reportAfterSignal, Run!signalExit
  <2> QED
    BY <1>1, <2>1, <2>2, <2>3 DEF IInv, localVars
<1>4. CASE Life
  <2>1. UNCHANGED <<requestVars, localVars>>
    BY <1>4 DEF Life
  <2>2. Wire' /\ ExitJustified'
    BY <1>4, <2>1, SameWire, MainKeepsExit, SystemKeepsExit DEF IInv, Life, Run!RunNext
  <2> QED
    BY <1>1, <2>1, <2>2 DEF IInv, requestVars, localVars
<1>5. CASE UNCHANGED vars
  <2>1. UNCHANGED <<lifeVars, requestVars, localVars>>
    BY <1>5 DEF vars
  <2>2. ExitJustified'
    BY <2>1 DEF IInv, ExitJustified, lifeVars, requestVars, localVars, Run!report, Run!reportAfterSignal, Run!signalExit
  <2> QED
    BY <1>1, <2>1, <2>2, SameWire DEF IInv, requestVars, localVars
<1> QED
  BY <1>2, <1>3, <1>4, <1>5 DEF Next

\* The strengthened invariant holds in every reachable state.
THEOREM Invariance == Spec => []IInv
BY InitIInv, NextKeepsIInv, PTL DEF Spec

\* Exit zero: the server has created or burned the secret, and every part of
\* the result was written.
THEOREM ZeroMeansHandedOverAlways == Spec => []ZeroMeansHandedOver
<1>1. IInv => ZeroMeansHandedOver
  <2> SUFFICES ASSUME IInv, exit = 0 PROVE served = "executed" /\ Complete
    BY DEF ZeroMeansHandedOver
  <2>1. dispatch = "returned" /\ done = result /\ result \in CommandResults
    BY Results DEF IInv, ExitJustified, ResultJustified
  <2>2. result.exit \in Nat /\ (exit = Run!report(result) \/ exit = Run!reportAfterSignal(result, got))
    BY <2>1, Results DEF IInv, ExitJustified
  <2>3. result.exit = 0
    BY <2>2 DEF Run!report, Run!reportAfterSignal, Run!signalExit
  <2>4. Complete /\ outcome = "ok"
    BY <2>1, <2>3, Results DEF IInv, ResultJustified
  <2> QED
    BY <2>4 DEF IInv, Wire
<1> QED
  BY <1>1, Invariance, PTL

\* A signal's exit status: the server never changes anything, or the user has
\* the whole result.
THEOREM SignalStatusIsHonestAlways == Spec => []SignalStatusIsHonest
<1>1. IInv => SignalStatusIsHonest
  <2> SUFFICES ASSUME IInv, exit \in {130, 143}, served = "executed" PROVE Complete
    BY DEF SignalStatusIsHonest
  <2>1. sent /\ phase # "ready" /\ outcome # "network"
    BY DEF IInv, Wire
  <2>2. dispatch = "returned" /\ done = result /\ result \in CommandResults
    BY <2>1, Results DEF IInv, ExitJustified, ResultJustified
  <2>3. result.exit \in Nat /\ (exit = Run!report(result) \/ exit = Run!reportAfterSignal(result, got))
    BY <2>2, Results DEF IInv, ExitJustified
  <2>4. result.exit = 0 \/ result.cause # "none" \/ result.exit >= 128
    BY <2>3 DEF Run!report, Run!reportAfterSignal
  <2> QED
    BY <2>1, <2>2, <2>4, Results DEF IInv, ResultJustified
<1> QED
  BY <1>1, Invariance, PTL

\* A request goes only to the server that was disclosed, and to the origin of
\* the link where there is one.
THEOREM TokenStaysAtOriginAlways == Spec => []TokenStaysAtOrigin
<1>1. IInv => TokenStaysAtOrigin
  BY DEF IInv, Place, TokenStaysAtOrigin
<1> QED
  BY <1>1, Invariance, PTL
=============================================================================
