---------------------- MODULE PlaintextCommandsProofs ----------------------
(***************************************************************************)
(* Proofs about PlaintextCommands: reveal and decrypt with their request,  *)
(* Run, the operating system, files and the user, for every set of         *)
(* settings, every number of signals and every server that keeps the       *)
(* contract.                                                               *)
(*                                                                         *)
(* As in HandoffCommandsProofs the argument goes from the exit status back *)
(* to the server: Run follows the command (ExitJustified), and a result    *)
(* has a reason (ResultJustified) in what the command knows of the request *)
(* (Wire). What is specific to plaintext is what holds at each place of    *)
(* the command between claim and delivery (Place): the reservations it     *)
(* still owns (Files), the recovery file that is written.                  *)
(***************************************************************************)
EXTENDS PlaintextCommands, TLAPS

\* The request, as in MutationRequestProofs.
Wire ==
  /\ op = "claim"
  /\ wrote <=> writer # "idle"
  /\ sent => writer = "done"
  /\ phase \in {"ready", "dialing"} => writer = "idle" /\ ~open
  /\ phase = "failed" => ~open
  /\ outcome = "network" => ~open /\ ~sent
  /\ served = "executed" => sent
  /\ reply # Request!NoReply =>
       /\ <<op, reply.status>> \in NoEffect => served = "refused"
       /\ reply.status = 200 /\ reply.body = "valid" => served = "executed"
       /\ reply.status \in Statuses
  /\ phase = "reading" => reply # Request!NoReply
  /\ outcome = "none" <=> phase # "returned"
  /\ outcome = "ok" => served = "executed"
  /\ outcome \in Request!Refusals \ {"network"} => served = "refused"

Tail == {"discardKeep", "discardOut", "end"}

\* From the claim on.
Late == {"recovery", "decrypt", "retry", "prompt", "deliver", "viewer"}

Files ==
  /\ disk \in [Paths -> {"none", "foreign", "reserved", "written"}]
  /\ ours \subseteq Paths
  /\ \A p \in Paths : p \in ours <=> disk[p] = "reserved"
  /\ ours \subseteq {setting.out, setting.keep}
  /\ step = "discardOut" => setting.keep \notin ours
  /\ step = "end" => ours = {}

\* Where the command is, and what that says of everything else.
Place ==
  /\ setting \in Settings /\ step \in Steps
  /\ step \in Steps \ (Late \union Tail \union {"claim"}) => phase = "ready"
  /\ step \in {"url", "keepBlob", "disclose", "claim", "recovery"} => ~setting.offline
  /\ step = "blob" => setting.offline
  /\ setting.offline => phase = "ready"
  /\ step \in Late => setting.offline \/ outcome = "ok"
  /\ step = "claim" \/ phase # "ready" =>
       "server" \in told /\ (setting.dest = "terminal" => setting.terminal)
  /\ step \in {"keepBlob", "disclose"} => (setting.dest = "terminal" => setting.terminal)
  /\ step \in {"keepBlob", "disclose", "claim", "blob"} \union Late =>
       (setting.dest = "file" => setting.out \in ours)
  /\ step = "phrase" => (setting.offline /\ setting.dest = "file" => setting.out \in ours)
  /\ step \in {"disclose", "claim", "recovery"} =>
       (setting.keep # "none" => setting.keep \in ours /\ setting.keep # setting.out)
  /\ step \in Late \ {"recovery"} => (setting.keep # "none" => disk[setting.keep] = "written")
  /\ step = "viewer" => setting.dest = "terminal"
  /\ step \notin Tail => ~delivered /\ handoff # "pending"

\* The user has, or knows of, what a lost delivery leaves.
Saved == setting.keep # "none" /\ disk[setting.keep] = "written"

Warned == "discarded" \in told \/ "recoveryFailed" \in told

ResultJustified ==
  /\ result \in CommandResults \union {Run!NoResult}
  /\ step \in Tail <=> result # Run!NoResult
  /\ delivered /\ setting.dest = "file" => disk[setting.out] = "written"
  /\ step \in Tail =>
       /\ result.exit = 0 => delivered /\ (setting.offline \/ outcome = "ok")
       /\ outcome = "none" => phase = "ready"
       /\ outcome = "unknown" => result = Error(9, "none")
       /\ delivered \/ phase = "ready" \/ outcome \in Request!Refusals
            \/ Saved \/ Warned \/ result = Error(9, "none")
       /\ handoff = "pending" => delivered \/ result = Error(3, "none")

\* How Run follows the command.
ExitJustified ==
  /\ main = "returned" <=> exit # Run!Running
  /\ main \in {"start", "preload"} => dispatch = "none"
  /\ main \in {"select", "recheck", "stop", "cancel", "join"} => dispatch # "none"
  /\ dispatch = "none" => phase = "ready" /\ ours = {} /\ step \notin Tail
  /\ dispatch = "returned" => done = result /\ step = "end"
  /\ dispatch # "returned" => done = Run!NoResult
  /\ exit \in Int
  /\ exit >= 0 =>
       \/ dispatch = "none" /\ exit \in {130, 143}
       \/ /\ dispatch = "returned"
          /\ \/ exit = Run!report(done)
             \/ exit = Run!reportAfterSignal(done, got)

IInv == Wire /\ Files /\ Place /\ ResultJustified /\ ExitJustified
-----------------------------------------------------------------------------
(* The request. *)

LEMMA ClassifyReports ==
  ASSUME NEW s
  PROVE  /\ Request!classifyStatus("claim", s) \notin {"none", "ok", "network"}
         /\ Request!classifyStatus("claim", s) \in Request!Refusals => s \in {404, 429, 503}
BY DEF Request!classifyStatus, Request!Refusals

LEMMA RefusalsHaveNoEffect ==
  ASSUME NEW s \in Statuses \intersect {404, 429, 503}
  PROVE  <<"claim", s>> \in NoEffect
<1>1. <<"claim", s>> \in Request!DocumentedRefusals /\ <<"claim", s>> \in Request!Ops \X Statuses
  BY DEF Request!DocumentedRefusals, Request!Ops
<1> QED
  BY <1>1, RequestAssumption DEF Request!Contract

LEMMA CallerKeepsWire == Wire /\ Request!Caller => Wire'
<1> SUFFICES ASSUME Wire, Request!Caller PROVE Wire'
  OBVIOUS
<1> USE DEF Wire
<1>1. CASE Request!Begin \/ Request!DialSucceeds \/ Request!DialFails \/ Request!GiveUp
  BY <1>1 DEF Request!Begin, Request!DialSucceeds, Request!DialFails, Request!GiveUp, Request!Refusals
<1>2. CASE Request!ReturnError \/ Request!ReceiveHeaders
  BY <1>2 DEF Request!ReturnError, Request!ReceiveHeaders, Request!Refusals
<1>3. CASE Request!ReturnResponse
  <2>1. phase = "reading" /\ reply # Request!NoReply /\ reply.status \in Statuses
    BY <1>3 DEF Request!ReturnResponse
  <2>2. /\ outcome' \notin {"none", "network"}
        /\ outcome' = "ok" => reply.status = 200 /\ reply.body = "valid"
        /\ outcome' \in Request!Refusals => reply.status \in {404, 429, 503}
    BY <1>3, ClassifyReports DEF Request!ReturnResponse, Request!Refusals
  <2>3. outcome' \in Request!Refusals => served = "refused"
    BY <2>1, <2>2, RefusalsHaveNoEffect
  <2>4. outcome' = "ok" => served = "executed"
    BY <2>1, <2>2
  <2> QED
    BY <1>3, <2>2, <2>3, <2>4 DEF Request!ReturnResponse
<1> QED
  BY <1>1, <1>2, <1>3 DEF Request!Caller

LEMMA NetworkKeepsWire ==
  ASSUME Wire, \/ Request!WriteHeaders \/ Request!FlushRequest
               \/ Request!ServerExecutes \/ Request!ServerReplies
  PROVE  Wire'
<1> USE DEF Wire
<1>1. CASE Request!WriteHeaders \/ Request!FlushRequest
  BY <1>1 DEF Request!WriteHeaders, Request!FlushRequest
<1>2. CASE Request!ServerExecutes
  BY <1>2 DEF Request!ServerExecutes, Request!Refusals
<1>3. CASE Request!ServerReplies
  <2>1. reply'.status \in Statuses /\ reply' # Request!NoReply
    BY <1>3, RequestAssumption DEF Request!ServerReplies, Request!Replies, Request!Contract, Request!NoReply
  <2>2. reply'.status = 200 => <<op, reply'.status>> \notin NoEffect
    BY RequestAssumption DEF Request!Contract
  <2>3. CASE <<op, reply'.status>> \in NoEffect
    BY <1>3, <2>1, <2>2, <2>3 DEF Request!ServerReplies
  <2>4. CASE <<op, reply'.status>> \notin NoEffect
    BY <1>3, <2>1, <2>4 DEF Request!ServerReplies
  <2> QED
    BY <2>3, <2>4
<1> QED
  BY <1>1, <1>2, <1>3

LEMMA SameWire == Wire /\ UNCHANGED requestVars => Wire'
BY DEF Wire, requestVars
-----------------------------------------------------------------------------
(* Results of the command. *)

LEMMA Results ==
  /\ Run!NoResult \notin CommandResults
  /\ \A e \in CommandResults :
       /\ e \in [exit : Nat, cause : {"none", "canceled", "interrupted"}]
       /\ e.exit >= 128 => e.exit = 130
       /\ e.exit = 0 => e.cause = "none"
BY DEF CommandResults, Error, Run!NoResult

LEMMA TheErrors ==
  /\ \A code \in 2..10 : Error(code, "none") \in CommandResults /\ Error(code, "none").exit # 0
  /\ \A e \in {Error(130, "canceled"), Error(130, "interrupted"), Error(3, "canceled"), Error(7, "canceled")} :
       e \in CommandResults /\ e.exit # 0
  /\ Error(0, "none") \in CommandResults /\ Error(0, "none").exit = 0
  /\ \A e \in BadInput : e \in CommandResults /\ e.exit # 0
BY DEF CommandResults, Error, BadInput
-----------------------------------------------------------------------------
(* The command before the claim. *)

\* What a step of the command owes to its own state.
LocalKeeps == Files' /\ Place' /\ ResultJustified'

Early == Steps \ (Late \union Tail \union {"claim"})

\* The command fails while nothing has been sent.
LEMMA EarlyFails ==
  ASSUME IInv, step \in Early, NEW e \in CommandResults, e.exit # 0, Fail(e),
         UNCHANGED <<phase, outcome, setting, disk, ours, told, delivered, handoff>>
  PROVE  LocalKeeps
<1>1. phase = "ready" /\ ~delivered /\ handoff # "pending" /\ step \notin Tail
  BY DEF IInv, Place, Early
<1>2. e # Run!NoResult
  BY Results
<1>3. outcome = "none"
  BY <1>1 DEF IInv, Wire
<1>4. step' = "discardKeep" /\ result' = e
  BY DEF Fail
<1>5. Place'
  BY <1>1, <1>4 DEF IInv, Place, Steps, Late, Tail
<1>6. Files'
  BY <1>4 DEF IInv, Files
<1>7. ResultJustified'
  BY <1>1, <1>2, <1>3, <1>4 DEF ResultJustified, Tail
<1> QED
  BY <1>5, <1>6, <1>7 DEF LocalKeeps

\* The command goes on: what is known of its new place, and of its files, is
\* left to the step.
LEMMA EarlyGoes ==
  ASSUME IInv, step \in Early, NEW next \in {"phrase", "blob", "destination", "keepBlob", "disclose", "claim", "decrypt"},
         Go(next), UNCHANGED <<phase, outcome, setting, delivered, handoff>>,
         Files',
         next \in {"keepBlob", "disclose", "claim"} => ~setting.offline,
         next \in {"blob", "decrypt"} => setting.offline,
         next = "claim" => "server" \in told',
         next \in {"keepBlob", "disclose", "claim"} => (setting.dest = "terminal" => setting.terminal),
         next \notin {"phrase", "destination"} \/ (next = "phrase" /\ setting.offline) =>
           (setting.dest = "file" => setting.out \in ours'),
         next \in {"disclose", "claim"} =>
           (setting.keep # "none" => setting.keep \in ours' /\ setting.keep # setting.out)
  PROVE  LocalKeeps
<1>1. phase = "ready" /\ ~delivered /\ handoff # "pending" /\ step \notin Tail
  BY DEF IInv, Place, Early
<1>2. step' = next /\ result' = result /\ step' \notin Tail
  BY DEF Go, Tail
<1>3. setting.offline => setting.keep = "none"
  BY SettingsAssumption DEF IInv, Place
<1>4. Place'
  <2>1. setting' \in Settings /\ step' \in Steps /\ phase' = "ready"
    BY <1>1, <1>2 DEF IInv, Place, Steps
  <2>2. ~delivered' /\ handoff' # "pending"
    BY <1>1
  <2> QED
    BY <1>2, <1>3, <2>1, <2>2 DEF Place, Late, Tail
<1>5. ResultJustified'
  BY <1>1, <1>2 DEF IInv, ResultJustified
<1> QED
  BY <1>4, <1>5 DEF LocalKeeps

\* A step that touches no file.
LEMMA SameFiles ==
  ASSUME IInv, UNCHANGED <<setting, disk, ours>>, step' \notin {"discardOut", "end"}
  PROVE  Files'
BY DEF IInv, Files

\* reserve succeeds: the path is the command's, whatever else was stays.
LEMMA Reserves ==
  ASSUME IInv, NEW p \in Paths, p \in {setting.out, setting.keep}, disk[p] = "none",
         disk' = [disk EXCEPT ![p] = "reserved"], ours' = ours \union {p},
         setting' = setting, step' \notin {"discardOut", "end"}
  PROVE  Files' /\ p \notin ours /\ p \in ours'
BY DEF IInv, Files

LEMMA EarlyKeeps ==
  ASSUME IInv, \/ ReadURL \/ ReadPassphrase \/ ReadBlob \/ InputCanceled \/ PrepareDestination
               \/ ReserveKeepBlob \/ DiscloseServer
  PROVE  LocalKeeps
<1>1. setting \in Settings /\ setting \in SettingType
  BY SettingsAssumption DEF IInv, Place
<1>2. /\ setting.dest = "file" <=> setting.out # "none"
      /\ setting.out \in Paths \union {"none"} /\ setting.keep \in Paths \union {"none"}
      /\ setting.offline \in BOOLEAN
  BY <1>1, SettingsAssumption DEF SettingType
<1>3. CASE ReadURL
  <2>1. step = "url" /\ step \in Early /\ UNCHANGED <<phase, outcome, setting, disk, ours, told, delivered, handoff>>
    BY <1>3 DEF ReadURL, At, Early, Steps, Late, Tail, Others, requestVars
  <2>2. ~setting.offline
    BY <2>1 DEF IInv, Place
  <2>3. CASE Go("phrase")
    <3>1. Files'
      BY <2>1, <2>3, SameFiles DEF Go
    <3> QED
      BY <2>1, <2>2, <2>3, <3>1, EarlyGoes
  <2>4. ASSUME NEW e \in BadInput, Fail(e) PROVE LocalKeeps
    BY <2>1, <2>4, EarlyFails, TheErrors
  <2> QED
    BY <1>3, <2>3, <2>4 DEF ReadURL
<1>4. CASE ReadPassphrase
  <2>1. step = "phrase" /\ step \in Early /\ UNCHANGED <<phase, outcome, setting, disk, ours, told, delivered, handoff>>
    BY <1>4 DEF ReadPassphrase, At, Early, Steps, Late, Tail, Others, requestVars
  <2>2. setting.offline /\ setting.dest = "file" => setting.out \in ours
    BY <2>1 DEF IInv, Place
  <2>3. CASE setting.offline /\ Go("blob")
    <3>1. Files'
      BY <2>1, <2>3, SameFiles DEF Go
    <3> QED
      BY <2>1, <2>2, <2>3, <3>1, EarlyGoes
  <2>4. CASE ~setting.offline /\ Go("destination")
    <3>1. Files'
      BY <2>1, <2>4, SameFiles DEF Go
    <3> QED
      BY <2>1, <2>4, <3>1, EarlyGoes
  <2>5. ASSUME NEW e \in BadInput, Fail(e) PROVE LocalKeeps
    BY <2>1, <2>5, EarlyFails, TheErrors
  <2> QED
    BY <1>2, <1>4, <2>3, <2>4, <2>5 DEF ReadPassphrase
<1>5. CASE ReadBlob
  <2>1. step = "blob" /\ step \in Early /\ UNCHANGED <<phase, outcome, setting, disk, ours, told, delivered, handoff>>
    BY <1>5 DEF ReadBlob, At, Early, Steps, Late, Tail, Others, requestVars
  <2>2. setting.offline /\ (setting.dest = "file" => setting.out \in ours)
    BY <2>1 DEF IInv, Place
  <2>3. CASE Go("decrypt")
    <3>1. Files'
      BY <2>1, <2>3, SameFiles DEF Go
    <3> QED
      BY <2>1, <2>2, <2>3, <3>1, EarlyGoes
  <2>4. ASSUME NEW code \in {2, 3, 8}, Fail(Error(code, "none")) PROVE LocalKeeps
    BY <2>1, <2>4, EarlyFails, TheErrors
  <2> QED
    BY <1>5, <2>3, <2>4 DEF ReadBlob
<1>6. CASE InputCanceled
  <2>1. step \in Early /\ UNCHANGED <<phase, outcome, setting, disk, ours, told, delivered, handoff>>
        /\ (Fail(Error(3, "canceled")) \/ Fail(Error(130, "canceled")))
    BY <1>6 DEF InputCanceled, At, Early, Steps, Late, Tail, Others, requestVars
  <2> QED
    BY <2>1, EarlyFails, TheErrors
<1>7. CASE PrepareDestination
  <2>1. step = "destination" /\ step \in Early /\ UNCHANGED <<phase, outcome, setting, told, delivered, handoff>>
    BY <1>7 DEF PrepareDestination, At, Early, Steps, Late, Tail, Others, requestVars
  <2>2. /\ AfterDestination \in {"phrase", "keepBlob"}
        /\ AfterDestination = "keepBlob" => ~setting.offline
    BY DEF AfterDestination
  <2>3. CASE Fail(Error(3, "none")) /\ UNCHANGED <<disk, ours>>
    BY <2>1, <2>3, EarlyFails, TheErrors
  <2>4. CASE /\ setting.dest = "file" /\ disk[setting.out] = "none"
             /\ disk' = [disk EXCEPT ![setting.out] = "reserved"]
             /\ ours' = ours \union {setting.out}
             /\ Go(AfterDestination)
    <3>1. step' \notin {"discardOut", "end"} /\ setting.out \in Paths
      BY <1>2, <2>2, <2>4 DEF Go
    <3>2. Files' /\ setting.out \in ours'
      BY <2>1, <2>4, <3>1, Reserves
    <3> QED
      BY <2>1, <2>2, <2>4, <3>2, EarlyGoes
  <2>5. CASE /\ setting.dest # "file" /\ (setting.dest = "terminal" => setting.terminal)
             /\ Go(AfterDestination) /\ UNCHANGED <<disk, ours>>
    <3>1. Files'
      BY <2>1, <2>2, <2>5, SameFiles DEF Go
    <3> QED
      BY <2>1, <2>2, <2>5, <3>1, EarlyGoes
  <2> QED
    BY <1>7, <2>3, <2>4, <2>5 DEF PrepareDestination, reserve
<1>8. CASE ReserveKeepBlob
  <2>1. step = "keepBlob" /\ step \in Early /\ UNCHANGED <<phase, outcome, setting, told, delivered, handoff>>
    BY <1>8 DEF ReserveKeepBlob, At, Early, Steps, Late, Tail, Others, requestVars
  <2>2. /\ ~setting.offline /\ (setting.dest = "terminal" => setting.terminal)
        /\ setting.dest = "file" => setting.out \in ours
    BY <2>1 DEF IInv, Place
  <2>3. CASE Fail(Error(3, "none")) /\ UNCHANGED <<disk, ours>>
    BY <2>1, <2>3, EarlyFails, TheErrors
  <2>4. CASE /\ setting.keep # "none" /\ disk[setting.keep] = "none"
             /\ disk' = [disk EXCEPT ![setting.keep] = "reserved"]
             /\ ours' = ours \union {setting.keep}
             /\ Go("disclose")
    <3>1. step' \notin {"discardOut", "end"} /\ setting.keep \in Paths
      BY <1>2, <2>4 DEF Go
    <3>2. Files' /\ setting.keep \in ours' /\ setting.keep \notin ours
      BY <2>1, <2>4, <3>1, Reserves
    <3>3. setting.keep # setting.out /\ (setting.dest = "file" => setting.out \in ours')
      BY <1>2, <2>2, <2>4, <3>2
    <3> QED
      BY <2>1, <2>2, <2>4, <3>2, <3>3, EarlyGoes
  <2>5. CASE setting.keep = "none" /\ Go("disclose") /\ UNCHANGED <<disk, ours>>
    <3>1. Files'
      BY <2>1, <2>5, SameFiles DEF Go
    <3> QED
      BY <2>1, <2>2, <2>5, <3>1, EarlyGoes
  <2> QED
    BY <1>8, <2>3, <2>4, <2>5 DEF ReserveKeepBlob, reserve
<1>9. CASE DiscloseServer
  <2>1. step = "disclose" /\ step \in Early /\ UNCHANGED <<phase, outcome, setting, disk, ours, delivered, handoff>>
    BY <1>9 DEF DiscloseServer, At, Early, Steps, Late, Tail, Others, requestVars
  <2>2. CASE Go("claim") /\ told' = told \union {"server"}
    <3>1. Files'
      BY <2>1, <2>2, SameFiles DEF Go
    <3>2. /\ ~setting.offline /\ (setting.dest = "terminal" => setting.terminal)
          /\ setting.dest = "file" => setting.out \in ours
          /\ setting.keep # "none" => setting.keep \in ours /\ setting.keep # setting.out
      BY <2>1 DEF IInv, Place
    <3> QED
      BY <2>1, <2>2, <3>1, <3>2, EarlyGoes
  <2>3. CASE Fail(Error(3, "none")) /\ UNCHANGED told
    BY <2>1, <2>3, EarlyFails, TheErrors
  <2> QED
    BY <1>9, <2>2, <2>3 DEF DiscloseServer
<1> QED
  BY <1>3, <1>4, <1>5, <1>6, <1>7, <1>8, <1>9
-----------------------------------------------------------------------------
(* The claim, and the command after it. *)

LEMMA ClaimKeeps == IInv /\ Claim => Wire' /\ LocalKeeps
<1> SUFFICES ASSUME IInv, Claim PROVE Wire' /\ LocalKeeps
  OBVIOUS
<1>1. step = "claim" /\ UNCHANGED <<setting, step, disk, ours, handoff, told, delivered, result>>
  BY DEF Claim, At, localVars
<1>2. Wire'
  BY CallerKeepsWire DEF IInv, Claim
<1>3. Files'
  BY <1>1, SameFiles
<1>4. Place'
  BY <1>1 DEF IInv, Place, Late, Tail
<1>5. ResultJustified'
  BY <1>1 DEF IInv, ResultJustified, Tail
<1> QED
  BY <1>2, <1>3, <1>4, <1>5 DEF LocalKeeps

\* What mapAPIError makes of a request that failed.
LEMMA MappedAreJustified ==
  ASSUME NEW e \in MappedErrors
  PROVE  /\ e \in CommandResults /\ e.exit # 0
         /\ e = Error(9, "none") \/ outcome \in Request!Refusals
         /\ outcome = "unknown" => e = Error(9, "none")
<1>1. \/ outcome \in Request!Refusals /\ e \in {Error(code, "none") : code \in {4, 6, 7}}
      \/ outcome = "unknown" /\ e = Error(9, "none")
      \/ outcome = "network" /\ e = Error(7, "canceled")
  BY DEF MappedErrors, Request!Refusals
<1>2. "network" \in Request!Refusals /\ "unknown" \notin Request!Refusals
  BY DEF Request!Refusals
<1>3. \A code \in {4, 6, 7, 9} : Error(code, "none") \in CommandResults /\ Error(code, "none").exit # 0
  BY TheErrors
<1> QED
  BY <1>1, <1>2, <1>3, TheErrors

LEMMA ClaimedKeeps == IInv /\ Claimed => LocalKeeps
<1> SUFFICES ASSUME IInv, Claimed PROVE LocalKeeps
  OBVIOUS
<1>1. step = "claim" /\ outcome # "none"
      /\ UNCHANGED <<phase, outcome, setting, disk, ours, told, delivered, handoff>>
  BY DEF Claimed, At, Others, requestVars
<1>2. CASE outcome = "ok" /\ Go("recovery")
  <2>1. Files'
    BY <1>1, <1>2, SameFiles DEF Go
  <2>2. Place'
    BY <1>1, <1>2 DEF IInv, Place, Go, Steps, Late, Tail
  <2>3. ResultJustified'
    BY <1>1, <1>2 DEF IInv, ResultJustified, Go, Tail
  <2> QED
    BY <2>1, <2>2, <2>3 DEF LocalKeeps
<1>3. ASSUME NEW e \in MappedErrors, Fail(e) PROVE LocalKeeps
  <2>1. e \in CommandResults /\ e # Run!NoResult /\ e.exit # 0
        /\ (e = Error(9, "none") \/ outcome \in Request!Refusals)
        /\ (outcome = "unknown" => e = Error(9, "none"))
    BY MappedAreJustified, Results
  <2>2. step' = "discardKeep" /\ result' = e
    BY <1>3 DEF Fail
  <2>3. Files'
    BY <1>1, <2>2, SameFiles
  <2>4. Place'
    BY <1>1, <2>2 DEF IInv, Place, Steps, Late, Tail
  <2>5. ~delivered /\ handoff # "pending"
    BY <1>1 DEF IInv, Place, Tail
  <2>6. ResultJustified'
    BY <1>1, <2>1, <2>2, <2>5 DEF ResultJustified, Tail
  <2> QED
    BY <2>3, <2>4, <2>6 DEF LocalKeeps
<1> QED
  BY <1>2, <1>3 DEF Claimed

\* The claim is behind the command, or there was none.
LEMMA LateOutcome ==
  ASSUME IInv, step \in Late
  PROVE  \/ setting.offline /\ phase = "ready" /\ outcome = "none"
         \/ ~setting.offline /\ outcome = "ok"
BY DEF IInv, Place, Wire

LEMMA LateGoes ==
  ASSUME IInv, step \in Late, NEW next \in {"decrypt", "retry", "prompt", "deliver", "viewer"},
         Go(next), UNCHANGED <<phase, outcome, setting, told, delivered>>,
         Files', handoff' # "pending",
         setting.dest = "file" => setting.out \in ours',
         setting.keep # "none" => disk'[setting.keep] = "written",
         next = "viewer" => setting.dest = "terminal"
  PROVE  LocalKeeps
<1>1. step' = next /\ step' \in Late \ {"recovery"} /\ step' \in Steps /\ result' = result
      /\ step \notin Tail /\ step' \notin Tail
  BY DEF Go, Late, Steps, Tail
<1>2. setting' \in Settings /\ ~delivered'
  BY <1>1 DEF IInv, Place
<1>3. Place'
  BY <1>1, <1>2, LateOutcome DEF IInv, Place, Late, Tail
<1>4. ResultJustified'
  BY <1>1, <1>2 DEF IInv, ResultJustified
<1> QED
  BY <1>3, <1>4 DEF LocalKeeps

\* The command ends behind the claim, with the plaintext delivered or a reason.
LEMMA LateEnds ==
  ASSUME IInv, step \in Late, NEW e \in CommandResults, Fail(e),
         UNCHANGED <<phase, outcome, setting>>, told \subseteq told', Files',
         e.exit = 0 => delivered',
         delivered' /\ setting.dest = "file" => disk'[setting.out] = "written",
         delivered' \/ setting.offline \/ Saved' \/ Warned',
         handoff' = "pending" => delivered' \/ e = Error(3, "none")
  PROVE  LocalKeeps
<1>1. step' = "discardKeep" /\ result' = e /\ e # Run!NoResult
  BY Results DEF Fail
<1>2. Place'
  <2>1. setting' \in Settings /\ step' \in Steps /\ (setting.offline => phase = "ready")
        /\ (phase # "ready" => "server" \in told' /\ (setting.dest = "terminal" => setting.terminal))
    BY <1>1 DEF IInv, Place, Steps
  <2> QED
    BY <1>1, <2>1 DEF Place, Late, Tail
<1>3. ResultJustified'
  BY <1>1, LateOutcome DEF ResultJustified, Tail
<1> QED
  BY <1>2, <1>3 DEF LocalKeeps

\* Abandon leaves a trace: the warning, or the recovery file that is written.
LEMMA AbandonKeeps ==
  ASSUME IInv, step \in Late \ {"recovery"}, NEW e \in CommandResults, e.exit # 0, Abandon(e),
         UNCHANGED <<phase, outcome, setting, disk, ours, delivered>>,
         handoff' = "pending" => e = Error(3, "none")
  PROVE  LocalKeeps
<1>1. Fail(e) /\ told \subseteq told' /\ ~delivered'
  BY DEF Abandon, IInv, Place, Late, Tail
<1>2. Files'
  BY <1>1, SameFiles DEF Fail
<1>3. setting.keep # "none" => Saved'
  BY DEF IInv, Place, Saved
<1>4. setting.keep = "none" /\ ~setting.offline => Warned'
  BY DEF Abandon, Warned
<1> QED
  BY <1>1, <1>2, <1>3, <1>4, LateEnds

\* A delivery that touches no file.
LEMMA DeliveredKeeps ==
  ASSUME IInv, step \in Late \ {"recovery"}, Delivered, setting.dest # "file",
         UNCHANGED <<phase, outcome, setting, disk, ours>>
  PROVE  LocalKeeps
<1>1. Fail(Error(0, "none")) /\ told' = told /\ delivered' = TRUE
  BY DEF Delivered
<1>2. Files'
  BY <1>1, SameFiles DEF Fail
<1> QED
  BY <1>1, <1>2, LateEnds, TheErrors

LEMMA DecryptionKeeps ==
  ASSUME IInv, WriteRecovery \/ Decrypt \/ StartRetry \/ RetryPassphrase \/ RetryCanceled
  PROVE  LocalKeeps
<1>1. setting \in SettingType
  BY SettingsAssumption DEF IInv, Place
<1>2. \A code \in 2..10 : Error(code, "none") \in CommandResults /\ Error(code, "none").exit # 0
  BY TheErrors
<1>3. CASE WriteRecovery
  <2>1. step = "recovery" /\ step \in Late /\ UNCHANGED <<phase, outcome, setting, delivered, handoff>>
    BY <1>3 DEF WriteRecovery, At, Late, Others, requestVars
  <2>2. /\ setting.dest = "file" => setting.out \in ours
        /\ setting.keep # "none" => setting.keep \in ours /\ setting.keep # setting.out
        /\ ~delivered /\ handoff # "pending"
    BY <2>1 DEF IInv, Place, Late, Tail
  <2>3. CASE setting.keep = "none" /\ Go("decrypt") /\ UNCHANGED <<disk, ours, told>>
    <3>1. Files'
      BY <2>1, <2>3, SameFiles DEF Go
    <3> QED
      BY <2>1, <2>2, <2>3, <3>1, LateGoes
  <2>4. CASE /\ setting.keep # "none" /\ Go("decrypt") /\ told' = told
             /\ disk' = [disk EXCEPT ![setting.keep] = "written"] /\ ours' = ours \ {setting.keep}
    <3>1. setting.keep \in Paths
      BY <1>1, <2>4 DEF SettingType
    <3>2. Files' /\ disk'[setting.keep] = "written"
      BY <2>1, <2>4, <3>1 DEF IInv, Files, Go
    <3>3. setting.dest = "file" => setting.out \in ours'
      BY <2>2, <2>4
    <3> QED
      BY <2>1, <2>2, <2>4, <3>2, <3>3, LateGoes
  <2>5. CASE /\ Fail(Error(3, "none")) /\ told' = told \union {"recoveryFailed"}
             /\ UNCHANGED <<disk, ours>>
    <3>1. Files'
      BY <2>1, <2>5, SameFiles DEF Fail
    <3>2. Warned' /\ told \subseteq told'
      BY <2>5 DEF Warned
    <3> QED
      BY <1>2, <2>1, <2>2, <2>5, <3>1, <3>2, LateEnds
  <2> QED
    BY <1>3, <2>3, <2>4, <2>5 DEF WriteRecovery
<1>4. CASE Decrypt \/ StartRetry \/ RetryPassphrase \/ RetryCanceled
  <2>1. step \in Late \ {"recovery"} /\ UNCHANGED <<phase, outcome, setting, disk, ours, delivered, handoff>>
    BY <1>4 DEF Decrypt, StartRetry, RetryPassphrase, RetryCanceled, At, Late, Others, requestVars
  <2>2. /\ setting.dest = "file" => setting.out \in ours
        /\ setting.keep # "none" => disk[setting.keep] = "written"
        /\ handoff # "pending"
    BY <2>1 DEF IInv, Place, Late, Tail
  <2>3. ASSUME NEW next \in {"decrypt", "retry", "prompt", "deliver"}, Go(next), told' = told PROVE LocalKeeps
    <3>1. Files'
      BY <2>1, <2>3, SameFiles DEF Go
    <3> QED
      BY <2>1, <2>2, <2>3, <3>1, LateGoes
  <2>4. ASSUME NEW e \in CommandResults, e.exit # 0, Abandon(e) PROVE LocalKeeps
    BY <2>1, <2>2, <2>4, AbandonKeeps
  <2>5. CASE Decrypt
    BY <1>2, <2>3, <2>4, <2>5 DEF Decrypt
  <2>6. CASE StartRetry
    BY <2>3, <2>4, <2>6, TheErrors DEF StartRetry
  <2>7. CASE RetryPassphrase
    BY <2>3, <2>4, <2>7, TheErrors DEF RetryPassphrase
  <2>8. CASE RetryCanceled
    BY <2>4, <2>8, TheErrors DEF RetryCanceled
  <2> QED
    BY <1>4, <2>5, <2>6, <2>7, <2>8
<1> QED
  BY <1>3, <1>4

LEMMA DeliveryKeeps ==
  ASSUME IInv, Deliver \/ ViewerCloses \/ ViewerCanceled
  PROVE  LocalKeeps
<1>1. setting \in SettingType /\ (setting.dest = "file" <=> setting.out # "none")
  BY SettingsAssumption DEF IInv, Place
<1>2. step \in Late \ {"recovery"} /\ UNCHANGED <<phase, outcome, setting>>
  BY DEF Deliver, ViewerCloses, ViewerCanceled, At, Late, Others, requestVars
<1>3. /\ setting.dest = "file" => setting.out \in ours
      /\ setting.keep # "none" => disk[setting.keep] = "written"
      /\ handoff # "pending" /\ ~delivered
  BY <1>2 DEF IInv, Place, Late, Tail
<1>4. ASSUME NotDelivered(Error(3, "none")), UNCHANGED <<disk, ours>> PROVE LocalKeeps
  BY <1>2, <1>4, AbandonKeeps, TheErrors DEF NotDelivered
<1>5. CASE Deliver
  <2>1. CASE /\ setting.dest = "file" /\ Delivered
             /\ disk' = [disk EXCEPT ![setting.out] = "written"] /\ ours' = ours \ {setting.out}
    <3>1. setting.out \in Paths
      BY <1>1, <2>1 DEF SettingType
    <3>2. Fail(Error(0, "none")) /\ told' = told /\ delivered' = TRUE
      BY <2>1 DEF Delivered
    <3>3. Files' /\ disk'[setting.out] = "written"
      BY <1>2, <2>1, <3>1, <3>2 DEF IInv, Files, Fail
    <3> QED
      BY <1>2, <3>2, <3>3, LateEnds, TheErrors
  <2>2. CASE setting.dest # "file" /\ Delivered /\ UNCHANGED <<disk, ours>>
    BY <1>2, <2>2, DeliveredKeeps
  <2>3. CASE OpensViewer /\ Go("viewer") /\ UNCHANGED <<told, delivered, disk, ours>>
    <3>1. Files'
      BY <1>2, <2>3, SameFiles DEF Go
    <3>2. handoff' = "normal" /\ setting.dest = "terminal"
      BY <1>5, <2>3 DEF Deliver, OpensViewer
    <3> QED
      BY <1>2, <1>3, <2>3, <3>1, <3>2, LateGoes
  <2>4. CASE NotDelivered(Error(3, "none")) /\ UNCHANGED <<disk, ours>>
    BY <1>4, <2>4
  <2> QED
    BY <1>5, <2>1, <2>2, <2>3, <2>4 DEF Deliver, OpensViewer
<1>6. CASE ViewerCloses \/ ViewerCanceled
  <2>1. UNCHANGED <<disk, ours, handoff>>
    BY <1>6 DEF ViewerCloses, ViewerCanceled
  <2>2. step = "viewer"
    BY <1>6 DEF ViewerCloses, ViewerCanceled, At
  <2>3. ASSUME NEW e \in CommandResults, e.exit # 0, NotDelivered(e) PROVE LocalKeeps
    BY <1>2, <1>3, <2>1, <2>3, AbandonKeeps DEF NotDelivered
  <2>4. CASE Delivered /\ setting.dest # "file"
    BY <1>2, <2>1, <2>4, DeliveredKeeps
  <2>5. CASE ViewerCanceled
    BY <2>3, <2>5, TheErrors DEF ViewerCanceled
  <2>6. setting.dest # "file"
    BY <2>2 DEF IInv, Place
  <2> QED
    BY <1>6, <2>3, <2>4, <2>5, <2>6, TheErrors DEF ViewerCloses
<1> QED
  BY <1>5, <1>6

LEMMA DiscardsKeep ==
  ASSUME IInv, DiscardKeep \/ DiscardOut
  PROVE  LocalKeeps
<1>1. step \in Tail \ {"end"} /\ UNCHANGED <<phase, outcome, setting, told, delivered, handoff>>
  BY DEF DiscardKeep, DiscardOut, At, Tail, discardUnlessWritten, Others, requestVars
<1>2. step' \in Tail /\ result' = result
  BY DEF DiscardKeep, DiscardOut, discardUnlessWritten, Go, Tail
<1>3. \A p \in Paths : disk[p] = "written" => disk'[p] = "written"
  BY DEF IInv, Files, DiscardKeep, DiscardOut, discardUnlessWritten
<1>4. Files'
  BY <1>1 DEF IInv, Files, DiscardKeep, DiscardOut, discardUnlessWritten, At, Go
<1>5. Place'
  BY <1>1, <1>2 DEF IInv, Place, Steps, Late, Tail
<1>6. setting \in SettingType /\ (setting.dest = "file" <=> setting.out # "none")
  BY SettingsAssumption DEF IInv, Place
<1>7. (Saved => Saved') /\ (delivered /\ setting.dest = "file" => disk'[setting.out] = "written")
  BY <1>1, <1>3, <1>6 DEF IInv, ResultJustified, Saved, SettingType
<1>8. ResultJustified'
  BY <1>1, <1>2, <1>7 DEF IInv, ResultJustified, Warned
<1> QED
  BY <1>4, <1>5, <1>8 DEF LocalKeeps
-----------------------------------------------------------------------------
(* Run and the operating system. *)

\* A step of the command leaves Run where it is.
LEMMA LocalKeepsExit ==
  ASSUME IInv, Running, UNCHANGED lifeVars
  PROVE  ExitJustified'
BY DEF IInv, ExitJustified, Running, lifeVars, Run!Running

LEMMA EndsKeepsExit == IInv /\ CommandEnds => ExitJustified'
BY DEF IInv, ExitJustified, CommandEnds, Run!CommandReturns, Run!Running, localVars, Tail

LEMMA ExitCodes ==
  ASSUME NEW sig, NEW e \in CommandResults
  PROVE  /\ Run!signalExit(sig) \in {130, 143}
         /\ Run!report(e) \in Nat /\ Run!reportAfterSignal(e, sig) \in Nat
BY Results DEF Run!signalExit, Run!report, Run!reportAfterSignal

LEMMA MainKeepsExit ==
  ASSUME IInv, Run!Main, UNCHANGED <<requestVars, localVars>>
  PROVE  ExitJustified'
<1>1. phase' = phase /\ result' = result /\ step' = step /\ ours' = ours
  BY DEF requestVars, localVars
<1> USE DEF IInv, ExitJustified, Run!Running
<1>2. CASE Run!Subscribe \/ Run!Start \/ Run!TakeSignal \/ Run!AcceptSignal \/ Run!StopSignals \/ Run!CancelContext
  <2>1. exit' = exit /\ done' = done /\ main # "returned"
    BY <1>2 DEF Run!Subscribe, Run!Start, Run!TakeSignal, Run!AcceptSignal, Run!StopSignals, Run!CancelContext
  <2>2. exit' = -1 /\ main' # "returned"
    BY <1>2, <2>1 DEF Run!Subscribe, Run!Start, Run!TakeSignal, Run!AcceptSignal, Run!StopSignals, Run!CancelContext
  <2>3. /\ main' \in {"start", "preload"} => dispatch' = "none"
        /\ main' \in {"select", "recheck", "stop", "cancel", "join"} => dispatch' # "none"
        /\ dispatch' = "none" => dispatch = "none"
        /\ dispatch' = "returned" <=> dispatch = "returned"
    BY <1>2 DEF Run!Subscribe, Run!Start, Run!TakeSignal, Run!AcceptSignal, Run!StopSignals, Run!CancelContext
  <2> QED
    BY <1>1, <2>1, <2>2, <2>3
<1>3. CASE Run!PreloadedSignal
  <2>1. exit' \in {130, 143} /\ dispatch' = dispatch /\ dispatch = "none" /\ done' = done /\ main' = "returned"
    BY <1>3 DEF Run!PreloadedSignal, Run!Return, Run!signalExit
  <2> QED
    BY <1>1, <2>1
<1>4. ASSUME dispatch = "returned", done \in CommandResults, UNCHANGED <<dispatch, done, got, jsonBroken>>,
             main' = "returned",
             exit' = Run!report(done) \/ exit' = Run!reportAfterSignal(done, got)
      PROVE  ExitJustified'
  <2>1. exit' \in Nat
    BY <1>4, ExitCodes
  <2>2. Run!report(done)' = Run!report(done)
        /\ Run!reportAfterSignal(done, got)' = Run!reportAfterSignal(done, got)
    BY <1>4 DEF Run!report, Run!reportAfterSignal, Run!signalExit
  <2> QED
    BY <1>1, <1>4, <2>1, <2>2
<1>5. done # Run!NoResult => dispatch = "returned" /\ done \in CommandResults
  BY DEF ResultJustified
<1>6. CASE Run!Complete
  BY <1>4, <1>5, <1>6 DEF Run!Complete, Run!Return
<1>7. CASE Run!Join
  BY <1>4, <1>5, <1>7 DEF Run!Join, Run!Return
<1> QED
  BY <1>2, <1>3, <1>6, <1>7 DEF Run!Main

LEMMA SystemKeepsExit ==
  ASSUME IInv, Run!OperatingSystem, UNCHANGED <<requestVars, localVars>>
  PROVE  ExitJustified'
<1>1. phase' = phase /\ result' = result /\ step' = step /\ ours' = ours
  BY DEF requestVars, localVars
<1>2. exit = -1 /\ UNCHANGED <<dispatch, done>>
      /\ \/ exit' = -1 /\ main' = main
         \/ exit' = -2 /\ main' = "returned"
  BY DEF Run!OperatingSystem, Run!CloseSource, Run!SendSignal, Run!Running, Run!Killed
<1> QED
  BY <1>1, <1>2 DEF IInv, ExitJustified, Run!Running

-----------------------------------------------------------------------------
(* The whole. *)

LEMMA InitIInv == Init => IInv
<1> SUFFICES ASSUME Init PROVE IInv
  OBVIOUS
<1>1. Wire
  BY DEF Init, Request!Init, Wire, Request!NoReply, Request!Refusals
<1>2. Files
  BY DEF Init, Files
<1>3. Place
  <2>1. setting \in SettingType /\ step \in {"url", "destination"} /\ (step = "url" => ~setting.offline)
    BY SettingsAssumption DEF Init
  <2> QED
    BY <2>1 DEF Init, Request!Init, Place, Steps, Late, Tail
<1>4. ResultJustified
  BY DEF Init, ResultJustified, Tail
<1>5. ExitJustified
  BY DEF Init, Run!Init, Request!Init, ExitJustified, Run!Running, Tail
<1> QED
  BY <1>1, <1>2, <1>3, <1>4, <1>5 DEF IInv

\* Every step of the command but its calls and its end.
Local ==
  \/ ReadURL \/ ReadPassphrase \/ ReadBlob \/ InputCanceled \/ PrepareDestination
  \/ ReserveKeepBlob \/ DiscloseServer \/ Claimed
  \/ WriteRecovery \/ Decrypt \/ StartRetry \/ RetryPassphrase \/ RetryCanceled
  \/ Deliver \/ ViewerCloses \/ ViewerCanceled \/ DiscardKeep \/ DiscardOut

LEMMA LocalFrame == Local => Running /\ UNCHANGED <<lifeVars, requestVars>>
BY DEF Local, Others, At, ReadURL, ReadPassphrase, ReadBlob, InputCanceled, PrepareDestination,
       ReserveKeepBlob, DiscloseServer, Claimed, WriteRecovery, Decrypt, StartRetry, RetryPassphrase,
       RetryCanceled, Deliver, ViewerCloses, ViewerCanceled, DiscardKeep, DiscardOut, discardUnlessWritten

LEMMA CommandKeepsIInv == IInv /\ (Internal \/ Interactive) => IInv'
<1> SUFFICES ASSUME IInv, Internal \/ Interactive PROVE IInv'
  OBVIOUS
<1>1. CASE Local
  <2>1. LocalKeeps
    BY <1>1, EarlyKeeps, ClaimedKeeps, DecryptionKeeps, DeliveryKeeps, DiscardsKeep DEF Local
  <2>2. Wire' /\ ExitJustified'
    BY <1>1, LocalFrame, SameWire, LocalKeepsExit DEF IInv
  <2> QED
    BY <2>1, <2>2 DEF IInv, LocalKeeps
<1>2. CASE Claim
  <2>1. ExitJustified'
    BY <1>2, LocalKeepsExit DEF Claim, At
  <2> QED
    BY <1>2, <2>1, ClaimKeeps DEF IInv, LocalKeeps
<1>3. CASE CommandEnds
  <2>1. UNCHANGED <<requestVars, localVars>>
    BY <1>3 DEF CommandEnds
  <2>2. Wire'
    BY <2>1, SameWire DEF IInv
  <2>3. Files' /\ Place' /\ ResultJustified'
    BY <2>1 DEF IInv, localVars, requestVars, Files, Place, ResultJustified, Saved, Warned
  <2> QED
    BY <1>3, <2>2, <2>3, EndsKeepsExit DEF IInv
<1> QED
  BY <1>1, <1>2, <1>3 DEF Internal, Interactive, Local

LEMMA NextKeepsIInv == IInv /\ [Next]_vars => IInv'
<1> SUFFICES ASSUME IInv, [Next]_vars PROVE IInv'
  OBVIOUS
<1>1. ASSUME UNCHANGED <<localVars, phase, outcome>>
      PROVE  Files' /\ Place' /\ ResultJustified'
  BY <1>1 DEF IInv, localVars, Files, Place, ResultJustified, Saved, Warned
<1>2. CASE Internal \/ Interactive
  BY <1>2, CommandKeepsIInv
<1>3. CASE Network
  <2>1. Wire'
    BY <1>3, NetworkKeepsWire DEF IInv, Network
  <2>2. UNCHANGED <<lifeVars, localVars, phase, outcome>>
    BY <1>3 DEF Network, Request!WriteHeaders, Request!FlushRequest, Request!ServerExecutes, Request!ServerReplies
  <2>3. ExitJustified'
    BY <2>2 DEF IInv, ExitJustified, lifeVars, localVars, Run!report, Run!reportAfterSignal, Run!signalExit
  <2> QED
    BY <1>1, <2>1, <2>2, <2>3 DEF IInv
<1>4. CASE Life
  <2>1. UNCHANGED <<requestVars, localVars>>
    BY <1>4 DEF Life
  <2>2. Wire' /\ ExitJustified'
    BY <1>4, <2>1, SameWire, MainKeepsExit, SystemKeepsExit DEF IInv, Life, Run!RunNext
  <2> QED
    BY <1>1, <2>1, <2>2 DEF IInv, requestVars
<1>5. CASE UNCHANGED vars
  <2>1. UNCHANGED <<lifeVars, requestVars, localVars>>
    BY <1>5 DEF vars
  <2>2. ExitJustified'
    BY <2>1 DEF IInv, ExitJustified, lifeVars, requestVars, localVars, Run!report, Run!reportAfterSignal, Run!signalExit
  <2> QED
    BY <1>1, <2>1, <2>2, SameWire DEF IInv, requestVars
<1> QED
  BY <1>2, <1>3, <1>4, <1>5 DEF Next

\* The strengthened invariant holds in every reachable state.
THEOREM Invariance == Spec => []IInv
BY InitIInv, NextKeepsIInv, PTL DEF Spec
-----------------------------------------------------------------------------
(* What an exit status says. *)

\* A command that was run has returned a result, and that, or a signal in its
\* place, is the exit status.
LEMMA ExitFollowsResult ==
  ASSUME IInv, Exited, dispatch # "none"
  PROVE  /\ step = "end" /\ step \in Tail /\ result \in CommandResults /\ result.exit \in Nat
         /\ exit = 0 => result.exit = 0
         /\ result \in {Error(3, "none"), Error(9, "none")} =>
              exit = result.exit \/ (exit = 3 /\ jsonBroken)
<1>1. step = "end" /\ done = result /\ (exit = Run!report(result) \/ exit = Run!reportAfterSignal(result, got))
  BY DEF IInv, ExitJustified, Exited
<1>2. step \in Tail /\ result \in CommandResults
  BY <1>1 DEF IInv, ResultJustified, Tail
<1>3. result.exit \in Nat
  BY <1>2, Results
<1>4. exit = 0 => result.exit = 0
  BY <1>1, <1>3 DEF Run!report, Run!reportAfterSignal, Run!signalExit
<1>5. ASSUME result \in {Error(3, "none"), Error(9, "none")}
      PROVE  exit = result.exit \/ (exit = 3 /\ jsonBroken)
  BY <1>1, <1>5 DEF Error, Run!report, Run!reportAfterSignal
<1> QED
  BY <1>1, <1>2, <1>3, <1>4, <1>5

LEMMA NothingWithoutCommand ==
  ASSUME IInv, Exited, dispatch = "none"
  PROVE  exit # 0 /\ phase = "ready" /\ ours = {} /\ step \notin Tail
BY DEF IInv, ExitJustified, Exited

\* Exit zero: the secret was claimed, and its plaintext is where it was wanted.
THEOREM ZeroMeansDeliveredAlways == Spec => []ZeroMeansDelivered
<1>1. IInv => ZeroMeansDelivered
  <2> SUFFICES ASSUME IInv, exit = 0
               PROVE  /\ served = "executed" \/ setting.offline
                      /\ delivered /\ (setting.dest = "file" => disk[setting.out] = "written")
    BY DEF ZeroMeansDelivered
  <2>1. Exited /\ dispatch # "none"
    BY NothingWithoutCommand DEF Exited
  <2>2. step \in Tail /\ result.exit = 0
    BY <2>1, ExitFollowsResult
  <2> QED
    BY <2>2 DEF IInv, Wire, ResultJustified
<1> QED
  BY <1>1, Invariance, PTL

\* A secret that is destroyed on the server and not delivered was saved, or the
\* user was told.
THEOREM NoSilentLossAlways == Spec => []NoSilentLoss
<1>1. IInv => NoSilentLoss
  <2> SUFFICES ASSUME IInv, Exited, served = "executed", ~delivered
               PROVE  Saved \/ Warned \/ exit = 9 \/ (exit = 3 /\ jsonBroken)
    BY DEF NoSilentLoss, Saved, Warned
  <2>1. sent /\ phase # "ready" /\ outcome \notin Request!Refusals
    BY DEF IInv, Wire
  <2>2. dispatch # "none"
    BY <2>1, NothingWithoutCommand
  <2>3. step \in Tail
    BY <2>2, ExitFollowsResult
  <2>4. Saved \/ Warned \/ result = Error(9, "none")
    BY <2>1, <2>3 DEF IInv, ResultJustified
  <2>5. result = Error(9, "none") => exit = 9 \/ (exit = 3 /\ jsonBroken)
    BY <2>2, ExitFollowsResult DEF Error
  <2> QED
    BY <2>4, <2>5
<1> QED
  BY <1>1, Invariance, PTL

\* By the time a request can exist, everything local that can fail is done.
THEOREM ReadyBeforeClaimAlways == Spec => []ReadyBeforeClaim
<1>1. IInv => ReadyBeforeClaim
  <2> SUFFICES ASSUME IInv, phase # "ready"
               PROVE  /\ "server" \in told /\ (setting.dest = "terminal" => setting.terminal)
                      /\ outcome = "none" => \A p \in {setting.out, setting.keep} \ {"none"} :
                                               disk[p] = "reserved" /\ p \in ours
    BY DEF ReadyBeforeClaim
  <2>1. "server" \in told /\ (setting.dest = "terminal" => setting.terminal)
    BY DEF IInv, Place
  <2>2. ASSUME outcome = "none" PROVE step = "claim"
    BY <2>2, LateOutcome DEF IInv, Place, ResultJustified
  <2>3. ASSUME step = "claim", NEW p \in {setting.out, setting.keep} \ {"none"}
        PROVE  disk[p] = "reserved" /\ p \in ours
    <3>1. setting.dest = "file" <=> setting.out # "none"
      BY SettingsAssumption DEF IInv, Place
    <3>2. p \in ours
      BY <2>3, <3>1 DEF IInv, Place
    <3> QED
      BY <3>2 DEF IInv, Files
  <2> QED
    BY <2>1, <2>2, <2>3
<1> QED
  BY <1>1, Invariance, PTL

\* A normal exit leaves no half-made file behind.
THEOREM NoReservationLeftAlways == Spec => []NoReservationLeft
<1>1. IInv => NoReservationLeft
  <2> SUFFICES ASSUME IInv, Exited PROVE ours = {}
    BY DEF NoReservationLeft, IInv, Files
  <2> QED
    BY NothingWithoutCommand, ExitFollowsResult DEF IInv, Files
<1> QED
  BY <1>1, Invariance, PTL

\* Neither success nor a signal's exit status hides an unconfirmed claim.
THEOREM UnknownIsReportedAlways == Spec => []UnknownIsReported
<1>1. IInv => UnknownIsReported
  <2> SUFFICES ASSUME IInv, Exited, outcome = "unknown" PROVE exit = 9 \/ (exit = 3 /\ jsonBroken)
    BY DEF UnknownIsReported
  <2>1. phase # "ready"
    BY DEF IInv, Wire
  <2>2. dispatch # "none"
    BY <2>1, NothingWithoutCommand
  <2>3. result = Error(9, "none")
    BY <2>2, ExitFollowsResult DEF IInv, ResultJustified
  <2> QED
    BY <2>2, <2>3, ExitFollowsResult DEF Error
<1> QED
  BY <1>1, Invariance, PTL

\* Plaintext that is ready when a cancellation is already pending is handed
\* over, unless the destination itself fails.
THEOREM PendingHandoffCompletesAlways == Spec => []PendingHandoffCompletes
<1>1. IInv => PendingHandoffCompletes
  <2> SUFFICES ASSUME IInv, handoff = "pending", Exited, ~delivered PROVE exit = 3
    BY DEF PendingHandoffCompletes
  <2>1. step \in Tail
    BY DEF IInv, Place
  <2>2. dispatch # "none" /\ result = Error(3, "none")
    BY <2>1, NothingWithoutCommand DEF IInv, ResultJustified
  <2> QED
    BY <2>2, ExitFollowsResult DEF Error
<1> QED
  BY <1>1, Invariance, PTL
-----------------------------------------------------------------------------
(* Files. *)

LEMMA StepKeepsFiles ==
  ASSUME IInv, [Next]_vars, NEW p \in Paths, disk[p] \in {"foreign", "written"}
  PROVE  disk'[p] = disk[p]
<1>1. disk[p] \notin {"none", "reserved"} /\ p \notin ours
  BY DEF IInv, Files
<1>2. CASE PrepareDestination \/ ReserveKeepBlob
  BY <1>1, <1>2 DEF IInv, Files, PrepareDestination, ReserveKeepBlob, reserve
<1>3. CASE WriteRecovery
  <2>1. setting.keep # "none" => setting.keep \in ours
    BY <1>3 DEF IInv, Place, WriteRecovery, At
  <2> QED
    BY <1>1, <1>3, <2>1 DEF IInv, Files, WriteRecovery
<1>4. CASE Deliver
  <2>1. setting.dest = "file" => setting.out \in ours
    BY <1>4 DEF IInv, Place, Deliver, At, Late
  <2> QED
    BY <1>1, <1>4, <2>1 DEF IInv, Files, Deliver
<1>5. CASE DiscardKeep \/ DiscardOut
  BY <1>1, <1>5 DEF IInv, Files, DiscardKeep, DiscardOut, discardUnlessWritten
<1>6. CASE \/ ReadURL \/ ReadPassphrase \/ ReadBlob \/ InputCanceled \/ DiscloseServer \/ Claimed
           \/ Decrypt \/ StartRetry \/ RetryPassphrase \/ RetryCanceled \/ ViewerCloses \/ ViewerCanceled
  BY <1>6 DEF ReadURL, ReadPassphrase, ReadBlob, InputCanceled, DiscloseServer, Claimed, Decrypt,
              StartRetry, RetryPassphrase, RetryCanceled, ViewerCloses, ViewerCanceled
<1>7. CASE Claim \/ CommandEnds \/ Network \/ Life \/ UNCHANGED vars
  BY <1>7 DEF Claim, CommandEnds, Network, Life, vars, localVars
<1> QED
  BY <1>2, <1>3, <1>4, <1>5, <1>6, <1>7 DEF Next, Internal, Interactive

\* No step changes or removes a file that the command did not create, nor one
\* that is complete.
THEOREM FinishedFilesAreKeptAlways == Spec => FinishedFilesAreKept
<1>1. IInv /\ [Next]_vars => [\A p \in Paths : disk[p] \in {"foreign", "written"} => disk'[p] = disk[p]]_vars
  BY StepKeepsFiles
<1> QED
  BY <1>1, Invariance, PTL DEF Spec, FinishedFilesAreKept
=============================================================================
