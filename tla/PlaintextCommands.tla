------------------------- MODULE PlaintextCommands -------------------------
(***************************************************************************)
(* burnerpad reveal and burnerpad decrypt (internal/cli/reveal.go,         *)
(* decrypt.go, plaintext.go, output.go) as the command goroutine of        *)
(* RunLifecycle. reveal claims a secret through MutationRequest. The claim *)
(* destroys the secret on the server, so everything that can fail locally  *)
(* comes before it, and whatever happens after it must leave the user with *)
(* the plaintext, with the recovery ciphertext, or at least with the       *)
(* knowledge that it is lost. decrypt takes the ciphertext from a file and *)
(* shares the rest.                                                        *)
(*                                                                         *)
(* Signals, user interrupts, input and output failures, other processes    *)
(* and the network interleave with every step; a second signal kills the   *)
(* process between any two of them.                                        *)
(***************************************************************************)
EXTENDS Integers

CONSTANTS MaxSignals, Statuses, NoEffect,
          Settings   \* the invocations considered, see SettingType

VARIABLES source, main, subscribed, pending, got, canceled, dispatch, done,
          jsonBroken, signals, exit
VARIABLES op, phase, writer, wrote, open, sent, served, reply, outcome
VARIABLES
  setting,   \* options and environment of this invocation
  step,      \* where runReveal, decryptAndDeliver or deliverPlaintext is
  disk,      \* what is at each path
  ours,      \* paths of reservations that discardUnlessWritten may still remove
  handoff,   \* deliverPlaintext's pendingCancellation, once it is decided
  told,      \* what the user has been told on standard error
  delivered, \* has the complete plaintext reached its destination?
  result     \* what the command is going to return

requestVars == <<op, phase, writer, wrote, open, sent, served, reply, outcome>>
lifeVars == <<source, main, subscribed, pending, got, dispatch, done, jsonBroken, signals, exit>>
localVars == <<setting, step, disk, ours, handoff, told, delivered, result>>
vars == <<lifeVars, canceled, requestVars, localVars>>

Error(code, cause) == [exit |-> code, cause |-> cause]

CommandResults ==
  {Error(0, "none"), Error(130, "canceled"), Error(130, "interrupted"),
   Error(3, "canceled"), Error(7, "canceled")}
    \union {Error(code, "none") : code \in 2..10}

Run == INSTANCE RunLifecycle WITH Results <- CommandResults
Request == INSTANCE MutationRequest

Paths == {"p", "q"}

\* offline: decrypt instead of reveal. out and keep are paths or "none"; terminal
\* says whether a controlling terminal can be opened, stderr whether standard
\* error can be written. unending are the inputs whose read no cancellation ends:
\* a standard input or descriptor in blocking mode, the opening of a named pipe.
\* drained: somebody takes what is written to the standard streams and to the
\* terminal; a write waits for ever otherwise, once the pipe is full.
SettingType ==
  [offline : BOOLEAN, dest : {"json", "file", "terminal", "stdout"}, out : Paths \union {"none"},
   keep : Paths \union {"none"}, terminal : BOOLEAN, stderr : BOOLEAN,
   unending : SUBSET {"url", "phrase", "blob"}, drained : BOOLEAN]

\* A file has a path, only a secret that is claimed can be kept.
ASSUME SettingsAssumption ==
  \A s \in Settings :
    /\ s \in SettingType
    /\ s.dest = "file" <=> s.out # "none"
    /\ s.offline => s.keep = "none"

ASSUME RequestAssumption == Request!Contract

Steps == {"url", "phrase", "destination", "keepBlob", "disclose", "claim", "recovery",
          "blob", "decrypt", "retry", "prompt", "deliver", "viewer", "discardKeep", "discardOut", "end"}

TypeOK ==
  /\ Run!TypeOK /\ Request!TypeOK
  /\ setting \in SettingType /\ step \in Steps
  /\ disk \in [Paths -> {"none", "foreign", "reserved", "written"}]
  /\ ours \subseteq Paths
  /\ handoff \in {"undecided", "normal", "pending"}
  /\ told \subseteq {"server", "discarded", "recoveryFailed"}
  /\ delivered \in BOOLEAN
  /\ result \in CommandResults \union {Run!NoResult}

Init ==
  /\ Run!Init /\ source = "process"
  /\ Request!Init /\ op = "claim"
  /\ setting \in Settings
  /\ jsonBroken => setting.dest = "json"
  /\ step = IF setting.offline THEN "destination" ELSE "url"
  /\ disk \in [Paths -> {"none", "foreign"}]
  /\ ours = {} /\ handoff = "undecided" /\ told = {}
  /\ delivered = FALSE /\ result = Run!NoResult
-----------------------------------------------------------------------------
Running == dispatch = "running" /\ exit = Run!Running

At(s) == Running /\ step = s

\* Return an error: the deferred discards run on the way out.
Fail(e) == result' = e /\ step' = "discardKeep"

Go(s) == step' = s /\ UNCHANGED result

\* As Fail, after the warning that a claimed ciphertext is being discarded.
Abandon(e) ==
  /\ Fail(e)
  /\ told' = told \union IF setting.keep = "none" /\ ~setting.offline THEN {"discarded"} ELSE {}

\* Outcomes of waiting for the user or for a peer's input (readBounded, the
\* terminal prompts): an unusable answer, a failed read, Ctrl-C as a key.
BadInput == {Error(2, "none"), Error(3, "none"), Error(130, "interrupted")}

Others == <<lifeVars, canceled, requestVars>>

ReadURL ==
  /\ At("url")
  /\ Go("phrase") \/ \E e \in BadInput : Fail(e)
  /\ UNCHANGED <<Others, setting, disk, ours, handoff, told, delivered>>

ReadPassphrase ==
  /\ At("phrase")
  /\ \/ Go(IF setting.offline THEN "blob" ELSE "destination")
     \/ \E e \in BadInput : Fail(e)
  /\ UNCHANGED <<Others, setting, disk, ours, handoff, told, delivered>>

\* runDecrypt reads the ciphertext file, or standard input.
ReadBlob ==
  /\ At("blob")
  /\ Go("decrypt") \/ \E code \in {2, 3, 8} : Fail(Error(code, "none"))
  /\ UNCHANGED <<Others, setting, disk, ours, handoff, told, delivered>>

\* A wait before the claim, cancelled: readBounded, or a prompt (the ciphertext
\* has none). It happens at once unless the read is unending: then only when the
\* peer ends it, see Stalled.
InputCanceled ==
  /\ At("url") \/ At("phrase") \/ At("blob")
  /\ canceled
  /\ Fail(Error(3, "canceled")) \/ (step # "blob" /\ Fail(Error(130, "canceled")))
  /\ UNCHANGED <<Others, setting, disk, ours, handoff, told, delivered>>

\* As reserve, but an existing file is opened and taken for a reservation.
ReserveOverwriting(p, next) ==
  /\ disk' = [disk EXCEPT ![p] = "reserved"]
  /\ ours' = ours \union {p}
  /\ Go(next)

\* reserve: exclusive creation; nothing is remembered when it fails.
reserve(p, next) ==
  \/ /\ disk[p] = "none"
     /\ disk' = [disk EXCEPT ![p] = "reserved"]
     /\ ours' = ours \union {p}
     /\ Go(next)
  \/ Fail(Error(3, "none")) /\ UNCHANGED <<disk, ours>>

AfterDestination == IF setting.offline THEN "phrase" ELSE "keepBlob"

\* prepareDestination: reserve --out, or open the terminal the viewer needs.
PrepareDestination ==
  /\ At("destination")
  /\ CASE setting.dest = "file" -> reserve(setting.out, AfterDestination)
       [] setting.dest = "terminal" /\ ~setting.terminal ->
            Fail(Error(3, "none")) /\ UNCHANGED <<disk, ours>>
       [] OTHER -> Go(AfterDestination) /\ UNCHANGED <<disk, ours>>
  /\ UNCHANGED <<Others, setting, handoff, told, delivered>>

\* As ReserveKeepBlob, but a recovery file that cannot be had is done without.
KeepBlobBestEffort ==
  /\ At("keepBlob")
  /\ IF setting.keep # "none" /\ disk[setting.keep] = "none"
       THEN reserve(setting.keep, "disclose")
       ELSE Go("disclose") /\ UNCHANGED <<disk, ours>>
  /\ UNCHANGED <<Others, setting, handoff, told, delivered>>

ReserveKeepBlob ==
  /\ At("keepBlob")
  /\ IF setting.keep # "none"
       THEN reserve(setting.keep, "disclose")
       ELSE Go("disclose") /\ UNCHANGED <<disk, ours>>
  /\ UNCHANGED <<Others, setting, handoff, told, delivered>>

DiscloseServer ==
  /\ At("disclose")
  /\ IF setting.stderr
       THEN Go("claim") /\ told' = told \union {"server"}
       ELSE Fail(Error(3, "none")) /\ UNCHANGED told
  /\ UNCHANGED <<Others, setting, disk, ours, handoff, delivered>>

\* client.Reveal, in the command goroutine.
Claim ==
  /\ At("claim") /\ Request!Caller
  /\ UNCHANGED <<lifeVars, localVars>>

\* As MappedErrors, but an unknown outcome is taken for a temporary failure.
MappedAsTemporary ==
  CASE outcome = "unavailable" -> {Error(4, "none")}
    [] outcome = "rejected" -> {Error(6, "none")}
    [] outcome \in {"unknown", "rateLimited", "temporary", "network"} -> {Error(7, "none")}
    [] OTHER -> {}

\* mapAPIError. An error of the transport wraps the context's when that ended it.
MappedErrors ==
  CASE outcome = "unavailable" -> {Error(4, "none")}
    [] outcome = "unknown" -> {Error(9, "none")}
    [] outcome \in {"rateLimited", "temporary"} -> {Error(7, "none")}
    [] outcome = "network" ->
         {Error(7, "none")} \union IF canceled THEN {Error(7, "canceled")} ELSE {}
    [] outcome = "rejected" -> {Error(6, "none")}
    [] OTHER -> {}

Claimed ==
  /\ At("claim") /\ outcome # "none"
  /\ \/ outcome = "ok" /\ Go("recovery")
     \/ \E e \in MappedErrors : Fail(e)
  /\ UNCHANGED <<Others, setting, disk, ours, handoff, told, delivered>>

\* As WriteRecovery, but the file is not marked as written.
WriteRecoveryUnmarked ==
  /\ At("recovery")
  /\ IF setting.keep = "none"
       THEN Go("decrypt") /\ UNCHANGED <<disk, ours, told>>
       ELSE \/ /\ disk' = [disk EXCEPT ![setting.keep] = "written"]
               /\ Go("decrypt") /\ UNCHANGED <<ours, told>>
            \/ /\ Fail(Error(3, "none"))
               /\ told' = told \union {"recoveryFailed"}
               /\ UNCHANGED <<disk, ours>>
  /\ UNCHANGED <<Others, setting, handoff, delivered>>

\* The recovery ciphertext is written at once; when that fails the claim is
\* given up with a warning. A written file is not discarded any more.
WriteRecovery ==
  /\ At("recovery")
  /\ IF setting.keep = "none"
       THEN Go("decrypt") /\ UNCHANGED <<disk, ours, told>>
       ELSE \/ /\ disk' = [disk EXCEPT ![setting.keep] = "written"]
               /\ ours' = ours \ {setting.keep}
               /\ Go("decrypt") /\ UNCHANGED told
            \/ /\ Fail(Error(3, "none"))
               /\ told' = told \union {"recoveryFailed"}
               /\ UNCHANGED <<disk, ours>>
  /\ UNCHANGED <<Others, setting, handoff, delivered>>

\* One attempt: a wrong phrase is asked for again where a terminal can be had;
\* an unsupported blob or text that is not UTF-8 ends the command.
Decrypt ==
  /\ At("decrypt")
  /\ \/ Go("deliver") /\ UNCHANGED told
     \/ setting.terminal /\ Go("retry") /\ UNCHANGED told
     \/ Abandon(Error(5, "none")) \/ Abandon(Error(8, "none"))
  /\ UNCHANGED <<Others, setting, disk, ours, handoff, delivered>>

\* As StartRetry, but an earlier cancellation is left to the prompt's wait.
StartRetryUnchecked ==
  /\ At("retry")
  /\ Go("prompt") /\ UNCHANGED told
  /\ UNCHANGED <<Others, setting, disk, ours, handoff, delivered>>

\* readRetryPassphrase, against the ciphertext already claimed: a prompt does
\* not open under a cancelled context.
StartRetry ==
  /\ At("retry")
  /\ IF canceled THEN Abandon(Error(130, "canceled")) ELSE Go("prompt") /\ UNCHANGED told
  /\ UNCHANGED <<Others, setting, disk, ours, handoff, delivered>>

\* As RetryPassphrase, but an interrupted prompt returns without the warning.
RetryWithoutWarning ==
  /\ At("prompt")
  /\ Go("decrypt") \/ \E e \in BadInput : Fail(e)
  /\ UNCHANGED <<Others, setting, disk, ours, handoff, told, delivered>>

\* The user answers the retry prompt, or interrupts it.
RetryPassphrase ==
  /\ At("prompt")
  /\ \/ Go("decrypt") /\ UNCHANGED told
     \/ \E e \in BadInput : Abandon(e)
  /\ UNCHANGED <<Others, setting, disk, ours, handoff, delivered>>

RetryCanceled ==
  /\ At("prompt") /\ canceled
  /\ Abandon(Error(130, "canceled"))
  /\ UNCHANGED <<Others, setting, disk, ours, handoff, delivered>>

\* As Delivered, but what was written may be less than the whole plaintext.
DeliveredUnchecked == delivered' \in BOOLEAN /\ Fail(Error(0, "none")) /\ UNCHANGED told

Delivered == delivered' = TRUE /\ Fail(Error(0, "none")) /\ UNCHANGED told

NotDelivered(e) == Abandon(e) /\ UNCHANGED delivered

\* As OpensViewer, but a cancellation that is already pending changes nothing.
OpensViewerRegardless == setting.dest = "terminal"

OpensViewer == setting.dest = "terminal" /\ ~canceled

\* deliverPlaintext: a cancellation that came first turns the viewer into
\* persistent plain output, which waits for no key.
Deliver ==
  /\ At("deliver")
  /\ handoff' = IF canceled THEN "pending" ELSE "normal"
  /\ CASE setting.dest = "json" ->
            /\ IF jsonBroken THEN NotDelivered(Error(3, "none")) ELSE Delivered
            /\ UNCHANGED <<disk, ours>>
       [] setting.dest = "file" ->
            \/ /\ Delivered
               /\ disk' = [disk EXCEPT ![setting.out] = "written"]
               /\ ours' = ours \ {setting.out}
            \/ NotDelivered(Error(3, "none")) /\ UNCHANGED <<disk, ours>>
       [] OpensViewer ->
            Go("viewer") /\ UNCHANGED <<told, delivered, disk, ours>>
       [] OTHER ->
            /\ Delivered \/ NotDelivered(Error(3, "none"))
            /\ UNCHANGED <<disk, ours>>
  /\ UNCHANGED <<Others, setting>>

\* The user closes the viewer, interrupts it, or it cannot be displayed.
ViewerCloses ==
  /\ At("viewer")
  /\ Delivered \/ NotDelivered(Error(3, "none")) \/ NotDelivered(Error(130, "interrupted"))
  /\ UNCHANGED <<Others, setting, disk, ours, handoff>>

ViewerCanceled ==
  /\ At("viewer") /\ canceled
  /\ NotDelivered(Error(130, "canceled"))
  /\ UNCHANGED <<Others, setting, disk, ours, handoff>>

\* discardUnlessWritten, deferred: recovery first, then the plaintext file.
discardUnlessWritten(p, next) ==
  /\ IF p \in ours
       THEN disk' = [disk EXCEPT ![p] = "none"] /\ ours' = ours \ {p}
       ELSE UNCHANGED <<disk, ours>>
  /\ Go(next)
  /\ UNCHANGED <<Others, setting, handoff, told, delivered>>

\* The deferred discard of --keep-blob was not registered.
ForgetKeep ==
  At("discardKeep") /\ Go("discardOut")
  /\ UNCHANGED <<Others, setting, disk, ours, handoff, told, delivered>>

DiscardKeep == At("discardKeep") /\ discardUnlessWritten(setting.keep, "discardOut")

DiscardOut == At("discardOut") /\ discardUnlessWritten(setting.out, "end")

CommandEnds ==
  /\ step = "end" /\ Run!CommandReturns(result)
  /\ UNCHANGED <<requestVars, localVars>>

\* Steps that wait for nobody but the process itself, its request, and whoever
\* the command is Stalled by.
Internal ==
  \/ InputCanceled \/ PrepareDestination \/ ReserveKeepBlob \/ DiscloseServer
  \/ Claim \/ Claimed \/ WriteRecovery \/ Decrypt \/ StartRetry \/ RetryCanceled
  \/ Deliver \/ ViewerCanceled \/ DiscardKeep \/ DiscardOut \/ CommandEnds

\* Steps that wait for the user or for the peer of a pipe.
Interactive == ReadURL \/ ReadPassphrase \/ ReadBlob \/ RetryPassphrase \/ ViewerCloses

\* The transport goroutine lives as long as the process; the server and what
\* is on the wire do not depend on it.
Network ==
  /\ \/ exit = Run!Running /\ (Request!WriteHeaders \/ Request!FlushRequest)
     \/ Request!ServerExecutes \/ Request!ServerReplies
  /\ UNCHANGED <<lifeVars, localVars>>

\* Run and the operating system; cancelling the context is Request!Cancel too.
Life == Run!RunNext /\ UNCHANGED <<requestVars, localVars>>

Next == Internal \/ Interactive \/ Network \/ Life

\* Places where the command writes to standard output, standard error or the
\* terminal: prompts, warnings, the disclosure, the plaintext.
Writing == {"url", "phrase", "disclose", "recovery", "decrypt", "retry", "prompt", "deliver", "viewer"}

\* Run writes what a result, or an error that outweighs a signal, has to say.
Reporting == main \in {"select", "recheck", "join"} /\ done # Run!NoResult

\* The process may be held up by a peer it cannot make go on: it is in a read
\* that no cancellation ends, or in a write that nobody takes.
Stalled ==
  \/ Running /\ step \in setting.unending
  \/ ~setting.drained /\ (Reporting \/ (Running /\ step \in Writing))

\* Nothing is assumed of the user, of the server or of the network, nor that a
\* command that is stalled goes on.
Spec ==
  /\ Init /\ [][Next]_vars
  /\ WF_vars(~Stalled /\ Internal)
  /\ WF_vars(~Stalled /\ Run!Main /\ UNCHANGED <<requestVars, localVars>>)
-----------------------------------------------------------------------------
(* Properties *)

Exited == exit >= 0

\* docs/ARCHITECTURE.md: "Exit zero means the selected artifact reached its
\* destination": the secret was claimed (reveal), and its plaintext has
\* completely reached the selected destination.
ZeroMeansDelivered ==
  exit = 0 => /\ served = "executed" \/ setting.offline
              /\ delivered
              /\ setting.dest = "file" => disk[setting.out] = "written"

\* A secret that was destroyed on the server but not delivered is never lost
\* silently: its ciphertext was saved, or the user was warned, or the exit
\* status says that the outcome is unknown (or its JSON could not be written).
NoSilentLoss ==
  Exited /\ served = "executed" /\ ~delivered =>
    \/ setting.keep # "none" /\ disk[setting.keep] = "written"
    \/ told \intersect {"discarded", "recoveryFailed"} # {}
    \/ exit = 9 \/ (exit = 3 /\ jsonBroken)

\* runReveal: by the time a request can exist, everything local that can fail
\* has been done: the server disclosed, the destination and recovery reserved.
ReadyBeforeClaim ==
  phase # "ready" =>
    /\ "server" \in told
    /\ setting.dest = "terminal" => setting.terminal
    /\ outcome = "none" =>
         \A p \in {setting.out, setting.keep} \ {"none"} :
           disk[p] = "reserved" /\ p \in ours

\* discardUnlessWritten: a normal exit leaves no half-made file behind.
NoReservationLeft == Exited => \A p \in Paths : disk[p] # "reserved"

\* No step changes or removes a file it did not create, nor a written recovery
\* or plaintext file.
FinishedFilesAreKept ==
  [][\A p \in Paths : disk[p] \in {"foreign", "written"} => disk'[p] = disk[p]]_vars

\* Neither success nor a signal's exit status hides an unconfirmed claim.
UnknownIsReported ==
  Exited /\ outcome = "unknown" => exit = 9 \/ (exit = 3 /\ jsonBroken)

\* deliverPlaintext: plaintext that is ready when a cancellation is already
\* pending is handed over, unless the destination itself fails.
PendingHandoffCompletes ==
  handoff = "pending" /\ Exited => delivered \/ exit = 3

\* A signal ends the program, however long the server, the network or the user
\* of a prompt wait: the retry loop, the viewer and the request all end. It does
\* not end one that stays stalled, in a read that cancellation cannot end
\* (CancellationCoversInput of ReadBounded) or in a write that nobody takes.
SignalEndsInvocation == []<>~Stalled => (canceled ~> main = "returned")
=============================================================================
