-------------------------- MODULE HandoffCommands --------------------------
(***************************************************************************)
(* burnerpad create and burnerpad burn (internal/cli/create.go, burn.go)   *)
(* as the command goroutine of RunLifecycle, with one MutationRequest.     *)
(* Both collect their inputs, disclose the server, change something on it  *)
(* and then hand the result over piece by piece: a secret that exists on   *)
(* the server is of use only if its link, phrase and token all arrive.     *)
(* Every write can fail, and a signal can arrive between any two of them.  *)
(***************************************************************************)
EXTENDS Integers, SequencesExt

CONSTANTS MaxSignals, Statuses, NoEffect,
          Settings   \* the invocations considered, see SettingType

VARIABLES source, main, subscribed, pending, got, canceled, dispatch, done,
          jsonBroken, signals, exit
VARIABLES op, phase, writer, wrote, open, sent, served, reply, outcome
VARIABLES
  setting,   \* options and environment of this invocation
  step,      \* where runCreate or runBurn is
  server,    \* the origin the command has chosen, "none" before
  disclosed, \* the origin named to the user before the request
  handed,    \* the parts of the result that were completely written, in order
  result     \* what the command is going to return

requestVars == <<op, phase, writer, wrote, open, sent, served, reply, outcome>>
lifeVars == <<source, main, subscribed, pending, got, dispatch, done, jsonBroken, signals, exit>>
localVars == <<setting, step, server, disclosed, handed, result>>
vars == <<lifeVars, canceled, requestVars, localVars>>

Error(code, cause) == [exit |-> code, cause |-> cause]

CommandResults ==
  {Error(0, "none"), Error(130, "canceled"), Error(130, "interrupted"), Error(7, "canceled")}
    \union {Error(code, "none") : code \in {2, 3, 4, 6, 7, 9}}

Run == INSTANCE RunLifecycle WITH Results <- CommandResults
Request == INSTANCE MutationRequest

Origins == {"a", "b", "none"}

\* tty: standard input is a terminal. supplied: create was given a passphrase.
\* clamps: the server grants another ttl than the requested one. target: what
\* burn was given, whose link is at origin; selected: the server a receipt
\* names, or the one options and environment select.
SettingType ==
  [op : {"create", "revoke"}, json : BOOLEAN, tty : BOOLEAN, supplied : BOOLEAN,
   clamps : BOOLEAN, target : {"none", "receipt", "url", "id"}, origin : Origins,
   selected : Origins \ {"none"}]

\* Create has no target; a share URL is one with a server, an identifier is not.
ASSUME SettingsAssumption ==
  \A s \in Settings :
    /\ s \in SettingType
    /\ s.op = "create" => s.target = "none"
    /\ s.op = "revoke" => s.target # "none"
    /\ s.target = "url" => s.origin # "none"
    /\ s.target \in {"none", "id"} => s.origin = "none"

ASSUME RequestAssumption == Request!Contract

Steps == {"plaintext", "phrase", "target", "token", "disclose", "request", "handoff", "end"}

\* The parts of the result, in the order they are written.
Handoff ==
  IF setting.op = "revoke" THEN <<"burned">>
  ELSE IF setting.json THEN <<"receipt">>
  ELSE <<"link">> \o (IF ~setting.supplied \/ setting.tty THEN <<"phrase">> ELSE <<>>)
         \o <<"token", "ttl">> \o (IF setting.clamps THEN <<"note">> ELSE <<>>)

TypeOK ==
  /\ Run!TypeOK /\ Request!TypeOK
  /\ setting \in SettingType /\ step \in Steps
  /\ server \in Origins /\ disclosed \in Origins
  /\ IsPrefix(handed, Handoff)
  /\ result \in CommandResults \union {Run!NoResult}

Init ==
  /\ Run!Init /\ source = "process"
  /\ setting \in Settings
  /\ Request!Init /\ op = setting.op
  /\ jsonBroken => setting.json
  /\ step = IF setting.op = "create" THEN "plaintext" ELSE "target"
  /\ server = "none" /\ disclosed = "none" /\ handed = <<>>
  /\ result = Run!NoResult
-----------------------------------------------------------------------------
At(s) == dispatch = "running" /\ exit = Run!Running /\ step = s

Fail(e) == result' = e /\ step' = "end"

Go(s) == step' = s /\ UNCHANGED result

Others == <<lifeVars, canceled, requestVars, setting>>

\* Outcomes of reading an input: usable, unusable, failed, interrupted by a key,
\* or ended by the cancelled context.
Read(next) ==
  \/ Go(next)
  \/ Fail(Error(2, "none")) \/ Fail(Error(3, "none")) \/ Fail(Error(130, "interrupted"))
  \/ canceled /\ Fail(Error(130, "canceled"))

\* readCreatePlaintext, from the selected server's point of view: the server is
\* parsed before, and every input comes before the request.
ReadPlaintext ==
  /\ At("plaintext")
  /\ server' = setting.selected
  /\ Read("phrase")
  /\ UNCHANGED <<Others, disclosed, handed>>

\* createPhrase: a supplied passphrase is read; a generated one must have a way
\* to the user, the terminal or the JSON document.
CreatePhrase ==
  /\ At("phrase")
  /\ IF setting.supplied THEN Read("disclose")
     ELSE IF ~setting.tty /\ ~setting.json THEN Fail(Error(2, "none"))
     ELSE Go("disclose")
  /\ UNCHANGED <<Others, server, disclosed, handed>>

\* As Server, but a receipt is sent where it says, wherever its link points.
ServerOfReceipt ==
  CASE setting.target = "receipt" -> setting.selected
    [] setting.target = "url" -> setting.origin
    [] setting.target = "id" -> setting.selected

\* The server a burn talks to: the origin of the link where there is one. A
\* receipt must name that origin itself.
Server ==
  CASE setting.target = "receipt" -> IF setting.selected = setting.origin THEN setting.origin ELSE "none"
    [] setting.target = "url" -> setting.origin
    [] setting.target = "id" -> setting.selected

\* runBurn up to the token: a receipt is read from standard input and holds the
\* token already; warnings about an argument or an ignored --server may fail.
ReadTarget ==
  /\ At("target")
  /\ server' = Server
  /\ IF setting.target = "receipt"
       THEN IF Server = "none" THEN Fail(Error(2, "none")) ELSE Read("disclose")
       ELSE Go("token") \/ Fail(Error(2, "none")) \/ Fail(Error(3, "none"))
  /\ UNCHANGED <<Others, disclosed, handed>>

ReadToken ==
  /\ At("token")
  /\ Read("disclose")
  /\ UNCHANGED <<Others, server, disclosed, handed>>

DiscloseServer ==
  /\ At("disclose")
  /\ \/ Go("request") /\ disclosed' = server
     \/ Fail(Error(3, "none")) /\ UNCHANGED disclosed
  /\ UNCHANGED <<Others, server, handed>>

\* client.Create or client.Burn, in the command goroutine.
Call ==
  /\ At("request") /\ Request!Caller
  /\ UNCHANGED <<lifeVars, localVars>>

\* As MappedErrors, but an unknown outcome of a cancelled command is taken for
\* the cancellation.
MappedCanceledFirst ==
  CASE outcome = "unavailable" -> {Error(4, "none")}
    [] outcome = "rejected" -> {Error(6, "none")}
    [] outcome \in {"rateLimited", "temporary"} -> {Error(7, "none")}
    [] outcome \in {"network", "unknown"} ->
         IF canceled THEN {Error(7, "canceled")} ELSE {Error(7, "none"), Error(9, "none")}
    [] OTHER -> {}

\* mapAPIError. An error of the transport wraps the context's when that ended it.
MappedErrors ==
  CASE outcome = "unavailable" -> {Error(4, "none")}
    [] outcome = "rejected" -> {Error(6, "none")}
    [] outcome \in {"rateLimited", "temporary"} -> {Error(7, "none")}
    [] outcome = "network" ->
         {Error(7, "none")} \union IF canceled THEN {Error(7, "canceled")} ELSE {}
    [] outcome = "unknown" -> {Error(9, "none")}
    [] OTHER -> {}

Answered ==
  /\ At("request") /\ outcome # "none"
  /\ \/ outcome = "ok" /\ Go("handoff")
     \/ \E e \in MappedErrors : Fail(e)
  /\ UNCHANGED <<Others, server, disclosed, handed>>

\* As Hand, but a part that cannot be written is passed over.
HandWhatGoes ==
  /\ At("handoff")
  /\ IF Len(handed) = Len(Handoff)
       THEN Fail(Error(0, "none")) /\ UNCHANGED handed
       ELSE \/ handed' = Append(handed, Handoff[Len(handed) + 1]) /\ Go("handoff")
            \/ Fail(Error(0, "none")) /\ UNCHANGED handed
  /\ UNCHANGED <<Others, server, disclosed>>

\* One write of the handoff, or its end. The JSON document fails with the
\* standard output; the others fail at any time. Cancellation is not looked at.
Hand ==
  /\ At("handoff")
  /\ IF Len(handed) = Len(Handoff)
       THEN Fail(Error(0, "none")) /\ UNCHANGED handed
       ELSE \/ /\ ~jsonBroken
               /\ handed' = Append(handed, Handoff[Len(handed) + 1]) /\ Go("handoff")
            \/ /\ setting.json => jsonBroken
               /\ Fail(Error(3, "none")) /\ UNCHANGED handed
  /\ UNCHANGED <<Others, server, disclosed>>

CommandEnds ==
  /\ step = "end" /\ Run!CommandReturns(result)
  /\ UNCHANGED <<requestVars, localVars>>

Command ==
  \/ ReadPlaintext \/ CreatePhrase \/ ReadTarget \/ ReadToken \/ DiscloseServer
  \/ Call \/ Answered \/ Hand \/ CommandEnds

\* The transport goroutine lives as long as the process; the server and what
\* is on the wire do not depend on it.
Network ==
  /\ \/ exit = Run!Running /\ (Request!WriteHeaders \/ Request!FlushRequest)
     \/ Request!ServerExecutes \/ Request!ServerReplies
  /\ UNCHANGED <<lifeVars, localVars>>

\* Run and the operating system; cancelling the context is Request!Cancel too.
Life == Run!RunNext /\ UNCHANGED <<requestVars, localVars>>

Next == Command \/ Network \/ Life

Spec == Init /\ [][Next]_vars
-----------------------------------------------------------------------------
(* Properties *)

Complete == handed = Handoff

\* docs/ARCHITECTURE.md: "Exit zero means the selected artifact reached its
\* destination": the server has created or burned it, and everything
\* the user needs was written.
ZeroMeansHandedOver == exit = 0 => served = "executed" /\ Complete

\* reportAfterSignal, mutationError and the handoff together: when the exit
\* status blames a signal, then either nothing was changed on the server, now
\* or later, or the user has been given the whole result.
SignalStatusIsHonest == exit \in {130, 143} /\ served = "executed" => Complete

\* runBurn, runCreate: a request, and the token in it, goes only to the server
\* that was disclosed before, and where there is a link, to the link's origin.
TokenStaysAtOrigin ==
  phase # "ready" =>
    /\ disclosed = server /\ server # "none"
    /\ setting.origin # "none" => server = setting.origin
=============================================================================
