---------------------------- MODULE InputSources ----------------------------
(***************************************************************************)
(* Where the four commands take their inputs from: runCreate, runReveal,   *)
(* runBurn, runDecrypt with readCreatePlaintext, readPassphrase and        *)
(* readToken (internal/cli), as dispatch starts them with the options and  *)
(* arguments it has understood (CommandLine). An input can come from an    *)
(* option, an argument, standard input or the controlling terminal; the    *)
(* checks for sources that exclude each other are spread over these        *)
(* functions, before and after other input has been consumed. --keep-blob  *)
(* takes no part in this, nor does what the inputs contain.                *)
(***************************************************************************)
EXTENDS CommandLine, FiniteSets

VARIABLES
  invocation, \* the command with its options, and the streams
  step,       \* where the command is
  used,       \* what was consumed: pairs of an input's role and its source
  told,       \* the warnings that were written
  outcome     \* "running", "refused", "failed" or "ready"

sourceVars == <<invocation, step, used, told, outcome>>

vars == <<lineVars, sourceVars>>

Commands == {"create", "reveal", "burn", "decrypt"}

\* args: number of positional arguments. link: is the target, an argument or
\* what is read, a link? stdin is a terminal, a pipe or file, or a device such
\* as /dev/null. main: the value of --input or --blob-file. ask, file, fd: the
\* options for the credential. A command looks at the options it has registered.
Options(line, streams) ==
  LET value(name) ==
        CASE name \notin DOMAIN line.options -> "absent"
          [] OTHER -> CASE line.options[name] = Word("") -> "empty"
                        [] line.options[name] = Word("-") -> "dash"
                        [] OTHER -> "named"
      descriptor(name) ==
        CASE name \notin DOMAIN line.options -> "absent"
          [] OTHER -> CASE line.options[name].name = "-1" -> "minus one"
                        [] line.options[name].name = "0" -> "low"
                        [] OTHER -> "high"
      switch(name) == name \in DOMAIN line.options /\ line.options[name] = Word("true")
      token == line.command = "burn"
  IN  [command |-> line.command, args |-> Len(line.positionals),
       server |-> "server" \in DOMAIN line.options,
       json |-> switch("json"), ask |-> ~token /\ switch("ask"),
       out |-> IF line.command \in {"reveal", "decrypt"} THEN value("out") ELSE "absent",
       main |-> CASE line.command = "create" -> value("input")
                  [] line.command = "decrypt" -> value("blob-file")
                  [] OTHER -> "absent",
       file |-> value(IF token THEN "token-file" ELSE "passphrase-file"),
       fd |-> descriptor(IF token THEN "token-fd" ELSE "passphrase-fd"),
       link |-> streams.link, stdin |-> streams.stdin, terminal |-> streams.terminal]

StreamsType ==
  [link : BOOLEAN, stdin : {"terminal", "piped", "device"}, terminal : BOOLEAN]

inv == invocation

\* An empty text, and -1 for a descriptor, are the values without the option.
Given(value) == value \notin {"absent", "empty", "minus one"}

StdinPiped == inv.stdin = "piped"

countSources(conditions) == Cardinality({i \in DOMAIN conditions : conditions[i]})

Credentials == <<inv.ask, Given(inv.file), Given(inv.fd)>>

Unusable == inv.file = "dash" \/ inv.fd = "low"

\* A receipt is piped to burn.
Receipt == inv.command = "burn" /\ inv.args = 0 /\ StdinPiped

\* As RevealConflicts, but an argument wins over a pipe.
RevealArgumentWins ==
  \/ inv.args > 1
  \/ countSources(Credentials) > 1
  \/ inv.json /\ Given(inv.out)

RevealConflicts ==
  \/ inv.args > 1
  \/ inv.args = 1 /\ StdinPiped
  \/ countSources(Credentials) > 1
  \/ inv.json /\ Given(inv.out)

\* As CreateConflicts, but passphrase sources are left to readPassphrase.
CreateConflictsLater ==
  \/ inv.args # 0
  \/ inv.main = "dash"
  \/ Given(inv.main) /\ StdinPiped
  \/ Unusable

CreateConflicts ==
  \/ inv.args # 0
  \/ inv.main = "dash"
  \/ Given(inv.main) /\ StdinPiped
  \/ countSources(Credentials) > 1
  \/ Unusable

BurnConflicts ==
  \/ inv.args > 1
  \/ countSources(<<Given(inv.file), Given(inv.fd)>>) > 1
  \/ Unusable
  \/ inv.args = 1 /\ StdinPiped
  \/ Receipt /\ (Given(inv.file) \/ Given(inv.fd))
  \/ ~Receipt /\ inv.args # 1

DecryptConflicts ==
  \/ inv.args # 0
  \/ ~Given(inv.main)
  \/ countSources(Credentials) > 1
  \/ inv.json /\ Given(inv.out)

Conflicts ==
  CASE inv.command = "create" -> CreateConflicts
    [] inv.command = "reveal" -> RevealConflicts
    [] inv.command = "burn" -> BurnConflicts
    [] inv.command = "decrypt" -> DecryptConflicts

\* What each command does after the checks, in its order.
FirstStep ==
  CASE inv.command = "create" -> "plaintext"
    [] inv.command \in {"reveal", "burn"} -> "target"
    [] inv.command = "decrypt" -> "destination"

After(s) ==
  CASE s = "plaintext" -> "credential"
    [] s = "target" -> IF Receipt THEN "end" ELSE "credential"
    [] s = "credential" -> CASE inv.command = "reveal" -> "destination"
                             [] inv.command = "decrypt" -> "blob"
                             [] OTHER -> "end"
    [] s = "destination" -> IF inv.command = "decrypt" THEN "credential" ELSE "end"
    [] s = "blob" -> "end"
-----------------------------------------------------------------------------
TypeOK ==
  /\ step \in {"line", "checks", "plaintext", "target", "credential", "destination", "blob", "end"}
  /\ used \subseteq {"text", "target", "credential", "destination", "blob"}
       \X {"main", "argument", "stdin", "terminal", "file", "fd", "out", "generated"}
  /\ told \subseteq {"server", "history"}
  /\ outcome \in {"running", "refused", "failed", "ready"}

\* Before dispatch.
None == [command |-> "none"]

Init ==
  /\ Written
  /\ invocation = None /\ step = "line" /\ used = {} /\ told = {} /\ outcome = "running"

\* runCommand: an argument of reveal or burn is a link or is not; without one
\* that is up to what will be read.
RunCommand ==
  /\ step = "line" /\ result.status = "run" /\ result.command \in Commands
  /\ \E streams \in StreamsType :
       /\ result.positionals # <<>> => streams.link = (result.positionals[1] = Word("url"))
       /\ result.command \in {"create", "decrypt"} => ~streams.link
       /\ invocation' = Options(result, streams)
  /\ step' = "checks"
  /\ UNCHANGED <<used, told, outcome>>

At(s) == step = s /\ outcome = "running"

End(how) == outcome' = how /\ step' = "end"

Continue ==
  /\ step' = After(step)
  /\ outcome' = IF step' = "end" THEN "ready" ELSE "running"

\* Something that was read may be unusable, or reading it fails.
Take(role, source) ==
  /\ used' = used \union {<<role, source>>}
  /\ \/ Continue
     \/ End("refused")
     \/ End("failed")

Refuse == End("refused") /\ UNCHANGED used

Terminal(role) == IF inv.terminal THEN Take(role, "terminal") ELSE Refuse

\* create also parses --ttl and its server here, and may refuse them.
Check ==
  /\ At("checks")
  /\ \/ ~Conflicts /\ step' = FirstStep /\ UNCHANGED outcome
     \/ (Conflicts \/ inv.command = "create") /\ End("refused")
  /\ UNCHANGED <<invocation, used, told>>

\* readCreatePlaintext
ReadPlaintext ==
  /\ At("plaintext")
  /\ Take("text", IF Given(inv.main) THEN "main" ELSE "stdin")
  /\ UNCHANGED <<invocation, told>>

\* An argument that is a link stays in the shell's history, reveal says so of
\* any argument; a server that the target names itself replaces --server.
TellTarget ==
  (IF inv.args = 1 /\ (inv.link \/ inv.command = "reveal") THEN {"history"} ELSE {})
    \union (IF inv.server /\ (inv.link \/ Receipt) THEN {"server"} ELSE {})

\* The target: a receipt or a link on standard input, an argument, or the prompt
\* of reveal. reveal refuses what is no link, and every warning has to be written
\* before the command goes on.
ReadTarget ==
  /\ At("target")
  /\ \/ /\ StdinPiped /\ inv.args = 0 /\ Take("target", "stdin")
     \/ /\ inv.args = 1 /\ Take("target", "argument")
     \/ /\ ~StdinPiped /\ inv.args = 0 /\ Terminal("target")
  /\ inv.command = "reveal" /\ ~inv.link => outcome' # "running"
  /\ told' \in IF outcome' \in {"running", "ready"} THEN {TellTarget} ELSE SUBSET TellTarget
  /\ UNCHANGED invocation

\* createPhrase without a source: the generated phrase needs a way to the user.
GeneratePhrase ==
  /\ At("credential") /\ inv.command = "create" /\ countSources(Credentials) = 0
  /\ IF inv.stdin # "terminal" /\ ~inv.json THEN Refuse
     ELSE /\ used' = used \union {<<"credential", "generated">>}
          /\ Continue
  /\ UNCHANGED <<invocation, told>>

\* readPassphrase and readToken.
ReadCredential ==
  /\ At("credential")
  /\ inv.command = "create" => countSources(Credentials) > 0
  /\ IF countSources(Credentials) > 1 \/ inv.file = "dash" \/ inv.fd = "low" THEN Refuse
     ELSE IF inv.file = "named" THEN Take("credential", "file")
     ELSE IF inv.fd = "high" THEN Take("credential", "fd")
     ELSE Terminal("credential")
  /\ UNCHANGED <<invocation, told>>

\* prepareDestination; without --out the plaintext goes to standard output.
PrepareDestination ==
  /\ At("destination")
  /\ IF inv.out = "dash" THEN Refuse
     ELSE IF Given(inv.out)
     THEN /\ used' = used \union {<<"destination", "out">>}
          /\ (Continue \/ End("failed"))
     ELSE Continue /\ UNCHANGED used
  /\ UNCHANGED <<invocation, told>>

\* decrypt's ciphertext.
ReadBlob ==
  /\ At("blob")
  /\ Take("blob", IF inv.main = "dash" THEN "stdin" ELSE "main")
  /\ UNCHANGED <<invocation, told>>

Consume ==
  \/ RunCommand \/ Check \/ ReadPlaintext \/ ReadTarget \/ GeneratePhrase \/ ReadCredential
  \/ PrepareDestination \/ ReadBlob

Next == (Dispatch /\ UNCHANGED sourceVars) \/ (Consume /\ UNCHANGED lineVars)

Spec == Init /\ [][Next]_vars
-----------------------------------------------------------------------------
SourcesUsed == {pair[2] : pair \in used}

\* The sources that this invocation supplies. Standard input is not one for a
\* decrypt that names a file: /dev/null and a forgotten pipe look alike to it.
Supplied ==
  (IF Given(inv.main) /\ inv.main # "dash" THEN {"main"} ELSE {})
    \union (IF inv.args > 0 THEN {"argument"} ELSE {})
    \union (IF StdinPiped /\ (inv.command = "decrypt" => inv.main = "dash") THEN {"stdin"} ELSE {})
    \union (IF inv.ask THEN {"terminal"} ELSE {})
    \union (IF Given(inv.file) THEN {"file"} ELSE {})
    \union (IF Given(inv.fd) THEN {"fd"} ELSE {})
    \union (IF Given(inv.out) THEN {"out"} ELSE {})

\* A command that goes on to encrypt, decrypt or send its request has consumed
\* every source it was given, and mentioned a --server that does not count. Every
\* input that it needs has come from one source, and standard input has been
\* read for one of them at most.
EverySourceCounts ==
  /\ \A a, b \in used : (a[1] = b[1] \/ (a[2] = b[2] /\ a[2] # "terminal")) => a = b
  /\ outcome = "ready" =>
       /\ Supplied \subseteq SourcesUsed
       /\ (inv.server /\ (inv.command = "reveal" \/ inv.link \/ Receipt)) => "server" \in told
       /\ {pair[1] : pair \in used} \union {"destination"} =
            {"destination"} \union
            CASE inv.command = "create" -> {"text", "credential"}
              [] inv.command = "reveal" -> {"target", "credential"}
              [] inv.command = "burn" -> IF Receipt THEN {"target"} ELSE {"target", "credential"}
              [] inv.command = "decrypt" -> {"blob", "credential"}

\* Two sources for one input are refused while both are still untouched, so
\* that the user can run the corrected command with the same pipe.
MixedSourcesStayUnread ==
  step # "line" =>
  LET mixed == \/ countSources(Credentials) > 1
               \/ Receipt /\ countSources(Credentials) > 0
               \/ inv.command \in {"reveal", "burn"} /\ inv.args = 1 /\ StdinPiped
               \/ inv.command = "create" /\ Given(inv.main) /\ StdinPiped
  IN  mixed => used = {} /\ outcome \in {"running", "refused"}
=============================================================================
