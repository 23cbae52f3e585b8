---------------------------- MODULE CommandLine ----------------------------
(***************************************************************************)
(* internal/cli: how an argument list is read (run.go, flags.go,           *)
(* command_schema.go), and how the generated completions of four shells    *)
(* read the same words (completion.go).                                    *)
(*                                                                         *)
(* The user means a command, options and positional arguments and writes   *)
(* them down as words. What was meant is compared with what is understood. *)
(* A word has no, one or two dashes, a name, and perhaps "=" and a value;  *)
(* the values of options are words, too.                                   *)
(***************************************************************************)
EXTENDS Naturals, SequencesExt

CONSTANTS
  Meanings   \* what a user may mean: [before, command, after], the items
             \* before the command, one of commandSpecs, and those behind it

VARIABLES
  meant,   \* what the user means
  result   \* what dispatch makes of it

lineVars == <<meant, result>>

NoValue == "no value"

\* The name of a command or an option that is not there.
NoName == ""

Word(w) == [dashes |-> 0, name |-> w, value |-> NoValue]

Option(dashes, name, value) == [dashes |-> dashes, name |-> name, value |-> value]

\* "--" ends one call of flag.Parse.
Terminator == Option(2, NoName, NoValue)
-----------------------------------------------------------------------------
(* The schema: the options that each command registers, with the kind of   *)
(* value they take.                                                        *)

registerNetworkFlags == {<<"server", "string">>, <<"timeout", "duration">>}

registerJSONFlag == {<<"json", "bool">>}

registerTerminalPresentationFlags == {<<"plain", "bool">>, <<"no-color", "bool">>}

passphraseFlags ==
  {<<"ask", "bool">>, <<"passphrase-file", "string">>, <<"passphrase-fd", "int">>}

flagSet(flags) ==
  [name \in {f[1] : f \in flags} |-> (CHOOSE f \in flags : f[1] = name)[2]]

noFlags == [name \in {} |-> "bool"]

commandSpecs ==
  LET spec(network, json, terminal, flags) ==
        flagSet(flags
                \cup (IF network THEN registerNetworkFlags ELSE {})
                \cup (IF json THEN registerJSONFlag ELSE {})
                \cup (IF terminal THEN registerTerminalPresentationFlags ELSE {}))
  IN  [create |-> spec(TRUE, TRUE, TRUE,
                       passphraseFlags \cup {<<"ttl", "string">>, <<"input", "string">>}),
       reveal |-> spec(TRUE, TRUE, TRUE,
                       passphraseFlags \cup {<<"keep-blob", "string">>, <<"out", "string">>}),
       burn |-> spec(TRUE, TRUE, FALSE, {<<"token-file", "string">>, <<"token-fd", "int">>}),
       decrypt |-> spec(FALSE, TRUE, TRUE,
                        passphraseFlags \cup {<<"blob-file", "string">>, <<"out", "string">>}),
       words |-> noFlags, completion |-> noFlags, version |-> noFlags,
       licenses |-> noFlags, help |-> noFlags]

leadingFlags ==
  flagSet(registerNetworkFlags \cup registerJSONFlag \cup registerTerminalPresentationFlags)

isCommand(word) == word.dashes = 0 /\ word.name \in DOMAIN commandSpecs

\* The values that convert, of those the model uses.
Converts ==
  [bool |-> {"true", "false"}, int |-> {"3", "0", "-1"}, duration |-> {"5s", "0s"}]

converts(kind, word) ==
  kind # "string" => word.dashes = 0 /\ word.name \in Converts[kind]
-----------------------------------------------------------------------------
(* Dispatch. *)

\* What dispatch decides: whether it is a usage error, or what to run with
\* which options and positional arguments.
Usage == [status |-> "usage", command |-> NoName, options |-> noFlags, positionals |-> <<>>]

Run(command, options, positionals) ==
  [status |-> "run", command |-> command, options |-> options, positionals |-> positionals]

Found(command, args) == [command |-> command, args |-> args]

\* The options that splitCommand knows, in the spelling it knows.
Recognised ==
  {Option(2, name, NoValue) : name \in {"server", "timeout", "version", "help"}}
    \cup {Option(1, "h", NoValue)}

\* As splitCommand, but the values of leading options are not skipped.
splitCommandAnywhere(args) ==
  LET commands == {i \in DOMAIN args : isCommand(args[i])} IN
  IF commands = {} THEN Found(NoName, <<>>)
  ELSE LET i == CHOOSE i \in commands : \A j \in commands : i <= j IN
       Found(args[i].name, RemoveAt(args, i))

\* The command is the first word that is not an option or the value of an
\* option; only the leading options with values are known here. Without one, or
\* with another word in its place, it is a usage error.
splitCommand(args) ==
  LET at[i \in 1..(Len(args) + 2)] ==
        IF i > Len(args) THEN Found(NoName, <<>>)
        ELSE LET word == args[i] IN
             CASE word \in {Option(2, "server", NoValue), Option(2, "timeout", NoValue)} -> at[i + 2]
               [] isCommand(word) -> Found(word.name, RemoveAt(args, i))
               [] word = Option(2, "version", NoValue) -> Found("version", SubSeq(args, 1, i - 1))
               [] word \in {Option(2, "help", NoValue), Option(1, "h", NoValue)} -> Found("help", <<>>)
               [] word.dashes > 0 /\ word \notin Recognised -> at[i + 1]
               [] OTHER -> Found(NoName, <<>>)
  IN  at[1]

\* An option that appears twice with two dashes, up to the terminator.
duplicateOption(args) ==
  LET end == {i \in DOMAIN args : args[i] = Terminator}
      counted == {i \in DOMAIN args : args[i].dashes = 2 /\ \A e \in end : i < e}
  IN  \E i, j \in counted : i # j /\ args[i].name = args[j].name

NotParsed == [ok |-> FALSE, sets |-> <<>>, positionals |-> <<>>]

\* flag.Parse, begun again behind every positional argument: the options that
\* are set, in order, and the positional arguments.
parseInterleaved(flags, args) ==
  LET set(name, value, rest) ==
        IF ~rest.ok \/ ~converts(flags[name], value) THEN NotParsed
        ELSE [rest EXCEPT !.sets = <<<<name, value>>>> \o @]
      positional(word, rest) == [rest EXCEPT !.positionals = <<word>> \o @]
      from[i \in 1..(Len(args) + 2)] ==
        IF i > Len(args) THEN [ok |-> TRUE, sets |-> <<>>, positionals |-> <<>>]
        ELSE LET word == args[i] IN
             CASE word = Terminator /\ i = Len(args) -> from[i + 1]
               [] word = Terminator /\ i < Len(args) -> positional(args[i + 1], from[i + 2])
               [] word.dashes = 0 -> positional(word, from[i + 1])
               [] word.dashes > 0 /\ word # Terminator ->
                    CASE word.name \notin DOMAIN flags -> NotParsed
                      [] word.name \in DOMAIN flags /\ word.value # NoValue ->
                           set(word.name, Word(word.value), from[i + 1])
                      [] word.name \in DOMAIN flags /\ word.value = NoValue ->
                           IF flags[word.name] = "bool" THEN set(word.name, Word("true"), from[i + 1])
                           ELSE IF i = Len(args) THEN NotParsed
                           ELSE set(word.name, args[i + 1], from[i + 2])
  IN  from[1]

\* The value that stays is the last one.
lastOf(sets) ==
  LET at(name) == {i \in DOMAIN sets : sets[i][1] = name} IN
  [name \in {sets[i][1] : i \in DOMAIN sets} |->
     sets[CHOOSE i \in at(name) : \A j \in at(name) : j <= i][2]]

dispatch(argv) ==
  LET split == splitCommand(argv)
      flags == commandSpecs[split.command]
      parsed == parseInterleaved(flags, split.args)
      options == lastOf(parsed.sets)
  IN  CASE split.command = NoName -> Usage
        [] split.command # NoName /\ split.args \in {<<Option(2, "help", NoValue)>>, <<Option(1, "h", NoValue)>>} ->
             Run("help", noFlags, <<Word(split.command)>>)
        [] OTHER ->
             IF \/ duplicateOption(split.args) \/ ~parsed.ok
                \/ "timeout" \in DOMAIN options /\ options["timeout"] = Word("0s")
             THEN Usage
             ELSE Run(split.command, options, parsed.positionals)
-----------------------------------------------------------------------------
(* Completion: what the words before the cursor mean to a shell, the       *)
(* command and whether the next word is the value of an option.            *)

Reading(command, expectValue) == [command |-> command, expectValue |-> expectValue]

valueOption(flags, word) ==
  /\ word.dashes = 2 /\ word.value = NoValue
  /\ word.name \in DOMAIN flags /\ flags[word.name] # "bool"

flagsOf(command) == IF command = NoName THEN leadingFlags ELSE commandSpecs[command]

\* As readWord, but a value may be taken for the command.
readAnyWord(r, word) ==
  IF r.command = NoName /\ isCommand(word) THEN Reading(word.name, FALSE)
  ELSE Reading(r.command, ~r.expectValue /\ valueOption(flagsOf(r.command), word))

\* One round of the loop over the words before the cursor.
readWord(r, word) ==
  IF r.expectValue THEN Reading(r.command, FALSE)
  ELSE IF r.command = NoName /\ isCommand(word) THEN Reading(word.name, FALSE)
  ELSE Reading(r.command, valueOption(flagsOf(r.command), word))

\* zsh passes the words as they are.
zshCompletion(words) ==
  LET after[n \in 0..Len(words)] ==
        IF n = 0 THEN Reading(NoName, FALSE) ELSE readWord(after[n - 1], words[n])
  IN  after[Len(words)]

Assigned(word) == word.dashes > 0 /\ word.value # NoValue

\* Bash breaks the line at "=" too, one of the default COMP_WORDBREAKS: its
\* COMP_WORDS hold an assigned value as three words. (It breaks values at ":" as
\* well, as in the address of a server; no piece of an address is a command.)
readPieces(r, word) ==
  IF Assigned(word)
    THEN readWord(readWord(readWord(r, Option(word.dashes, word.name, NoValue)), Word("=")),
                  Word(word.value))
    ELSE readWord(r, word)

bashCompletion(words) ==
  LET after[n \in 0..Len(words)] ==
        IF n = 0 THEN Reading(NoName, FALSE) ELSE readPieces(after[n - 1], words[n])
  IN  after[Len(words)]

\* __burnerpad_command. What follows an option is for fish itself to know.
fishCompletion(words) ==
  LET reads(r, word) ==
        IF r.command # NoName THEN r
        ELSE IF r.expectValue THEN Reading(NoName, FALSE)
        ELSE IF isCommand(word) THEN Reading(word.name, FALSE)
        ELSE Reading(NoName, valueOption(leadingFlags, word))
      after[n \in 0..Len(words)] ==
        IF n = 0 THEN Reading(NoName, FALSE) ELSE reads(after[n - 1], words[n])
  IN  after[Len(words)].command

\* Two passes: the command by the leading options, the value by its own.
powershellCompletion(words) ==
  LET command == fishCompletion(words)
      expects[n \in 0..Len(words)] ==
        /\ n > 0 /\ ~expects[n - 1]
        /\ words[n] # Word(command) /\ valueOption(flagsOf(command), words[n])
  IN  Reading(command, expects[Len(words)])
-----------------------------------------------------------------------------
(* What the user means, and how it is written. *)

\* An item is an option with a value and its spelling, or a positional argument
\* that may follow a terminator. Options without a value are switches.
Opt(name, value, dashes, glue) ==
  [kind |-> "option", name |-> name, value |-> value, dashes |-> dashes, glue |-> glue]

Switch(name, dashes) == Opt(name, Word("true"), dashes, "none")

Arg(word) == [kind |-> "arg", name |-> NoName, value |-> word, dashes |-> 0, glue |-> "none"]

ArgBehindTerminator(word) == [Arg(word) EXCEPT !.glue = "--"]

\* The words of an item, each with the role it plays.
written(item) ==
  CASE item.kind = "option" /\ item.glue = "=" ->
         <<<<Option(item.dashes, item.name, item.value.name), "option">>>>
    [] item.kind = "option" /\ item.glue = " " ->
         <<<<Option(item.dashes, item.name, NoValue), "option">>, <<item.value, "value">>>>
    [] item.kind = "option" /\ item.glue = "none" ->
         <<<<Option(item.dashes, item.name, NoValue), "option">>>>
    [] item.kind = "arg" /\ item.glue = "--" ->
         <<<<Terminator, "terminator">>, <<item.value, "positional">>>>
    [] item.kind = "arg" /\ item.glue = "none" -> <<<<item.value, "positional">>>>

wordsOf(list) ==
  LET upto[n \in 0..Len(list)] ==
        IF n = 0 THEN <<>> ELSE upto[n - 1] \o written(list[n])
  IN  upto[Len(list)]

writtenAll(m) ==
  wordsOf(m.before) \o <<<<Word(m.command), "command">>>> \o wordsOf(m.after)

argv(m) == LET all == writtenAll(m) IN [i \in DOMAIN all |-> all[i][1]]

WordType == [dashes : 0..2, name : STRING, value : STRING]

ItemType ==
  [kind : {"option", "arg"}, name : STRING, value : WordType, dashes : 0..2,
   glue : {"=", " ", "none", "--"}]

\* Only words with dashes have a value, and only options a name.
IsItem(item) ==
  /\ item.value.dashes = 0 => item.value.value = NoValue
  /\ item.kind = "arg" => item \in {Arg(item.value), ArgBehindTerminator(item.value)}
  /\ item.kind = "option" =>
       /\ item.dashes > 0 /\ item.name # NoName
       /\ \/ item.glue = " "
          \/ item.glue = "=" /\ item.value.name # NoValue
          \/ item = Switch(item.name, item.dashes)

\* The user knows which of the options that there are take a value.
Fits(flags, item) ==
  item.kind = "option" /\ item.name \in DOMAIN flags =>
    (item.glue = " " => flags[item.name] # "bool") /\ (item.glue = "none" => flags[item.name] = "bool")

\* Before the command stand options every command understands, or --help or
\* --version alone. Behind it stands anything, in the spelling of its options.
ASSUME MeaningsAssumption ==
  \A m \in Meanings :
    /\ m.command \in DOMAIN commandSpecs
    /\ m.before \in Seq(ItemType) /\ m.after \in Seq(ItemType)
    /\ \A i \in DOMAIN m.after : IsItem(m.after[i]) /\ Fits(commandSpecs[m.command], m.after[i])
    /\ \/ m.before \in {<<Switch("help", 2)>>, <<Switch("version", 2)>>}
       \/ \A i \in DOMAIN m.before :
            /\ IsItem(m.before[i]) /\ Fits(leadingFlags, m.before[i])
            /\ m.before[i].kind = "option" /\ m.before[i].name \in DOMAIN leadingFlags

Pending == [status |-> "pending", command |-> NoName, options |-> noFlags, positionals |-> <<>>]

Written == meant \in Meanings /\ result = Pending

Dispatch == result = Pending /\ result' = dispatch(argv(meant)) /\ UNCHANGED meant
-----------------------------------------------------------------------------
(* Properties. *)

items(m) == m.before \o m.after

optionsAt(m) == {i \in DOMAIN items(m) : items(m)[i].kind = "option"}

argumentsOf(list) ==
  LET from[i \in 1..(Len(list) + 1)] ==
        IF i > Len(list) THEN <<>>
        ELSE (IF list[i].kind = "arg" THEN <<list[i].value>> ELSE <<>>) \o from[i + 1]
  IN  from[1]

Repeats(m) == \E i, j \in optionsAt(m) : i # j /\ items(m)[i].name = items(m)[j].name

\* The way the help and the documentation spell a command line.
Documented(m) ==
  /\ \A i \in DOMAIN items(m) : items(m)[i].glue # "--" /\ items(m)[i].dashes # 1
  /\ \A i \in DOMAIN items(m) : items(m)[i].value.dashes = 0

\* Every option is one of the command's, once, and with a value of its kind.
Valid(m) ==
  LET flags == commandSpecs[m.command] IN
  /\ ~Repeats(m)
  /\ \A i \in optionsAt(m) :
       LET option == items(m)[i] IN
       /\ option.name \in DOMAIN flags
       /\ converts(flags[option.name], option.value)
       /\ option.name = "timeout" => option.value # Word("0s")

Understood(m) ==
  LET value(name) ==
        items(m)[CHOOSE i \in optionsAt(m) : items(m)[i].name = name].value
  IN  Run(m.command, [name \in {items(m)[i].name : i \in optionsAt(m)} |-> value(name)],
          argumentsOf(items(m)))

\* --help or --version alone before a command, --help alone behind it.
Meaning(m) ==
  CASE m.before = <<Switch("help", 2)>> -> Run("help", noFlags, <<>>)
    [] m.before = <<Switch("version", 2)>> -> Run("version", noFlags, <<>>)
    [] m.before = <<>> /\ m.after = <<Switch("help", 2)>> ->
         Run("help", noFlags, <<Word(m.command)>>)
    [] OTHER -> IF Valid(m) THEN Understood(m) ELSE Usage

\* A documented command line is understood as it is meant, in whichever order
\* leading options, options and arguments are mixed and whatever they look like,
\* or it is a usage error when the command has no such options: the two passes
\* over the words agree on which of them are the values of options.
UnderstoodAsMeant ==
  result # Pending /\ Documented(meant) => result = Meaning(meant)

\* At every word of a command line that is valid, the completions know the
\* command exactly if it has been typed and offer no options or commands where
\* the program is going to read a value. Bash does not when it is misled: when
\* the name of a command stands behind the "=" of an option before the command.
CompletionAgrees ==
  result = Pending /\ Documented(meant) /\ Valid(meant) =>
    LET all == writtenAll(meant)
        line == argv(meant)
        role(i) == all[i][2]
    IN
    \A n \in 0..Len(line) :
      LET words == SubSeq(line, 1, n)
          expected ==
            Reading(IF \E i \in 1..n : role(i) = "command" THEN meant.command ELSE NoName,
                    n < Len(line) /\ role(n + 1) = "value")
          misled ==
            \E i \in 1..n : /\ line[i].value \in DOMAIN commandSpecs
                            /\ \A j \in 1..i : role(j) # "command"
      IN  /\ misled \/ bashCompletion(words) = expected
          /\ zshCompletion(words) = expected
          /\ powershellCompletion(words) = expected
          /\ fishCompletion(words) = expected.command

\* internal/cli/completion_test.go:99: words: {"burnerpad", "--server=create",
\* "reveal", "--k"}, want: {"--keep-blob"}. bashCompletion: behind an assigned
\* value, whatever it is, the command that has been typed is known.
AssignedValuesAreSkipped ==
  result = Pending /\ Documented(meant) /\ Valid(meant) =>
    LET all == writtenAll(meant) IN
    \A n \in DOMAIN all :
      all[n][2] = "command" => bashCompletion(SubSeq(argv(meant), 1, n)).command = meant.command
=============================================================================
