---------------------------- MODULE MCInvocations ----------------------------
(***************************************************************************)
(* How the program understands what it is given: a command line and its    *)
(* inputs (InputSources over CommandLine), and the links, receipts and     *)
(* identifiers that lead from one invocation to a later one (Addresses).   *)
(* The two share no state, so that one run explores each with the other at *)
(* rest: the addresses while the simplest command line waits for dispatch. *)
(***************************************************************************)
EXTENDS InputSources, MCAddresses

Simplest == [before |-> <<>>, command |-> "create", after |-> <<>>]

MCInit == Init /\ AddressInit

MCNext ==
  \/ later = NotYet /\ made = NotMade /\ Next /\ UNCHANGED addressVars
  \/ meant = Simplest /\ result = Pending /\ AddressNext /\ UNCHANGED vars

MCSpec == MCInit /\ [][MCNext]_<<vars, addressVars>>
-----------------------------------------------------------------------------
(* Up to two items before the command and up to two behind it, with values *)
(* and arguments that look like commands or options.                       *)

Leading ==
  {Opt("server", Word("v"), 2, " "), Opt("server", Word("v"), 2, "="),
   Opt("server", Word("burn"), 2, " "), Opt("server", Word("reveal"), 2, "="),
   Opt("timeout", Word("5s"), 2, " "), Opt("timeout", Word("reveal"), 2, " "),
   Switch("json", 2), Switch("plain", 2)}

Valued == {Opt("server", Word("burn"), 2, " "), Opt("timeout", Word("reveal"), 2, " "), Switch("json", 2)}

Items ==
  {Opt("server", Word("burn"), 2, " "), Opt("server", Word("v"), 1, " "),
   Opt("timeout", Word("5s"), 2, " "), Opt("timeout", Word("0s"), 2, "="),
   Opt("timeout", Word("v"), 2, " "), Switch("json", 2),
   Opt("json", Word("false"), 2, "="), Opt("ttl", Word("v"), 2, " "), Opt("ttl", Word("v"), 1, " "),
   Opt("ttl", Word("w"), 1, "="), Opt("out", Word("reveal"), 2, " "),
   Opt("out", Option(2, "json", NoValue), 2, " "), Opt("token-fd", Word("3"), 2, " "),
   Opt("passphrase-fd", Word("v"), 2, "="), Opt("passphrase-file", Word("decrypt"), 2, " "),
   Switch("ask", 2), Switch("quiet", 2), Switch("help", 2),
   Arg(Word("url")), Arg(Word("words")), ArgBehindTerminator(Option(1, "x", NoValue))}

Lines(befores, afters) ==
  [before : befores, command : Commands \cup {"words"}, after : afters]

Mixed ==
  Lines(BoundedSeq(Leading, 1) \cup {<<Switch("help", 2)>>, <<Switch("version", 2)>>},
        BoundedSeq(Items, 2))
  \cup Lines(BoundedSeq(Valued, 2), BoundedSeq(Items, 1))
-----------------------------------------------------------------------------
(* Every combination of the options that name a source.                    *)

Values(name, values) == {<<>>} \cup {<<Opt(name, Word(v), 2, "=")>> : v \in values}

Switches(name) == {<<>>, <<Switch(name, 2)>>}

Files(name) == Values(name, {"", "-", "file"})

Descriptors(name) == Values(name, {"-1", "0", "3"})

Arguments == {<<>>, <<Arg(Word("url"))>>, <<Arg(Word("id"))>>, <<Arg(Word("url")), Arg(Word("id"))>>}

\* The options of a command, one of each set.
Sources(command, options) ==
  [before : {<<>>}, command : {command},
   after : FoldLeft(LAMBDA lines, option : {line \o o : line \in lines, o \in option}, {<<>>}, options)]

Server == Values("server", {"v"})

Passphrase == <<Switches("ask"), Files("passphrase-file"), Descriptors("passphrase-fd")>>

Combined ==
  Sources("create", <<Server, Switches("json"), Files("input"), {<<>>, <<Arg(Word("id"))>>}>> \o Passphrase)
  \cup Sources("reveal", <<Server, Switches("json"), Values("out", {"", "file"}), Arguments>> \o Passphrase)
  \cup Sources("burn", <<Server, Files("token-file"), Descriptors("token-fd"), Arguments>>)
  \cup Sources("decrypt", <<Switches("json"), Files("blob-file"), Files("out"),
                            {<<>>, <<Arg(Word("id"))>>}>> \o Passphrase)

MCMeanings == Mixed \cup Combined
=============================================================================
