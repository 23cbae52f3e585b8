# A verification project for burnerpad-cli

burnerpad-cli creates, reveals and burns one-time secrets on a Burnerpad server. Revealing a secret destroys
it on the server, so the program has very few chances to be wrong: it must never say that nothing happened
when the server has acted, never exit zero without having handed over its result, and never lose a claimed
secret without telling the user. Signals, broken connections, failing files, typed-ahead keys and a terminal in
raw mode all interleave with that. The modules here model this program, TLC checks them on small instances, and
TLAPS proves the safety properties for every value of the constants.

## Inventory: the system and its parts

One process runs one command (`internal/cli/run.go`). The main goroutine waits for the command goroutine and
for signals. The command reads its inputs, sends at most one mutation request, and delivers the result; the
request is written by a goroutine of `net/http`. Prompts and the viewer take key events from one channel that two
pump goroutines fill for as long as the terminal lives.

| Part | State it keeps | Operations | Talks to | Hard behaviour |
| --- | --- | --- | --- | --- |
| Mutation request (`internal/api`) | the `wrote` flag, the response | Create, Reveal, Burn | transport goroutine, server | the request is being written while `hc.Do` returns; answers of gateways; broken bodies |
| Run (`cli/run.go`) | signal channel, context, `done` channel | Run, waitDispatch, report, reportAfterSignal | the command, the operating system | a result and a signal at the same moment; joining a command that waits; a second signal |
| reveal, decrypt (`cli/reveal.go`, `decrypt.go`, `plaintext.go`, `output.go`) | reservations, phrase, blob, plaintext | reserve, claim, write recovery, retry, deliver, discard | request, terminal, file system | failure after the claim; cancellation while plaintext is ready; deferred discards |
| create, burn (`cli/create.go`, `burn.go`) | inputs, chosen server, result | read, choose server, disclose, request, hand over | request, stdio | a handoff that stops half-way; a token sent to the wrong origin |
| Bounded input (`readBounded`) | buffer, close callback | read, cancel, wipe | the reader, Run's context | a blocked read; two owners of a secret buffer; the byte past the limit |
| Phrase prompt, raw (`term/machine.go`, `candidates.go`) | committed words, partial word | one handler per key event | event pump, word list | arithmetic that relies on distinct words; paste against a partial word |
| Phrase prompt, plain (`term/plain.go`) | committed words | one line at a time | line editor | must accept what the raw prompt accepts |
| Key decoder (`term/keys.go`) | decoder state | feed, flush, timeout | the terminal | a timeout inside a sequence; an end marker inside a paste |
| Event channel (`term/phrase.go`) | events not yet taken | type, take, cancel, resize tick | decoder, all prompts | type-ahead from one prompt to the next; keys against cancellation in one select |
| Line and password prompts (`term/credentials.go`) | one line and its overflow | edit, drain, answer | event channel | a line that is too long, and what follows it |
| Viewer (`term/viewer.go`) | window size it knows, page starts, page | next, back, resize, fall back to the scrollback | event channel, terminal | a resize between two pages; a window without room |
| Terminal modes (`term/phrase.go`) | saved modes, paste and screen flags | makeRaw, makePasswordMode, alternate screen, EmergencyRestore | terminal | a mode that is half entered or half left when the command or the invocation ends |
| Command line (`cli/run.go`, `flags.go`, `command_schema.go`) | none | split, find duplicates, parse interleaved | commands | two passes over the same words; values that look like commands |
| Completion (`cli/completion.go`) | none | four scripts read the words before the cursor | shells | four more readings of the words, which bash also divides in its own way |
| Input sources (`cli/*.go`) | what was consumed so far | conflicts, read, prompt | streams, files, terminal | refusals that come after a pipe was read |
| Identifiers, origins (`id/`, `parseBaseURL`, `resolveConfig`) | none | normalize, parse, choose a server | create, later reveal or burn | one server in several spellings, compared as text |
| Envelope, word list, secret memory, credential files, platform files | none or system resources | pure functions and system calls | commands | not concurrent |

What makes each part correct:

* **Mutation request**: a refusal reported to the user is never contradicted by the server; success is real;
  every call returns.
* **Run**: nothing outlives it; a substantive result beats a signal; a result that was there first decides.
* **reveal, decrypt**: zero means delivered; no silent loss after the claim; everything that can fail locally
  comes before the claim; no half-made file stays, no finished or foreign file is touched.
* **create, burn**: zero means that everything was handed over; a signal's exit status is honest; the token
  goes only to the disclosed origin.
* **Prompts**: only 7 to 64 distinct list words are ever submitted, by a key of its own; both prompts implement
  one abstract entry; every answer is what was typed for it, whatever was typed ahead.
* **Viewer**: no text is skipped; plaintext on the main screen is announced.
* **Decoder**: what was meant is what is decoded.
* **Terminal modes**: the terminal is left as it was found.
* **Command line, completion, sources**: what was meant is run and completed; nothing supplied is ignored.
* **Identifiers, origins**: a link, receipt or identifier leads back to its secret or to none.

## Modules and how they correspond to the code

`PROJECT.json` maps every definition to its lines. Names follow the source: `reserve`, `onTab`, `classifyStatus`
are the functions of these names. A definition that begins "As X, but ..." is a plausible mistake in X, kept
beside it to show that the properties notice it; the specifications never use it.

* **SingleAttempt** (abstract). One effect and one verdict: *confirmed* only after the effect, *refused* only if
  it did not happen and never will, otherwise *unknown*.
* **MutationRequest**. `phase` is where the caller is in `Client.do`, `writer` the transport goroutine with the
  `WroteHeaders` callback (`wrote`), `open`, `sent`, `served`, `reply` the connection and the server. The caller
  can leave `waiting` at any time (cancellation, timeout, broken connection). The server may execute after the
  client has gone, and replies that are not in its documented contract say nothing.
  It implements SingleAttempt with `effect = (served = "executed")`.
* **RunLifecycle**. `main` is the program counter of Run through `waitDispatch` and the join; `pending` the signal
  channel of capacity one; `dispatch` and `done` the command goroutine. A command is any member of `Results`.
* **PlaintextCommands** instantiates RunLifecycle and MutationRequest for reveal (and RunLifecycle alone for
  decrypt): `step` is the line the command goroutine is at, `disk` and `ours` the files and reservations, `told`
  what stderr said, `delivered` whether the plaintext has arrived. Run's cancellation is the request's `Cancel`.
* **HandoffCommands** does the same for create and burn; `handed` is what was written of the result.
* **ReadBounded**: the reader, the `AfterFunc` callback, the reading goroutine and its caller.
* **PhraseEntry** (abstract), **PhraseMachine**, **PlainPhrase**, **InteractiveWords**: the two prompts, the
  grammar they share, and the entry of a phrase both implement. A raw-terminal word is a sequence of letters.
* **KeyDecoder**: `d` is the struct of the decoder, `feed`, `ground`, `flush` its functions; the terminal on the
  other side knows what each gesture meant.
* **EventQueue**: the channel of a TTY as the history of all events and the number of those taken; consumers look
  at the context (`Check`) and then take a key, the resize tick, the cancellation or the end (`Take`, `TakeTick`,
  `Canceled`, `Closed`). What one prompt leaves is there for the next.
* **LineEditor**: what a key does to a line, with the limit in bytes and the drain after it was passed.
* **ViewerPages**: how a text of tokens, each a line break or a width, is cut into pages.
* **TerminalSession** composes the last three with PlainPhrase into the prompts and the viewer of one invocation,
  asked one after another. `ed` is the line being read, `view` the size, starts and page of the viewer.
* **TTYModes**: `raw`, `password`, `paste`, `alternate` are the fields under `t.mu`; what a restore has yet to write
  after unlocking is `leaving` or `snapshot`.
* **CommandLine**: a user means a command with options and arguments and writes words; `splitCommand`,
  `duplicateOption`, `parseInterleaved` and the schema make of them what `dispatch` runs, and four completions read
  their beginnings. A schema is a set of names with the kinds of their values, as they are registered, and the
  `flagSet` of them; loops are functions over the words. What a user may mean is any set within
  `MeaningsAssumption`: before the command options that every command understands (or --help or --version alone),
  behind it anything, with options that take a value and options that do not written as such. **InputSources** goes on with what was understood: the checks of the four commands and every
  input they consume, in the order of the code.
* **Addresses**: create on a selected server, the link on its way to somebody who retypes it, and the reveal or burn
  that finds the secret again. A URL is text: a host has several spellings, which `parseBaseURL`, `parseURL` and
  `net/url` treat differently.
* Modules named **...Proofs** hold the theorems; **MC...** modules hold values for TLC. **RunProofs** is about
  RunLifecycle and TTYModes, what holds when an invocation ends; **InputProofs** about CommandLine, ReadBounded,
  InputSources and Addresses, what the program is given. **MCInvocations** puts InputSources and Addresses side by side.

## What the runs check

| Run | Question | Bounds |
| --- | --- | --- |
| mutation_request | Can a reported outcome contradict the server? Does the call return? | one status of every class the code or the contract tells apart, all three operations; a process sends one request, so nothing else is bounded |
| run_lifecycle | What does the exit status say? Is the terminal restored? | three signals: one taken, one queued or dropped, one after the subscription is gone; a result of each class run.go distinguishes; two uses of the terminal |
| plaintext_commands | Is a claimed secret ever lost silently, delivered half, or left in a bad file? | twelve settings that cover every destination with and without recovery file, one path for both, no terminal, no stderr, and offline, three of them with inputs that no cancellation ends or with outputs that nobody takes; two signals; two paths |
| handoff_commands | Is a changed server always reported and its result handed over? Where does the token go? | eight settings; two signals |
| phrase_machine | Can the raw prompt submit a wrong phrase, or by surprise? | five words with shared prefixes and one that is a prefix-neighbour of another, one letter on no word, 2 to 3 words instead of 7 to 64: gate, limit and every candidate count 0, 1, 2, more are reached |
| terminal_session | Are answers what was typed, is all text seen, does every session end? | six scenarios: a token edited in every way; a URL and a phrase one after the other with type-ahead; the viewer in three windows, one of them too small, with up to two resizes; each also with cancellation and the end of the input. Up to five keys, limits of 2 to 4 bytes: a line is completed, passed by one byte, drained and followed by another |
| key_decoder | Is every gesture decoded as meant? | two gestures, which is enough for one to leave state to the next; pastes up to one byte over a limit of three; all 121 contents made of ESC, `[`, `1` up to four bytes, the alphabet of the end marker |
| read_bounded | Is input complete, owned by one party and cancellable? | lengths to two over a limit of two; all three kinds of reader; a peer that ends, fails, or goes on |
| invocations | Is what the user supplies understood as meant: words, sources, addresses? | up to two items before the command and two behind it, among them values that look like commands and options; every combination of the options that name a source with every stream; four selections of a server (none, one on this machine, one with letters beyond ASCII, a text that is no origin) at both ends, and two changes to a link, so that one can make up for the other's change of length |
| bash_completion | expected violation, below | |
| read_bounded_blocking | expected violation, below | |
| addresses_receipts | expected violation, below | |

Deadlock checking is off: all of these systems stop, when the process exits or the prompt ends.

Properties that say the most: `RefusalIsFinal` (exits 4, 6 and 7 are never contradicted, not even by work the
server finishes after the client has exited), `NoSilentLoss`, `SignalStatusIsHonest`, `CompletionIsAuthoritative`,
`PendingHandoffCompletes`, `FinishedFilesAreKept`, `CandCountIsExact`, `LinesAsTyped` (type-ahead and over-long
lines never land in another answer), `PagesAreRead` (resizes hide no text), `FewKeysAfterCancel`, `DecodedAsMeant`,
`OneUseLeavesCooked`, `UnderstoodAsMeant`, `MixedSourcesStayUnread`, `LeadsBack`.

The run `invocations` explores InputSources and Addresses side by side, and `run_lifecycle` RunLifecycle and TTYModes.
They share no state, so a behaviour is one or the other.

### Three disagreements between the code and its tests and documentation

* `bash_completion`: internal/cli/completion_test.go expects the bash script to skip an assigned value
  (`burnerpad --server=create reveal --k`). The test fills `COMP_WORDS` by itself, one word for `--server=create`. Bash
  breaks the line at `=` (`COMP_WORDBREAKS`), so that the script takes `=` for the value of `--server` and `create` for
  the command. `readPieces` models this, and `CompletionAgrees` promises nothing of bash for such a line, where the
  name of a command is assigned to an option before the command; no address looks like that.
* `read_bounded_blocking`: docs/ARCHITECTURE.md promises that the cancellation context covers input. A standard
  input in blocking mode is not covered: `Close` does not end a blocked read, `readBounded` does not return, and
  Run joins until the peer writes or a second signal kills the process.
* `addresses_receipts`: README.md promises that burn takes a piped receipt of create. On a server whose name has
  letters beyond ASCII it does not: create writes the server as `url.URL.String` escapes it, burn compares that text
  with an origin put together from the decoded host. Links are not affected, because both commands canonicalise
  their origin again. `LeadsBack` therefore speaks of receipts of servers with ASCII names only.

Limits of what the code recognises, which the properties leave out: `duplicateOption` looks at words with two dashes
up to `--`, while the flag package also takes options with one dash and `parseInterleaved` goes on behind `--`, so
that the last of two such options counts (`UnderstoodAsMeant` speaks of the documented spelling); an option with an
empty value (`--input ""`) and descriptor -1 are the same as no option, so that they are neither used nor refused
(`Given` in InputSources). The comment on EmergencyRestore allows it at any time, and TTYModes takes it by
its word; with two uses of the terminal that could save raw mode as the mode to return to, while one use is harmless in
every interleaving (`OneUseLeavesCooked`, `UndoneOnce`). This program calls it in one place only, after Run has joined
the command (run.go:117), so that none of these interleavings occurs in it today: the two properties keep the promise
of the comment, and `CommandCleansUp` is the one about the program as it is. A process that is killed between a
reservation and its write leaves an empty file; no property speaks of it, because the code has no recovery for it
(`NoReservationLeft` is about normal exits, `FinishedFilesAreKept` about files that are complete or foreign).
`PrepareDestination` of InputSources never refuses for want of a terminal, which only lets more command lines go on.

## Fairness

* MutationRequest: weak fairness of the caller. Go schedules it, and `api.New` refuses a timeout that is not
  positive, so `GiveUp` is always possible while it waits. The server and the network owe nothing.
* PlaintextCommands: the steps that wait for no user (`Internal`) and Run are fair, but only while the command is not
  `Stalled`; users, servers and the network owe nothing. It is stalled in a read that no cancellation ends (a setting's
  `unending`: an input in blocking mode, as in the run `read_bounded_blocking`, or a FIFO that nobody has opened), and
  in a write that nobody takes (a setting that is not `drained`: a full pipe behind standard output or standard
  error), be it the command's or Run's own report. `SignalEndsInvocation` promises the end of the invocation after a
  signal where the command is not stalled for ever, `[]<>~Stalled`: a stall that passes makes no difference, and in the
  other settings the promise is without a condition. HandoffCommands has no liveness property.
  (RunLifecycle alone also lets its arbitrary command return; its checked properties do not need that.)
* ReadBounded: the goroutines are scheduled, the peer may stay silent for ever.
* TerminalSession: weak fairness of the program's own steps, none of the user's. The scenarios bound resizes,
  because a select that always finds a resize tick ready takes the cancellation only by Go's random choice, which
  is no fairness TLA+ could state of a single run.
* The other specifications have no fairness and only safety properties.

## What is proved

Every theorem holds for all values of the constants under the assumptions named; TLC evaluates these on the values
of the models.

* **MutationRequest** (any statuses, any server within `ContractAssumption`): `RefusalIsFinal`, that success is real,
  and `ImplementsSingleAttempt`. RefusalIsFinal is not inductive. The invariant that is states the order of events
  the code relies on: the flag is set before anything complete is flushed (`FlagCoversTheWire`), the connection is
  given up before the flag is read (`GivenUp`), and a verdict of *not reached* keeps the request off the wire for
  good (`NetworkMeansUnsent`); `ServerKeepsContract` and `OutcomeJustified` connect replies to effects. The
  refinement maps each step to a step of SingleAttempt or a stutter.
* **RunLifecycle** (any results that contain success, any number of signals): `JoinedBeforeReturn`,
  `SubstantiveResultSurvives`, `CompletionIsAuthoritative`. The invariant links the two goroutines: the command
  exists exactly in the middle of Run (`DispatchFollowsMain`), it has returned exactly when its result is in the
  channel (`ResultMeansReturned`), and Run returns by itself only without a running command and with its result
  (`ReturnJustified`). CompletionIsAuthoritative is temporal: a result in the select stays decisive (`DecidedStays`).
* **PlaintextCommands** (any settings within `SettingsAssumption`, any signals, any server within the contract): its
  six invariants and `FinishedFilesAreKept`. The invariant says what the request on the wire means for the command
  (`Wire`), what is on disk at each step (`Files`, `Place`), and which results the command can have
  (`ResultJustified`) and Run can turn into an exit status (`ExitJustified`).
* **HandoffCommands**: its three properties, in the same way; what was handed over is always a beginning of the
  whole result (`HandedPrefix`).
* **PhraseMachine** (any finite word list that is longer than a phrase, any gate and limit; `ListAssumption` - the
  code has 1,296 words and takes at most 64): `PhraseAlwaysValid`, `CandCountIsExact`, `ImplementsEntry` and
  `KeysKeepCandidates`. Committed words are distinct list words (`Valid`), therefore the committed words with a prefix
  are as many as the list entries that are no longer candidates, and the subtraction is exact. Because the list is
  longer than a phrase, the empty prefix always has a candidate, and every key but a paste leaves the prefix one
  (`Completable`, `Kept`): a letter is taken only if a candidate goes on with it, a commit and a removal empty the
  prefix, and Tab goes to the longest common prefix of the candidates, which changes none of them.
* **TerminalSession** (any scenarios within `ScenariosAssumption`, any frame labels within `LabelsAssumption`):
  `FewKeysAfterCancel`, because a key is taken after a cancellation only by a select that was entered before it
  (`QueueNext`, `FewInv`); `ImplementsEntry`; `ScrollbackIsAnnounced` (`Announced`); `LinesAsTyped` and
  `PagesAreRead`. For the lines, `CurrentInv` says of the events taken since the last answer (`Current`) that none of
  them ends a line, and that the editor holds what they mean, or the rejected line if one of their beginnings was too
  long; one more event is one more step of `meaning` (`MeaningAppend`, `ExceedsAppend`). What is typed ahead comes
  behind all answers and changes none of their segments (`AnswersStay`, `SubSeqAppend`). For the pages, the walk that
  finds the end of a page falls in rank at every step, even where a token only moves to the next row, so that it ends
  (`WalksExist`) and behind the token it started at (`PageEnds`). A page fits into the body of the frame because the
  walk and the layout of what it has passed are always at the same cell (`Reached`, `PageFits`). The pages known are
  chained, each starting where the one before it ends (`Chained`), a resize goes no further than the text that was at
  the top (`StartsAt`), and `ViewInv` says that all text before the page on the screen has been in view.
* **KeyDecoder** (any keys that are keys by `KeysAssumption`, any pasted texts without the end marker in them, any
  limits of at least one control sequence, any number of gestures): `DecodedAsMeant`. The invariant says at every byte
  of a gesture what the decoder has made of its beginning (`OnTheWay`) and which events it still owes, for a key, a
  newline of one or two bytes, and a paste in its marker, its text and its end. The end marker is matched without going
  back, which is right because its first byte does not occur in it again (`Matching`).
* **CommandLine** (any number of options, arguments and values, among them values that look like commands or options,
  within `MeaningsAssumption`): `UnderstoodAsMeant` and `CompletionAgrees`. The invariant is short (`LineInv`: what
  was decided is `dispatch` of the words that were meant); the work is in the functions. Where an item stands among
  the words, the parser takes exactly this item and goes on at the next (`InPlace`, `ItemParsed`); so it sets the
  options and collects the arguments that the items mean, or refuses where one of them does not convert or is not the
  command's (`Parses`, `ParseResult`), and a word is counted twice exactly if an option is given twice
  (`DuplicatesFound`). `splitCommand` knows few options, but the leading ones with a value are exactly those
  (`LeadingKinds`), so that it passes over them with their values and takes out the command alone (`LeadingPassed`,
  `CommandFound`). A name has the same kind of value wherever it is registered (`SameKind`), which is why options in
  front of the command may be read by the command's own schema. For the completions, the roles of the words obey a
  grammar (`Grammar`, `GrammarOfLine`): the word behind an option that takes a value, and no other, is a value, by the
  leading schema up to the command and by the command's own everywhere. The loop of zsh, the loop of fish
  and the two passes of PowerShell each find these roles (`ZshKnows`, `FishKnows`, `PowershellKnows`). Bash reads the
  pieces of an assigned value in one turn of the loop over words: `=` is the value its option waits for, and what comes
  behind it is neither an option nor, unless it is a command's name, anything to the loop (`ReadsPieces`, `BashKnows`).
* **InputSources** (any command lines): `EverySourceCounts` and `MixedSourcesStayUnread`. `SourceOf` says from the
  command line alone which source serves an input; step by step a command has used exactly those of the steps behind
  it (`OnCourse`), and where it ends well every source that was named is one of them (`EverythingSupplied`).
* **Addresses** (any servers whose texts are put together from a scheme, a host in one of three spellings and a path,
  `ServersAssumption`; identifiers of any length over the alphabet, `IdsAssumption`; any number of edits): `LeadsBack`
  and `NeverRedirectedSilently`. `parseBaseURL` keeps scheme and host only (`Canonical`, `Origin`), the loop of
  `Normalize` is followed symbol by symbol (`Rounds`), and a link keeps the server and the identifier it was made with
  until it is edited (`Addressed`).

Recursive functions are followed without an induction theorem: a least number of every set of numbers (`LeastNumber`)
gives an induction over a set (`SetInduction`), which shows that a table of the function's values exists up to any
length (`LinesAfterExist`, `RoundsExist`, `LayoutsExist`, `StartsExist`, and `WalksExist` for a walk over cells, by
its rank). For the command line this is one lemma: a recursion whose values depend only on those of a lower, bounded
rank has a solution (`Recursion`), and what holds where it holds at all lower ranks holds everywhere
(`RankInduction`). The parsers count their ranks from the end of the words. Folds and RECURSIVE operators stay out of
reach, so that `Size` of a line, `split` and `SelectSeq` are never opened by a proof. Two properties of tlapm shape
the modules: it takes a local function for recursive only by the first arm of a CASE, which is why `splitCommand`
begins with the options it passes over (the arms exclude each other), and it does not know a literal to be in STRING,
which is why the proofs have their own set of texts (`Texts`).

Only model-checked: all liveness (`AlwaysReturns`, `SignalEndsInvocation`, `EndsWhenCanceled`,
`CancellationEndsRead`, `ReturnedOrWiped`), because fairness and ENABLED are out of the prover's reach. Every
invariant and every action property of a passing run is proved. The lemmas of one proof module
cannot be used through INSTANCE in another, so the invariants of the composed commands restate those of request and
run.

## Assumptions and what is not modelled

* The server keeps its documented contract: a documented refusal had no effect, and a well-formed success was
  performed. Anything else may come from a gateway and proves nothing.
* net/http: a context that is cancelled before `Do` fails before a dial; headers are reported before the flush
  that makes the request complete; a connection that was given up carries nothing more. Retries inside the
  transport are not modelled. net/url decodes escaped hosts when it parses and escapes letters beyond ASCII when it
  writes.
* A terminal sends the bytes of one key, and of the marker that starts a paste, without a pause of 50 ms, and a
  bare Escape is followed by one.
* Files: nobody else creates, renames or removes the reserved paths while the command runs.
* The event channel's capacity only delays the pump. The raw phrase prompt and the retry after a wrong phrase are
  not composed with the channel: they take from it as the other prompts do.
* Not modelled: values of `--ttl` and `--timeout`, environment variables that only change the presentation, status
  texts and rendering, help and utilities, the encoding of JSON, cryptography, the word list itself, wiping and
  locking of memory, credential-file permissions, Windows and Darwin consoles (also the polled resize on Windows),
  the installer: pure conversions, text, or system calls without state of the program's own. See the components in
  `PROJECT.json`.

## Plan

Done, in this order: SingleAttempt, MutationRequest; RunLifecycle; PlaintextCommands; ReadBounded; TTYModes;
PhraseEntry with PhraseMachine and PlainPhrase; HandoffCommands; KeyDecoder; EventQueue, LineEditor, ViewerPages and
TerminalSession; CommandLine; Addresses; InputSources; proofs of the first eight components, of TerminalSession,
KeyDecoder, InputSources, Addresses and CommandLine.

Next:

1. The raw phrase prompt and the retry prompt as consumers of EventQueue, in TerminalSession.
2. Addresses and CommandLine tied together: the `--server` that was understood is the one that is selected.
3. The conversion of `--ttl`, with its integer widths, against a reference definition.
