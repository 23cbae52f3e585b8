------------------------ MODULE MCPlaintextCommands ------------------------
(* Model values for PlaintextCommands: reveal with every destination, with   *)
(* and without a recovery file, the recovery file at the plaintext file's    *)
(* own path, no terminal, and a standard error that cannot be written;       *)
(* decrypt into a file and into the viewer; both with an input whose read no *)
(* cancellation ends, and reveal with streams that nobody reads.             *)
EXTENDS PlaintextCommands

MCStatuses == {200, 404, 503, 500}

\* The documented refusals, of the operations that are not requested here too.
MCNoEffect == ({"create"} \X {503}) \union ({"claim", "revoke"} \X {404, 503})

Reveal(dest, out, keep, terminal, stderr) ==
  [offline |-> FALSE, dest |-> dest, out |-> out, keep |-> keep,
   terminal |-> terminal, stderr |-> stderr, unending |-> {}, drained |-> TRUE]

Offline(dest, out) ==
  [offline |-> TRUE, dest |-> dest, out |-> out, keep |-> "none",
   terminal |-> TRUE, stderr |-> TRUE, unending |-> {}, drained |-> TRUE]

\* The same invocation in a worse place: the URL, or the ciphertext, comes through
\* a blocking standard input; nobody reads what the command writes.
Blocking(s) == [s EXCEPT !.unending = IF s.offline THEN {"blob"} ELSE {"url"}]
Undrained(s) == [s EXCEPT !.drained = FALSE]

MCSettings ==
  { Reveal("terminal", "none", "none", TRUE, TRUE),
    Reveal("terminal", "none", "q", TRUE, TRUE),
    Reveal("terminal", "none", "q", FALSE, TRUE),
    Reveal("file", "p", "q", TRUE, TRUE),
    Reveal("file", "p", "p", FALSE, TRUE),
    Reveal("json", "none", "none", FALSE, TRUE),
    Reveal("stdout", "none", "none", TRUE, FALSE),
    Offline("file", "p"),
    Offline("terminal", "none"),
    Blocking(Reveal("terminal", "none", "none", TRUE, TRUE)),
    Blocking(Offline("file", "p")),
    Undrained(Reveal("file", "p", "none", TRUE, TRUE)) }
=============================================================================
