----------------------------- MODULE KeyDecoder -----------------------------
(***************************************************************************)
(* internal/term/keys.go and the pump of phrase.go: bytes from the         *)
(* terminal become key events. The decoder is a pure function of its state *)
(* and a byte; the pump adds the inter-byte timeout. The terminal sends    *)
(* gestures: keys, and bracketed pastes of arbitrary content. What a       *)
(* gesture means is known where it is made and compared with what comes    *)
(* out of the decoder.                                                     *)
(*                                                                         *)
(* Bytes are named: "ESC", "CR", "LF", "[", "O", "~", "1", "2"; "x" is any *)
(* other printable byte, "^W" a control key, "C0" an unused control byte,  *)
(* "L2" and "L3" start runes of two and three bytes, "C" continues one and *)
(* "S" continues one that is not valid UTF-8. The parameters 200 and 201   *)
(* of a paste's markers are one byte each.                                 *)
(*                                                                         *)
(* The terminal sends a key's bytes, and the marker that starts a paste,   *)
(* without a pause of the timeout's length; the rest of a paste may stop   *)
(* and go. Nobody types the next key that soon after a bare Escape.        *)
(***************************************************************************)
EXTENDS Naturals, SequencesExt

CONSTANTS
  Keys,         \* keys: the bytes a terminal sends and the events they mean
  Newlines,     \* the ways a terminal may send Enter
  Contents,     \* contents of pastes, without the end marker
  MaxSeqLen,    \* the longest escape sequence (16 in the code)
  MaxPaste,     \* the most bytes of a paste (4096 in the code)
  MaxGestures   \* bound on the gestures of one behaviour

\* Bytes as the decoder tells them apart.
Bytes ==
  {"ESC", "CR", "LF", "[", "O", "~", "1", "2", "x", "^W", "C0", "L2", "L3", "C", "S"}

Leads == {"L2", "L3"}

Continuations == {"C", "S"}

FinalBytes == {"[", "O", "~", "x"}

VARIABLES
  newline,   \* how this terminal sends Enter
  wire,      \* bytes of the current gesture that have not been read
  firm,      \* how many of them follow without a pause
  gestures,  \* how many gestures were made
  meant,     \* the events the gestures mean
  d,         \* the decoder, see DecoderType
  got,       \* the events decoded
  ended      \* has the input ended?

vars == <<newline, wire, firm, gestures, meant, d, got, ended>>

pasteStart == <<"ESC", "[", "2", "~">>

pasteEnd == <<"ESC", "[", "1", "~">>

Ev(kind) == <<kind, <<>>>>

Ignored == Ev("ignored")

\* The bytes of one key other than Enter: a byte of its own, Escape alone or
\* before one byte, a function key, a control sequence, a rune or a part of it.
\* A paste is none.
IsControlSequence(bytes) ==
  /\ Len(bytes) \in 3..MaxSeqLen /\ bytes[2] = "[" /\ bytes # pasteStart
  /\ \A i \in 3..Len(bytes) : bytes[i] \in FinalBytes <=> i = Len(bytes)

RuneLength(lead) == IF lead = "L2" THEN 2 ELSE 3

IsKey(bytes) ==
  /\ bytes \in Seq(Bytes) /\ bytes # <<>>
  /\ CASE bytes[1] = "ESC" ->
            \/ Len(bytes) = 1
            \/ Len(bytes) = 2 /\ bytes[2] \notin {"[", "O"}
            \/ Len(bytes) = 3 /\ bytes[2] = "O"
            \/ IsControlSequence(bytes)
       [] bytes[1] \in Leads ->
            /\ Len(bytes) <= RuneLength(bytes[1])
            /\ \A i \in 2..Len(bytes) : bytes[i] \in Continuations
       [] OTHER -> Len(bytes) = 1 /\ bytes[1] \notin {"CR", "LF"} \union Continuations

\* What is meant by such a key: a character, a control key the prompts know, or
\* nothing they could use.
KeyMeaning(bytes) ==
  CASE bytes = <<"^W">> -> <<Ev("ctrlW")>>
    [] bytes[1] \in {"ESC", "C0"} -> <<Ignored>>
    [] bytes[1] \in Leads /\ (Len(bytes) < RuneLength(bytes[1]) \/ "S" \in ToSet(bytes)) -> <<Ignored>>
    [] OTHER -> << <<"rune", bytes>> >>

ASSUME KeysAssumption == \A key \in Keys : IsKey(key.bytes) /\ key.means = KeyMeaning(key.bytes)

ASSUME NewlinesAssumption == Newlines \subseteq {<<"CR">>, <<"LF">>, <<"CR", "LF">>}

ASSUME ContentsAssumption ==
  \A c \in Contents :
    /\ c \in Seq(Bytes)
    /\ \A n \in 0..Len(c) :
         n + Len(pasteEnd) <= Len(c) => \E i \in DOMAIN pasteEnd : c[n + i] # pasteEnd[i]

ASSUME LimitsAssumption == MaxSeqLen \in Nat /\ MaxSeqLen >= 4 /\ MaxPaste \in Nat

\* keyDecoder's fields, and the bounds the code relies on.
DecoderType ==
  [st : {"ground", "esc", "csi", "ss3", "utf8", "paste"}, seqLen : Nat, csi : Seq(Bytes),
   u8 : Seq(Bytes), need : Nat, paste : Seq(Bytes), pmatch : 0..(Len(pasteEnd) - 1),
   pover : BOOLEAN, cr : BOOLEAN]

TypeOK ==
  /\ d \in DecoderType
  /\ d.seqLen <= MaxSeqLen /\ Len(d.csi) <= MaxSeqLen - 2
  /\ Len(d.u8) <= 3 /\ d.need <= 2 /\ Len(d.paste) <= MaxPaste
  /\ d.pover => d.paste = <<>>
  /\ d.st # "paste" => d.paste = <<>> /\ d.pmatch = 0 /\ ~d.pover

newKeyDecoder ==
  [st |-> "ground", seqLen |-> 0, csi |-> <<>>, u8 |-> <<>>, need |-> 0,
   paste |-> <<>>, pmatch |-> 0, pover |-> FALSE, cr |-> FALSE]
-----------------------------------------------------------------------------
(* The decoder: from its state k and a byte to [k, evs]. *)

Out(k, evs) == [k |-> k, evs |-> evs]

reset(k) == [newKeyDecoder EXCEPT !.cr = k.cr]

startRune(k, b) ==
  [k EXCEPT !.st = "utf8", !.u8 = <<b>>, !.need = IF b = "L2" THEN 1 ELSE 2]

\* In no sequence. An LF directly after a CR belongs to it.
ground(k0, b) ==
  LET k == [k0 EXCEPT !.cr = FALSE] IN
  CASE b = "LF" /\ k0.cr -> Out(k, <<>>)
    [] b = "LF" /\ ~k0.cr -> Out(k, <<Ev("enter")>>)
    [] b = "CR" -> Out([k EXCEPT !.cr = TRUE], <<Ev("enter")>>)
    [] b = "ESC" -> Out([k EXCEPT !.st = "esc", !.seqLen = 1], <<>>)
    [] b = "^W" -> Out(k, <<Ev("ctrlW")>>)
    [] b \in Leads -> Out(startRune(k, b), <<>>)
    [] b \in {"C0", "C", "S"} -> Out(k, <<Ignored>>)
    [] OTHER -> Out(k, << <<"rune", <<b>>>> >>)

afterEsc(k, b) ==
  CASE b = "[" -> Out([k EXCEPT !.st = "csi", !.csi = <<>>, !.seqLen = @ + 1], <<>>)
    [] b = "O" -> Out([k EXCEPT !.st = "ss3", !.seqLen = @ + 1], <<>>)
    [] OTHER -> Out([k EXCEPT !.st = "ground", !.seqLen = @ + 1], <<Ignored>>)

\* A control sequence ends with its final byte, or by being too long.
inCSI(k, b) ==
  IF k.seqLen + 1 > MaxSeqLen THEN Out(reset(k), <<Ignored>>)
  ELSE IF b \notin FinalBytes
    THEN Out([k EXCEPT !.seqLen = @ + 1, !.csi = Append(@, b)], <<>>)
  ELSE IF b = "~" /\ k.csi = <<"2">>
    THEN Out([reset(k) EXCEPT !.st = "paste"], <<>>)
  ELSE Out(reset(k), <<Ignored>>)

\* The whole of a paste that is too long is dropped.
appendPaste(k, p) ==
  IF k.pover THEN k
  ELSE IF Len(p) > MaxPaste - Len(k.paste) THEN [k EXCEPT !.paste = <<>>, !.pover = TRUE]
  ELSE [k EXCEPT !.paste = @ \o p]

\* The end marker is matched byte by byte. A partial match that fails was
\* content; the byte that made it fail may start the marker itself.
inPaste(k, b) ==
  IF b = pasteEnd[k.pmatch + 1]
    THEN IF k.pmatch + 1 = Len(pasteEnd)
           THEN Out(reset(k), IF k.pover THEN <<Ev("tooLong")>> ELSE << <<"paste", k.paste>> >>)
           ELSE Out([k EXCEPT !.pmatch = @ + 1], <<>>)
    ELSE LET replayed == appendPaste(k, SubSeq(pasteEnd, 1, k.pmatch)) IN
         IF b = pasteEnd[1]
           THEN Out([replayed EXCEPT !.pmatch = 1], <<>>)
           ELSE Out([appendPaste(replayed, <<b>>) EXCEPT !.pmatch = 0], <<>>)

\* A torn rune is ignored and the byte that tore it decoded afresh.
inRune(k, b) ==
  LET seq == Append(k.u8, b)
      clean == [k EXCEPT !.st = "ground", !.u8 = <<>>, !.need = 0] IN
  IF b \notin {"C", "S"}
    THEN LET rest == ground(clean, b) IN Out(rest.k, <<Ignored>> \o rest.evs)
  ELSE IF k.need > 1 THEN Out([k EXCEPT !.u8 = seq, !.need = @ - 1], <<>>)
  ELSE Out(clean, IF "S" \in ToSet(seq) THEN <<Ignored>> ELSE << <<"rune", seq>> >>)

feed(k, b) ==
  CASE k.st = "ground" -> ground(k, b)
    [] k.st = "esc" -> afterEsc(k, b)
    [] k.st = "ss3" -> Out([k EXCEPT !.st = "ground", !.seqLen = 0], <<Ignored>>)
    [] k.st = "csi" -> inCSI(k, b)
    [] k.st = "paste" -> inPaste(k, b)
    [] k.st = "utf8" -> inRune(k, b)

\* As pending, but a paste is pending as any other sequence.
pendingAnywhere(k) == k.st # "ground"

\* Does the timeout apply? Not inside a paste.
pending(k) == k.st \in {"esc", "csi", "ss3", "utf8"}

flush(k) == IF k.st = "ground" THEN Out(k, <<>>) ELSE Out(reset(k), <<Ignored>>)
-----------------------------------------------------------------------------
Init ==
  /\ newline \in Newlines
  /\ wire = <<>> /\ firm = 0 /\ gestures = 0 /\ meant = <<>>
  /\ d = newKeyDecoder /\ got = <<>> /\ ended = FALSE

\* The terminal sends the bytes of a gesture; the first f of them are firm.
Gesture(bytes, f, events) ==
  /\ wire = <<>> /\ d.st \notin {"esc", "csi", "ss3"} /\ ~ended
  /\ gestures < MaxGestures /\ gestures' = gestures + 1
  /\ wire' = bytes /\ firm' = f
  /\ meant' = meant \o events
  /\ UNCHANGED <<newline, d, got, ended>>

PressKey == \E key \in Keys : Gesture(key.bytes, Len(key.bytes), key.means)

PressEnter == Gesture(newline, Len(newline), <<Ev("enter")>>)

PasteText ==
  \E c \in Contents :
    Gesture(pasteStart \o c \o pasteEnd, Len(pasteStart),
            IF Len(c) > MaxPaste THEN <<Ev("tooLong")>> ELSE << <<"paste", c>> >>)

Decoded(out) == d' = out.k /\ got' = got \o out.evs

\* The pump feeds the next byte, however the reads were cut into chunks.
Feed ==
  /\ wire # <<>>
  /\ Decoded(feed(d, Head(wire)))
  /\ wire' = Tail(wire) /\ firm' = IF firm > 0 THEN firm - 1 ELSE 0
  /\ UNCHANGED <<newline, gestures, meant, ended>>

\* No byte for escTimeout.
Timeout ==
  /\ pending(d) /\ firm = 0
  /\ Decoded(flush(d))
  /\ UNCHANGED <<newline, wire, firm, gestures, meant, ended>>

\* End of input or an error of the read, at any point of a gesture.
InputEnds ==
  /\ ~ended /\ ended' = TRUE
  /\ Decoded(flush(d))
  /\ wire' = <<>> /\ firm' = 0
  /\ UNCHANGED <<newline, gestures, meant>>

Next == PressKey \/ PressEnter \/ PasteText \/ Feed \/ Timeout \/ InputEnds

Spec == Init /\ [][Next]_vars
-----------------------------------------------------------------------------
(* Property *)

\* keyDecoder and its pump: what comes out is what was meant, in order and
\* complete. A paste, whatever bytes it holds and however it pauses, is one event
\* with exactly its content, or one rejection; no byte of a paste or of an escape
\* sequence is ever a key; Enter is one event. Input cut off by its end turns into
\* one ignored event, never into a part of a paste.
DecodedAsMeant ==
  /\ \/ IsPrefix(got, meant)
     \/ ended /\ got # <<>> /\ Last(got) = Ignored /\ IsPrefix(Front(got), meant)
  /\ wire = <<>> /\ ~pending(d) /\ ~ended => got = meant
=============================================================================
