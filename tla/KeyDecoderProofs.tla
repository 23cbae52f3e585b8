-------------------------- MODULE KeyDecoderProofs --------------------------
(***************************************************************************)
(* Proof about KeyDecoder: whatever keys a terminal has, whatever texts    *)
(* are pasted, and wherever the reads are cut, what is decoded is what was *)
(* meant.                                                                  *)
(*                                                                         *)
(* The invariant says at every byte of a gesture what the decoder has made *)
(* of its beginning (OnTheWay) and which events are still owed. Inside a   *)
(* paste the end marker is matched without going back: its first byte does *)
(* not occur in it again, so that the bytes that match are those since the *)
(* last ESC (Matching).                                                    *)
(***************************************************************************)
EXTENDS KeyDecoder, SequenceTheorems, TLAPS

Events == {"enter", "ctrlW", "ignored", "tooLong", "rune", "paste"} \X Seq(Bytes)

\* A sequence that was left unfinished becomes one event more.
Unfinished == IF d.st = "ground" THEN <<>> ELSE <<Ignored>>

Unread(bytes, k) == wire = SubSeq(bytes, k + 1, Len(bytes))

PasteBytes(c) == pasteStart \o (c \o pasteEnd)

PasteMeaning(c) == IF Len(c) > MaxPaste THEN <<Ev("tooLong")>> ELSE << <<"paste", c>> >>

\* Between two gestures.
AtRest ==
  /\ wire = <<>> /\ firm = 0 /\ d.st \in {"ground", "esc", "utf8"}
  /\ meant = got \o Unfinished

\* Before the first byte of a gesture; a torn rune may still be unfinished.
Ahead(bytes, f, events) ==
  /\ wire = bytes /\ firm = f /\ d.st \in {"ground", "utf8"}
  /\ meant = got \o (Unfinished \o events)

\* Behind k bytes of an escape sequence.
InEscape(bytes, k) ==
  /\ d.seqLen = k
  /\ \/ k = 1 /\ d.st = "esc"
     \/ k = 2 /\ d.st = "ss3" /\ bytes[2] = "O"
     \/ k >= 2 /\ d.st = "csi" /\ bytes[2] = "[" /\ d.csi = SubSeq(bytes, 3, k)

InRune(bytes, k) ==
  d.st = "utf8" /\ d.u8 = SubSeq(bytes, 1, k) /\ d.need = RuneLength(bytes[1]) - k

KeyOnTheWay(bytes, k) ==
  /\ Unread(bytes, k) /\ firm = Len(bytes) - k /\ meant = got \o KeyMeaning(bytes)
  /\ IF bytes[1] = "ESC" THEN InEscape(bytes, k) ELSE InRune(bytes, k)

NewlineOnTheWay ==
  /\ newline = <<"CR", "LF">> /\ wire = <<"LF">> /\ firm = 1
  /\ d.st = "ground" /\ d.cr /\ meant = got

PasteStarts(c, k) ==
  /\ Unread(PasteBytes(c), k) /\ firm = 4 - k /\ meant = got \o PasteMeaning(c)
  /\ InEscape(pasteStart, k)

\* What k has kept of the first m bytes of text.
Keeping(k, text, m) ==
  IF k.pover THEN m > MaxPaste /\ k.paste = <<>>
  ELSE m <= MaxPaste /\ k.paste = SubSeq(text, 1, m)

\* Behind i bytes of the text and the marker: the bytes before the partial match
\* were kept, or they were too many.
Matching(k, c, i) ==
  /\ i - k.pmatch \in Nat
  /\ \A j \in 1..k.pmatch : (c \o pasteEnd)[i - k.pmatch + j] = pasteEnd[j]
  /\ i > Len(c) => k.pmatch = i - Len(c)
  /\ Keeping(k, c \o pasteEnd, i - k.pmatch)

PasteOnTheWay(c, i) ==
  /\ Unread(c \o pasteEnd, i) /\ firm = 0 /\ meant = got \o PasteMeaning(c)
  /\ d.st = "paste" /\ Matching(d, c, i)

OnTheWay ==
  \/ AtRest
  \/ \E key \in Keys : Ahead(key.bytes, Len(key.bytes), key.means)
  \/ Ahead(newline, Len(newline), <<Ev("enter")>>)
  \/ \E c \in Contents : Ahead(PasteBytes(c), 4, PasteMeaning(c))
  \/ \E key \in Keys : \E k \in 1..(Len(key.bytes) - 1) : KeyOnTheWay(key.bytes, k)
  \/ NewlineOnTheWay
  \/ \E c \in Contents : \E k \in 1..3 : PasteStarts(c, k)
  \/ \E c \in Contents : \E i \in 0..(Len(c) + 3) : PasteOnTheWay(c, i)

Closed ==
  /\ wire = <<>> /\ firm = 0 /\ d.st = "ground"
  /\ \/ IsPrefix(got, meant)
     \/ got # <<>> /\ Last(got) = Ignored /\ IsPrefix(Front(got), meant)

\* An LF is swallowed only behind a CR of the same Enter.
AfterCR == d.cr => d.st = "ground" /\ newline # <<"LF">>

IInv ==
  /\ d \in DecoderType /\ got \in Seq(Events) /\ meant \in Seq(Events)
  /\ newline \in Newlines /\ firm \in Nat /\ ended \in BOOLEAN
  /\ AfterCR
  /\ IF ended THEN Closed ELSE OnTheWay
-----------------------------------------------------------------------------
(* Sequences. *)

LEMMA EventTypes ==
  /\ Ignored \in Events
  /\ \A kind \in {"enter", "ctrlW", "ignored", "tooLong"} : Ev(kind) \in Events
  /\ \A bytes \in Seq(Bytes) : <<"rune", bytes>> \in Events /\ <<"paste", bytes>> \in Events
BY EmptySeq DEF Ignored, Ev, Events

LEMMA EventsAssociate ==
  ASSUME NEW s \in Seq(Events), NEW t \in Seq(Events), NEW u \in Seq(Events)
  PROVE  s \o (t \o u) = (s \o t) \o u
BY ConcatAssociative

LEMMA Singleton ==
  ASSUME NEW S, NEW e \in S
  PROVE  <<e>> \in Seq(S)
OBVIOUS

\* Reading byte k + 1 of what is on the wire.
LEMMA ReadOne ==
  ASSUME NEW S, NEW g \in Seq(S), NEW k \in 0..(Len(g) - 1)
  PROVE  LET w == SubSeq(g, k + 1, Len(g))
         IN  /\ w # <<>> /\ Head(w) = g[k + 1] /\ g[k + 1] \in S
             /\ Tail(w) = SubSeq(g, k + 2, Len(g))
             /\ k + 1 = Len(g) => Tail(w) = <<>>
<1>1. Len(g) \in Nat /\ k + 1 \in 1..Len(g) /\ Len(g) \in (k + 1)..Len(g)
  BY LenProperties
<1>2. /\ Head(SubSeq(g, k + 1, Len(g))) = g[k + 1]
      /\ Tail(SubSeq(g, k + 1, Len(g))) = SubSeq(g, (k + 1) + 1, Len(g))
  BY <1>1, HeadTailOfSubSeq
<1>3. (k + 1) + 1 = k + 2 /\ k + 1 <= Len(g)
  BY <1>1
<1>4. g[k + 1] \in S
  BY <1>1, ElementOfSeq
<1>5. SubSeq(g, k + 1, Len(g)) # <<>>
  <2>1. \A i \in (k + 1)..Len(g) : g[i] \in S
    BY <1>1, ElementOfSeq
  <2>2. Len(SubSeq(g, k + 1, Len(g))) = Len(g) - (k + 1) + 1
    BY <1>1, <2>1, SubSeqProperties
  <2>3. Len(g) - (k + 1) + 1 # 0
    BY <1>1
  <2>4. Len(<<>>) = 0
    OBVIOUS
  <2> QED
    BY <2>2, <2>3, <2>4, Zenon
<1>6. k + 1 = Len(g) => SubSeq(g, k + 2, Len(g)) = <<>>
  BY <1>1, SubSeqEmpty
<1> QED
  BY <1>2, <1>3, <1>4, <1>5, <1>6

LEMMA SubSeqBytes ==
  ASSUME NEW S, NEW g \in Seq(S), NEW m \in Nat \ {0}, NEW n \in 0..Len(g)
  PROVE  /\ SubSeq(g, m, n) \in Seq(S)
         /\ Len(SubSeq(g, m, n)) = IF m <= n THEN n - m + 1 ELSE 0
         /\ \A i \in 1..(n - m + 1) : SubSeq(g, m, n)[i] = g[m + i - 1]
<1>1. \A i \in m..n : g[i] \in S
  BY ElementOfSeq, LenProperties
<1> QED
  BY <1>1, SubSeqProperties, LenProperties

\* One byte more is kept.
LEMMA KeepOne ==
  ASSUME NEW S, NEW g \in Seq(S), NEW m \in 1..Len(g), NEW n \in (m - 1)..(Len(g) - 1)
  PROVE  Append(SubSeq(g, m, n), g[n + 1]) = SubSeq(g, m, n + 1)
<1>1. Len(g) \in Nat /\ n + 1 \in m..Len(g) /\ n + 1 - 1 = n
  BY LenProperties
<1>2. SubSeq(g, m, n + 1) = SubSeq(g, m, n) \o <<g[n + 1]>>
  BY <1>1, SubSeqRecursiveSecond
<1>3. SubSeq(g, m, n) \in Seq(S) /\ g[n + 1] \in S
  BY <1>1, SubSeqBytes, ElementOfSeq
<1> QED
  BY <1>2, <1>3, AppendIsConcat

LEMMA FirstOnly ==
  ASSUME NEW S, NEW g \in Seq(S), Len(g) \in Nat \ {0}
  PROVE  SubSeq(g, 1, 1) = <<g[1]>>
<1>1. g[1] \in S
  BY ElementOfSeq
<1>2. SubSeq(g, 1, 1) = SubSeq(g, 1, 1 - 1) \o <<g[1]>>
  BY SubSeqRecursiveSecond
<1>3. SubSeq(g, 1, 0) = <<>> /\ 1 - 1 = 0
  BY SubSeqEmpty
<1>4. <<>> \o <<g[1]>> = <<g[1]>>
  BY <1>1, Singleton, ConcatEmptySeq
<1> QED
  BY <1>2, <1>3, <1>4

LEMMA PrefixOfConcat ==
  ASSUME NEW S, NEW s \in Seq(S), NEW t \in Seq(S)
  PROVE  IsPrefix(s, s \o t)
<1>1. s \o t \in Seq(S) /\ Len(s) \in Nat /\ Len(t) \in Nat /\ Len(s \o t) = Len(s) + Len(t)
  BY ConcatProperties, LenProperties
<1>2. SubSeq(s, 1, Len(s)) = SubSeq(s \o t, 1, Len(s))
  <2>1. CASE Len(s) = 0
    BY <2>1, SubSeqEmpty
  <2>2. CASE Len(s) # 0
    BY <1>1, <2>2, SubSeqOfConcat1
  <2> QED
    BY <2>1, <2>2
<1> QED
  BY <1>1, <1>2 DEF IsPrefix

LEMMA LastAndFront ==
  ASSUME NEW S, NEW s \in Seq(S), NEW e \in S
  PROVE  s \o <<e>> # <<>> /\ Last(s \o <<e>>) = e /\ Front(s \o <<e>>) = s
<1>1. s \o <<e>> = Append(s, e)
  BY AppendIsConcat
<1>2. Append(s, e) # <<>> /\ Len(Append(s, e)) = Len(s) + 1 /\ Append(s, e)[Len(s) + 1] = e
  BY AppendProperties
<1>3. Len(s) \in Nat /\ Len(s) + 1 - 1 = Len(s)
  BY LenProperties
<1>4. SubSeq(Append(s, e), 1, Len(s)) = s
  <2>1. CASE Len(s) = 0
    BY <2>1, SubSeqEmpty, EmptySeq
  <2>2. CASE Len(s) # 0
    BY <1>1, <1>3, <2>2, SubSeqOfConcat1, SubSeqFull, Singleton
  <2> QED
    BY <2>1, <2>2
<1> QED
  BY <1>1, <1>2, <1>3, <1>4 DEF Last, Front

LEMMA BehindConcat ==
  ASSUME NEW S, NEW s \in Seq(S), NEW t \in Seq(S)
  PROVE  SubSeq(s \o t, Len(s) + 1, Len(s) + Len(t)) = t
<1>1. s \o t \in Seq(S) /\ Len(s) \in Nat /\ Len(t) \in Nat /\ Len(s \o t) = Len(s) + Len(t)
  BY ConcatProperties, LenProperties
<1>2. CASE Len(t) = 0
  <2>1. t = <<>>
    BY <1>2, EmptySeq
  <2>2. SubSeq(s \o t, Len(s) + 1, Len(s) + Len(t)) = <<>>
    BY <1>1, <1>2, SubSeqEmpty
  <2> QED
    BY <2>1, <2>2
<1>3. CASE Len(t) # 0
  <2>1. /\ Len(s) + 1 \in (Len(s) + 1)..(Len(s) + Len(t))
        /\ Len(s) + Len(t) \in (Len(s) + 1)..(Len(s) + Len(t))
    BY <1>1, <1>3
  <2>2. SubSeq(s \o t, Len(s) + 1, Len(s) + Len(t))
          = SubSeq(t, Len(s) + 1 - Len(s), Len(s) + Len(t) - Len(s))
    BY <2>1, SubSeqOfConcat2
  <2>3. Len(s) + 1 - Len(s) = 1 /\ Len(s) + Len(t) - Len(s) = Len(t)
    BY <1>1
  <2> QED
    BY <2>2, <2>3, SubSeqFull
<1> QED
  BY <1>2, <1>3

LEMMA Markers ==
  /\ pasteStart \in Seq(Bytes) /\ Len(pasteStart) = 4
  /\ pasteStart[1] = "ESC" /\ pasteStart[2] = "[" /\ pasteStart[3] = "2" /\ pasteStart[4] = "~"
  /\ pasteEnd \in Seq(Bytes) /\ Len(pasteEnd) = 4
  /\ pasteEnd[1] = "ESC" /\ pasteEnd[2] = "[" /\ pasteEnd[3] = "1" /\ pasteEnd[4] = "~"
BY DEF pasteStart, pasteEnd, Bytes
-----------------------------------------------------------------------------
(* The decoder. *)

LEMMA InitialDecoder ==
  /\ newKeyDecoder \in DecoderType
  /\ \A k \in DecoderType : reset(k) \in DecoderType /\ reset(k) = [newKeyDecoder EXCEPT !.cr = k.cr]
<1>1. 0 \in 0..(Len(pasteEnd) - 1) /\ <<>> \in Seq(Bytes)
  BY Markers, EmptySeq
<1>2. newKeyDecoder \in DecoderType
  BY <1>1 DEF newKeyDecoder, DecoderType
<1>3. \A k \in DecoderType : [newKeyDecoder EXCEPT !.cr = k.cr] \in DecoderType
  BY <1>1 DEF newKeyDecoder, DecoderType
<1> QED
  BY <1>2, <1>3 DEF reset

LEMMA GroundType ==
  ASSUME NEW k \in DecoderType, NEW b \in Bytes
  PROVE  ground(k, b).k \in DecoderType /\ ground(k, b).evs \in Seq(Events)
<1> DEFINE k1 == [k EXCEPT !.cr = FALSE]
<1>1. k1 \in DecoderType /\ <<b>> \in Seq(Bytes)
  BY Singleton DEF DecoderType
<1>2. /\ [k1 EXCEPT !.cr = TRUE] \in DecoderType
      /\ [k1 EXCEPT !.st = "esc", !.seqLen = 1] \in DecoderType
      /\ startRune(k1, b) \in DecoderType
  BY <1>1 DEF DecoderType, startRune
<1>3. /\ <<>> \in Seq(Events) /\ <<Ev("enter")>> \in Seq(Events) /\ <<Ev("ctrlW")>> \in Seq(Events)
      /\ <<Ignored>> \in Seq(Events) /\ << <<"rune", <<b>>>> >> \in Seq(Events)
  BY <1>1, EventTypes, Singleton, EmptySeq
<1> HIDE DEF k1
<1> QED
  BY <1>1, <1>2, <1>3 DEF ground, Out, k1

LEMMA RuneType ==
  ASSUME NEW k \in DecoderType, NEW b \in Bytes
  PROVE  inRune(k, b).k \in DecoderType /\ inRune(k, b).evs \in Seq(Events)
<1> DEFINE seq == Append(k.u8, b)
           clean == [k EXCEPT !.st = "ground", !.u8 = <<>>, !.need = 0]
<1>1. seq \in Seq(Bytes) /\ clean \in DecoderType
  BY AppendProperties, EmptySeq DEF DecoderType
<1>2. k.need > 1 => [k EXCEPT !.u8 = seq, !.need = @ - 1] \in DecoderType
  <2>1. k.need \in Nat /\ (k.need > 1 => k.need - 1 \in Nat)
    BY DEF DecoderType
  <2> HIDE DEF seq
  <2> QED
    BY <1>1, <2>1 DEF DecoderType
<1>3. /\ <<Ignored>> \in Seq(Events) /\ <<>> \in Seq(Events) /\ << <<"rune", seq>> >> \in Seq(Events)
  BY <1>1, EventTypes, Singleton, EmptySeq
<1>4. ground(clean, b).k \in DecoderType /\ <<Ignored>> \o ground(clean, b).evs \in Seq(Events)
  BY <1>1, <1>3, GroundType, ConcatProperties
<1> HIDE DEF seq, clean
<1> QED
  BY <1>1, <1>2, <1>3, <1>4 DEF inRune, Out, seq, clean

LEMMA PasteType ==
  ASSUME NEW k \in DecoderType, NEW p \in Seq(Bytes)
  PROVE  appendPaste(k, p) \in DecoderType
BY ConcatProperties, EmptySeq DEF appendPaste, DecoderType

LEMMA InPasteType ==
  ASSUME NEW k \in DecoderType, NEW b \in Bytes
  PROVE  inPaste(k, b).k \in DecoderType /\ inPaste(k, b).evs \in Seq(Events)
<1> DEFINE replayed == appendPaste(k, SubSeq(pasteEnd, 1, k.pmatch))
<1>1. k.pmatch \in 0..3 /\ k.paste \in Seq(Bytes) /\ <<b>> \in Seq(Bytes)
  BY Markers, Singleton DEF DecoderType
<1>2. replayed \in DecoderType /\ appendPaste(replayed, <<b>>) \in DecoderType
  <2>1. SubSeq(pasteEnd, 1, k.pmatch) \in Seq(Bytes)
    BY <1>1, Markers, SubSeqBytes
  <2>2. replayed \in DecoderType
    BY <2>1, PasteType
  <2> HIDE DEF replayed
  <2> QED
    BY <1>1, <2>2, PasteType
<1>3. k.pmatch + 1 # 4 => [k EXCEPT !.pmatch = @ + 1] \in DecoderType
  <2>1. k.pmatch + 1 # 4 => k.pmatch + 1 \in 0..(Len(pasteEnd) - 1)
    BY <1>1, Markers
  <2> QED
    BY <2>1 DEF DecoderType
<1>4. /\ [replayed EXCEPT !.pmatch = 1] \in DecoderType
      /\ [appendPaste(replayed, <<b>>) EXCEPT !.pmatch = 0] \in DecoderType
  <2>1. 1 \in 0..(Len(pasteEnd) - 1) /\ 0 \in 0..(Len(pasteEnd) - 1)
    BY Markers
  <2> HIDE DEF replayed
  <2> QED
    BY <1>2, <2>1 DEF DecoderType
<1>5. <<>> \in Seq(Events) /\ <<Ev("tooLong")>> \in Seq(Events) /\ << <<"paste", k.paste>> >> \in Seq(Events)
  BY <1>1, EventTypes, Singleton, EmptySeq
<1> HIDE DEF replayed
<1> QED
  BY <1>2, <1>3, <1>4, <1>5, Markers, InitialDecoder DEF inPaste, Out, replayed

LEMMA FeedType ==
  ASSUME NEW k \in DecoderType, NEW b \in Bytes
  PROVE  feed(k, b).k \in DecoderType /\ feed(k, b).evs \in Seq(Events)
<1>1. <<>> \in Seq(Events) /\ <<Ignored>> \in Seq(Events)
  BY EventTypes, Singleton, EmptySeq
<1>2. afterEsc(k, b).k \in DecoderType /\ afterEsc(k, b).evs \in Seq(Events)
  <2>1. k.seqLen + 1 \in Nat /\ <<>> \in Seq(Bytes)
    BY EmptySeq DEF DecoderType
  <2>2. /\ [k EXCEPT !.st = "csi", !.csi = <<>>, !.seqLen = @ + 1] \in DecoderType
        /\ [k EXCEPT !.st = "ss3", !.seqLen = @ + 1] \in DecoderType
        /\ [k EXCEPT !.st = "ground", !.seqLen = @ + 1] \in DecoderType
    BY <2>1 DEF DecoderType
  <2> QED
    BY <1>1, <2>2 DEF afterEsc, Out
<1>3. inCSI(k, b).k \in DecoderType /\ inCSI(k, b).evs \in Seq(Events)
  <2>1. [k EXCEPT !.seqLen = @ + 1, !.csi = Append(@, b)] \in DecoderType
    <3>1. k.seqLen + 1 \in Nat /\ Append(k.csi, b) \in Seq(Bytes)
      BY AppendProperties DEF DecoderType
    <3> QED
      BY <3>1 DEF DecoderType
  <2>2. reset(k) \in DecoderType /\ [reset(k) EXCEPT !.st = "paste"] \in DecoderType
    BY InitialDecoder DEF DecoderType
  <2> QED
    BY <1>1, <2>1, <2>2 DEF inCSI, Out
<1>4. [k EXCEPT !.st = "ground", !.seqLen = 0] \in DecoderType
  BY DEF DecoderType
<1>5. k.st \in {"ground", "esc", "csi", "ss3", "utf8", "paste"}
  BY DEF DecoderType
<1> QED
  BY <1>1, <1>2, <1>3, <1>4, <1>5, GroundType, RuneType, InPasteType DEF feed, Out

LEMMA FlushType ==
  ASSUME NEW k \in DecoderType
  PROVE  /\ flush(k).k \in DecoderType /\ flush(k).evs \in Seq(Events) /\ flush(k).k.st = "ground"
         /\ flush(k).k.cr = k.cr
         /\ flush(k).evs = IF k.st = "ground" THEN <<>> ELSE <<Ignored>>
<1>1. reset(k).st = "ground" /\ reset(k).cr = k.cr
  BY DEF reset, newKeyDecoder
<1>2. <<>> \in Seq(Events) /\ <<Ignored>> \in Seq(Events)
  BY EventTypes, Singleton, EmptySeq
<1> QED
  BY <1>1, <1>2, InitialDecoder DEF flush, Out

\* What a byte means that is in no sequence.
LEMMA GroundByte ==
  ASSUME NEW k \in DecoderType, NEW b \in Bytes, k.st = "ground"
  PROVE  LET out == ground(k, b)
         IN  /\ b = "ESC" => out.k.st = "esc" /\ out.k.seqLen = 1 /\ out.evs = <<>>
             /\ b \in Leads =>
                  /\ out.k.st = "utf8" /\ out.k.u8 = <<b>> /\ out.k.need = RuneLength(b) - 1
                  /\ out.evs = <<>>
             /\ b \notin Leads \union {"ESC"} => out.k.st = "ground"
             /\ out.k.cr = (b = "CR")
             /\ b = "CR" \/ (b = "LF" /\ ~k.cr) => out.evs = <<Ev("enter")>>
             /\ b = "LF" /\ k.cr => out.evs = <<>>
             /\ b = "^W" => out.evs = <<Ev("ctrlW")>>
             /\ b = "C0" => out.evs = <<Ignored>>
             /\ b \in {"[", "O", "~", "1", "2", "x"} => out.evs = << <<"rune", <<b>>>> >>
<1> DEFINE k1 == [k EXCEPT !.cr = FALSE]
<1>1. k1 \in DecoderType /\ k1.st = "ground" /\ k1.cr = FALSE
  BY DEF DecoderType
<1>2. /\ [k1 EXCEPT !.cr = TRUE].st = "ground" /\ [k1 EXCEPT !.cr = TRUE].cr = TRUE
      /\ [k1 EXCEPT !.st = "esc", !.seqLen = 1].st = "esc"
      /\ [k1 EXCEPT !.st = "esc", !.seqLen = 1].seqLen = 1
      /\ [k1 EXCEPT !.st = "esc", !.seqLen = 1].cr = FALSE
      /\ startRune(k1, b).st = "utf8" /\ startRune(k1, b).u8 = <<b>>
      /\ startRune(k1, b).need = (IF b = "L2" THEN 1 ELSE 2) /\ startRune(k1, b).cr = FALSE
  BY <1>1 DEF DecoderType, startRune
<1>3. (IF b = "L2" THEN 1 ELSE 2) = RuneLength(b) - 1
  BY DEF RuneLength
<1> HIDE DEF k1
<1> QED
  BY <1>1, <1>2, <1>3 DEF ground, Out, k1, Leads, Bytes
-----------------------------------------------------------------------------
(* Gestures. *)

Typed ==
  /\ d \in DecoderType /\ got \in Seq(Events) /\ meant \in Seq(Events)
  /\ newline \in Newlines /\ firm \in Nat /\ AfterCR

\* How a step of the pump leaves the invariant, but for the types.
Kept == Head(wire) \in Bytes /\ OnTheWay' /\ AfterCR'

LEMMA KeyFacts ==
  ASSUME NEW key \in Keys
  PROVE  /\ key.bytes \in Seq(Bytes) /\ key.bytes # <<>> /\ Len(key.bytes) \in Nat \ {0}
         /\ key.bytes[1] \in Bytes \ (Continuations \union {"CR", "LF"})
         /\ key.means = KeyMeaning(key.bytes) /\ key.means \in Seq(Events)
<1> DEFINE g == key.bytes
<1>1. IsKey(g) /\ key.means = KeyMeaning(g)
  BY KeysAssumption
<1>2. g \in Seq(Bytes) /\ g # <<>>
  BY <1>1 DEF IsKey
<1>3. Len(g) \in Nat \ {0} /\ g[1] \in Bytes
  BY <1>2, EmptySeq, LenProperties, ElementOfSeq
<1>4. g[1] \notin Continuations \union {"CR", "LF"}
  BY <1>1 DEF IsKey, Leads, Continuations
<1>5. KeyMeaning(g) \in Seq(Events)
  <2>1. <<Ev("ctrlW")>> \in Seq(Events) /\ <<Ignored>> \in Seq(Events) /\ << <<"rune", g>> >> \in Seq(Events)
    BY <1>2, EventTypes, Singleton
  <2> QED
    BY <2>1 DEF KeyMeaning
<1> QED
  BY <1>1, <1>2, <1>3, <1>4, <1>5

LEMMA NewlineFacts ==
  ASSUME newline \in Newlines
  PROVE  /\ newline \in {<<"CR">>, <<"LF">>, <<"CR", "LF">>}
         /\ newline \in Seq(Bytes) /\ Len(newline) \in Nat \ {0}
         /\ newline[1] \in {"CR", "LF"}
         /\ <<Ev("enter")>> \in Seq(Events)
<1>1. newline \in {<<"CR">>, <<"LF">>, <<"CR", "LF">>}
  BY NewlinesAssumption
<1>2. /\ <<"CR">> \in Seq(Bytes) /\ <<"LF">> \in Seq(Bytes) /\ <<"CR", "LF">> \in Seq(Bytes)
  BY DEF Bytes
<1>3. <<Ev("enter")>> \in Seq(Events)
  BY EventTypes, Singleton
<1>4. Len(newline) \in Nat \ {0} /\ newline[1] \in {"CR", "LF"}
  BY <1>1
<1> QED
  BY <1>1, <1>2, <1>3, <1>4, Zenon

LEMMA PasteFacts ==
  ASSUME NEW c \in Contents
  PROVE  /\ c \in Seq(Bytes) /\ Len(c) \in Nat
         /\ c \o pasteEnd \in Seq(Bytes) /\ Len(c \o pasteEnd) = Len(c) + 4
         /\ \A i \in 1..Len(c) : (c \o pasteEnd)[i] = c[i]
         /\ \A i \in 1..4 : (c \o pasteEnd)[Len(c) + i] = pasteEnd[i]
         /\ PasteBytes(c) \in Seq(Bytes) /\ Len(PasteBytes(c)) = Len(c) + 8
         /\ \A i \in 1..4 : PasteBytes(c)[i] = pasteStart[i]
         /\ SubSeq(PasteBytes(c), 5, Len(PasteBytes(c))) = c \o pasteEnd
         /\ PasteMeaning(c) \in Seq(Events)
<1> DEFINE text == c \o pasteEnd
<1>1. c \in Seq(Bytes) /\ Len(c) \in Nat
  BY ContentsAssumption, LenProperties
<1>2. /\ text \in Seq(Bytes) /\ Len(text) = Len(c) + 4
      /\ \A i \in 1..(Len(c) + 4) : text[i] = IF i <= Len(c) THEN c[i] ELSE pasteEnd[i - Len(c)]
  <2>1. /\ text \in Seq(Bytes) /\ Len(text) = Len(c) + Len(pasteEnd)
        /\ \A i \in 1..(Len(c) + Len(pasteEnd)) :
             text[i] = IF i <= Len(c) THEN c[i] ELSE pasteEnd[i - Len(c)]
    BY <1>1, Markers, ConcatProperties, Zenon
  <2> QED
    BY <2>1, Markers, Zenon
<1>3. /\ \A i \in 1..Len(c) : text[i] = c[i]
      /\ \A i \in 1..4 : text[Len(c) + i] = pasteEnd[i]
  <2> HIDE DEF text
  <2>1. ASSUME NEW i \in 1..Len(c) PROVE text[i] = c[i]
    BY <1>1, <1>2
  <2>2. ASSUME NEW i \in 1..4 PROVE text[Len(c) + i] = pasteEnd[i]
    <3>1. Len(c) + i \in 1..(Len(c) + 4) /\ ~(Len(c) + i <= Len(c)) /\ Len(c) + i - Len(c) = i
      BY <1>1
    <3> QED
      BY <1>2, <3>1
  <2> QED
    BY <2>1, <2>2
<1> HIDE DEF text
<1>4. /\ pasteStart \o text \in Seq(Bytes) /\ Len(pasteStart \o text) = 4 + Len(text)
      /\ \A i \in 1..(4 + Len(text)) : (pasteStart \o text)[i] = IF i <= 4 THEN pasteStart[i] ELSE text[i - 4]
  <2>1. /\ pasteStart \o text \in Seq(Bytes) /\ Len(pasteStart \o text) = Len(pasteStart) + Len(text)
        /\ \A i \in 1..(Len(pasteStart) + Len(text)) :
             (pasteStart \o text)[i] = IF i <= Len(pasteStart) THEN pasteStart[i] ELSE text[i - Len(pasteStart)]
    BY <1>2, Markers, ConcatProperties, Zenon
  <2> QED
    BY <2>1, Markers, Zenon
<1>5. SubSeq(pasteStart \o text, Len(pasteStart) + 1, Len(pasteStart) + Len(text)) = text
  BY <1>2, Markers, BehindConcat
<1>6. SubSeq(pasteStart \o text, 5, Len(PasteBytes(c))) = text
  BY <1>4, <1>5, Markers DEF PasteBytes, text
<1>7. PasteMeaning(c) \in Seq(Events)
  <2>1. <<Ev("tooLong")>> \in Seq(Events) /\ << <<"paste", c>> >> \in Seq(Events)
    BY <1>1, EventTypes, Singleton
  <2> QED
    BY <2>1 DEF PasteMeaning
<1>8. PasteBytes(c) = pasteStart \o text
  BY DEF PasteBytes, text
<1>9. Len(PasteBytes(c)) = Len(c) + 8 /\ 4 + Len(text) = Len(PasteBytes(c))
  BY <1>1, <1>2, <1>4, <1>8
<1>10. \A i \in 1..4 : PasteBytes(c)[i] = pasteStart[i]
  BY <1>1, <1>2, <1>4, <1>8
<1> QED
  BY <1>1, <1>2, <1>3, <1>4, <1>5, <1>6, <1>7, <1>8, <1>9, <1>10 DEF text

\* The first byte of a gesture, which a rune may have been waiting for.
LEMMA FirstByte ==
  ASSUME Typed, Feed,
         NEW g \in Seq(Bytes), NEW f \in Nat \ {0}, NEW events \in Seq(Events),
         Len(g) \in Nat \ {0}, g[1] \notin Continuations, Ahead(g, f, events)
  PROVE  /\ Head(wire) \in Bytes
         /\ wire' = SubSeq(g, 2, Len(g)) /\ (Len(g) = 1 => wire' = <<>>) /\ firm' = f - 1
         /\ \E k \in DecoderType :
              /\ k.st = "ground" /\ (k.cr => d.cr)
              /\ d' = ground(k, g[1]).k
              /\ ground(k, g[1]).evs = <<>> => meant' = got' \o events
              /\ ground(k, g[1]).evs = events => meant' = got'
<1> DEFINE b == g[1]
<1>1. /\ Head(wire) = b /\ b \in Bytes /\ Tail(wire) = SubSeq(g, 2, Len(g))
      /\ Len(g) = 1 => Tail(wire) = <<>>
  <2>1. 0 \in 0..(Len(g) - 1) /\ SubSeq(g, 0 + 1, Len(g)) = g
    BY SubSeqFull
  <2> QED
    <3>1. SubSeq(g, 0 + 1, Len(g)) = g /\ 0 + 1 = 1 /\ 0 + 2 = 2 /\ wire = g
      BY <2>1 DEF Ahead
    <3>2. LET w == SubSeq(g, 0 + 1, Len(g))
          IN  /\ w # <<>> /\ Head(w) = g[0 + 1] /\ g[0 + 1] \in Bytes
              /\ Tail(w) = SubSeq(g, 0 + 2, Len(g))
              /\ 0 + 1 = Len(g) => Tail(w) = <<>>
      BY <2>1, ReadOne, Zenon
    <3> QED
      BY <3>1, <3>2, Zenon
<1>2. /\ wire' = Tail(wire) /\ firm' = f - 1 /\ d' = feed(d, b).k /\ got' = got \o feed(d, b).evs
      /\ meant' = meant /\ meant = got \o (Unfinished \o events)
  BY <1>1 DEF Feed, Decoded, Ahead
<1>3. /\ got \in Seq(Events) /\ d \in DecoderType /\ d.st \in {"ground", "utf8"}
      /\ Unfinished \in Seq(Events) /\ d.cr \in BOOLEAN
  <2>1. <<>> \in Seq(Events) /\ <<Ignored>> \in Seq(Events)
    BY EventTypes, Singleton, EmptySeq
  <2> QED
    BY <2>1 DEF Typed, Ahead, Unfinished, DecoderType
<1>4. \E k \in DecoderType :
        /\ k.st = "ground" /\ (k.cr => d.cr)
        /\ d' = ground(k, b).k /\ feed(d, b).evs = Unfinished \o ground(k, b).evs
  <2>1. CASE d.st = "ground"
    <3>1. feed(d, b) = ground(d, b) /\ Unfinished = <<>>
      BY <2>1 DEF feed, Unfinished
    <3>2. ground(d, b).evs \in Seq(Events)
      BY <1>1, <1>3, GroundType
    <3>3. <<>> \o ground(d, b).evs = ground(d, b).evs
      BY <3>2, ConcatEmptySeq
    <3> QED
      BY <1>2, <1>3, <2>1, <3>1, <3>3
  <2>2. CASE d.st = "utf8"
    <3> DEFINE clean == [d EXCEPT !.st = "ground", !.u8 = <<>>, !.need = 0]
    <3>1. clean \in DecoderType /\ clean.st = "ground" /\ clean.cr = d.cr
      BY <1>3, EmptySeq DEF DecoderType
    <3>2. feed(d, b) = Out(ground(clean, b).k, <<Ignored>> \o ground(clean, b).evs)
      BY <2>2 DEF feed, inRune, Continuations
    <3>3. Unfinished = <<Ignored>>
      BY <2>2 DEF Unfinished
    <3> HIDE DEF clean
    <3>4. d' = ground(clean, b).k /\ feed(d, b).evs = Unfinished \o ground(clean, b).evs
      BY <1>2, <3>2, <3>3 DEF Out
    <3> QED
      BY <3>1, <3>4
  <2> QED
    BY <1>3, <2>1, <2>2
<1>5. PICK k \in DecoderType :
        /\ k.st = "ground" /\ (k.cr => d.cr)
        /\ d' = ground(k, b).k /\ feed(d, b).evs = Unfinished \o ground(k, b).evs
  BY <1>4
<1>6. ground(k, b).evs = <<>> => meant' = got' \o events
  <2>1. Unfinished \o <<>> = Unfinished
    BY <1>3, ConcatEmptySeq
  <2>2. got \o (Unfinished \o events) = (got \o Unfinished) \o events
    BY <1>3, EventsAssociate
  <2> QED
    BY <1>2, <1>5, <2>1, <2>2
<1>7. ground(k, b).evs = events => meant' = got'
  BY <1>2, <1>5
<1> QED
  BY <1>1, <1>2, <1>5, <1>6, <1>7

LEMMA KeyBegins ==
  ASSUME Typed, Feed, NEW key \in Keys, Ahead(key.bytes, Len(key.bytes), key.means)
  PROVE  Kept
<1> DEFINE g == key.bytes
           b == key.bytes[1]
<1>1. /\ g \in Seq(Bytes) /\ Len(g) \in Nat \ {0} /\ b \in Bytes \ (Continuations \union {"CR", "LF"})
      /\ key.means = KeyMeaning(g) /\ key.means \in Seq(Events) /\ IsKey(g)
  BY KeyFacts, KeysAssumption
<1>2. /\ Head(wire) \in Bytes
      /\ wire' = SubSeq(g, 2, Len(g)) /\ (Len(g) = 1 => wire' = <<>>) /\ firm' = Len(g) - 1
      /\ \E k \in DecoderType :
           /\ k.st = "ground" /\ (k.cr => d.cr)
           /\ d' = ground(k, b).k
           /\ ground(k, b).evs = <<>> => meant' = got' \o key.means
           /\ ground(k, b).evs = key.means => meant' = got'
  BY <1>1, FirstByte
<1>3. PICK k \in DecoderType :
        /\ k.st = "ground" /\ d' = ground(k, b).k
        /\ ground(k, b).evs = <<>> => meant' = got' \o key.means
        /\ ground(k, b).evs = key.means => meant' = got'
  BY <1>2
<1>4. got' \in Seq(Events) /\ got' \o <<>> = got'
  <2>1. got' = got \o feed(d, Head(wire)).evs
    BY DEF Feed, Decoded
  <2>2. feed(d, Head(wire)).evs \in Seq(Events)
    BY <1>2, FeedType DEF Typed
  <2>3. got' \in Seq(Events)
    BY <2>1, <2>2, ConcatProperties DEF Typed
  <2> QED
    BY <2>3, ConcatEmptySeq
<1>5. d'.cr = FALSE
  <2> HIDE DEF g, b
  <2>1. ground(k, b).k.cr = (b = "CR") /\ b # "CR"
    BY <1>1, <1>3, GroundByte
  <2> QED
    BY <1>3, <2>1
<1> HIDE DEF g, b
<1>9. Len(g) # 1 => 1 \in 1..(Len(g) - 1)
  <2>1. Len(g) \in Nat \ {0}
    BY <1>1
  <2>2. \A n \in Nat \ {0} : n # 1 => 1 \in 1..(n - 1)
    OBVIOUS
  <2> QED
    BY <2>1, <2>2, Zenon
<1>6. CASE b = "ESC"
  <2>1. d'.st = "esc" /\ d'.seqLen = 1 /\ meant' = got' \o key.means
    BY <1>1, <1>3, <1>6, GroundByte
  <2>2. CASE Len(g) = 1
    <3>1. key.means = <<Ignored>>
      BY <1>1, <1>6, <2>2 DEF KeyMeaning, b, g
    <3>2. AtRest'
      BY <1>2, <2>1, <2>2, <3>1 DEF AtRest, Unfinished
    <3> QED
      BY <1>2, <1>5, <3>2 DEF Kept, OnTheWay, AfterCR
  <2>3. CASE Len(g) # 1
    <3>1. KeyOnTheWay(key.bytes, 1)'
      BY <1>1, <1>2, <1>6, <2>1 DEF KeyOnTheWay, Unread, InEscape, g, b
    <3>2. 1 \in 1..(Len(key.bytes) - 1)
      BY <1>9, <2>3 DEF g
    <3> QED
      BY <1>2, <1>5, <3>1, <3>2 DEF Kept, OnTheWay, AfterCR
  <2> QED
    BY <2>2, <2>3
<1>7. CASE b \in Leads
  <2>1. d'.st = "utf8" /\ d'.u8 = <<b>> /\ d'.need = RuneLength(b) - 1 /\ meant' = got' \o key.means
    BY <1>1, <1>3, <1>7, GroundByte
  <2>2. CASE Len(g) = 1
    <3>1. key.means = <<Ignored>>
      BY <1>1, <1>7, <2>2 DEF KeyMeaning, b, g, Leads, RuneLength
    <3>2. AtRest'
      BY <1>2, <2>1, <2>2, <3>1 DEF AtRest, Unfinished
    <3> QED
      BY <1>2, <1>5, <3>2 DEF Kept, OnTheWay, AfterCR
  <2>3. CASE Len(g) # 1
    <3>1. SubSeq(g, 1, 1) = <<b>>
      BY <1>1, FirstOnly DEF b, g
    <3>2. b # "ESC"
      BY <1>7 DEF Leads
    <3>3. KeyOnTheWay(key.bytes, 1)'
      BY <1>1, <1>2, <2>1, <3>1, <3>2 DEF KeyOnTheWay, Unread, InRune, g, b
    <3>4. 1 \in 1..(Len(key.bytes) - 1)
      BY <1>9, <2>3 DEF g
    <3> QED
      BY <1>2, <1>5, <3>3, <3>4 DEF Kept, OnTheWay, AfterCR
  <2> QED
    BY <2>2, <2>3
<1>8. CASE b \notin Leads \union {"ESC"}
  <2>1. d'.st = "ground"
    BY <1>1, <1>3, <1>8, GroundByte
  <2>2. Len(g) = 1 /\ g = <<b>>
    <3>1. Len(g) = 1
      BY <1>1, <1>8 DEF IsKey, b, g
    <3> QED
      BY <1>1, <3>1 DEF b, g
  <2>3. ground(k, b).evs = key.means
    <3>1. b \in {"^W", "C0", "[", "O", "~", "1", "2", "x"}
      BY <1>1, <1>8 DEF Bytes, Leads, Continuations
    <3>2. CASE b = "^W"
      <4>1. key.means = <<Ev("ctrlW")>>
        BY <1>1, <2>2, <3>2 DEF KeyMeaning, Leads
      <4> QED
        BY <1>1, <1>3, <3>2, <4>1, GroundByte
    <3>3. CASE b = "C0"
      <4>1. key.means = <<Ignored>>
        BY <1>1, <2>2, <3>3 DEF KeyMeaning
      <4> QED
        BY <1>1, <1>3, <3>3, <4>1, GroundByte
    <3>4. CASE b \in {"[", "O", "~", "1", "2", "x"}
      <4>1. key.means = << <<"rune", <<b>>>> >>
        BY <1>1, <2>2, <3>4 DEF KeyMeaning, Leads
      <4> QED
        BY <1>1, <1>3, <3>4, <4>1, GroundByte
    <3> QED
      BY <3>1, <3>2, <3>3, <3>4
  <2>4. AtRest'
    BY <1>2, <1>3, <1>4, <2>1, <2>2, <2>3 DEF AtRest, Unfinished
  <2> QED
    BY <1>2, <1>5, <2>4 DEF Kept, OnTheWay, AfterCR
<1> QED
  BY <1>6, <1>7, <1>8

LEMMA EnterBegins ==
  ASSUME Typed, Feed, Ahead(newline, Len(newline), <<Ev("enter")>>)
  PROVE  Kept
<1> DEFINE b == newline[1]
           enter == <<Ev("enter")>>
<1>1. /\ newline \in {<<"CR">>, <<"LF">>, <<"CR", "LF">>}
      /\ newline \in Seq(Bytes) /\ Len(newline) \in Nat \ {0}
      /\ b \in {"CR", "LF"} /\ enter \in Seq(Events)
  BY NewlineFacts DEF Typed
<1>2. b \in Bytes /\ b \notin Continuations /\ b \notin Leads \union {"ESC"}
  BY <1>1 DEF Bytes, Continuations, Leads
<1>3. /\ Head(wire) \in Bytes
      /\ wire' = SubSeq(newline, 2, Len(newline)) /\ (Len(newline) = 1 => wire' = <<>>)
      /\ firm' = Len(newline) - 1
      /\ \E k \in DecoderType :
           /\ k.st = "ground" /\ (k.cr => d.cr)
           /\ d' = ground(k, b).k
           /\ ground(k, b).evs = <<>> => meant' = got' \o enter
           /\ ground(k, b).evs = enter => meant' = got'
  <2>1. Ahead(newline, Len(newline), enter)
    OBVIOUS
  <2> HIDE DEF enter
  <2> QED
    BY <1>1, <1>2, <2>1, FirstByte
<1>4. PICK k \in DecoderType :
        /\ k.st = "ground" /\ (k.cr => d.cr)
        /\ d' = ground(k, b).k
        /\ ground(k, b).evs = enter => meant' = got'
  BY <1>3
<1>5. newline' = newline
  BY DEF Feed
<1> HIDE DEF b
<1>6. b = "LF" => ~k.cr
  <2> SUFFICES ASSUME b = "LF", k.cr PROVE FALSE
    OBVIOUS
  <2>1. newline = <<"LF">>
    BY <1>1 DEF b
  <2> QED
    BY <1>4, <2>1 DEF Typed, AfterCR
<1>7. d'.st = "ground" /\ d'.cr = (b = "CR") /\ meant' = got'
  <2>1. ground(k, b).k.st = "ground" /\ ground(k, b).k.cr = (b = "CR") /\ ground(k, b).evs = enter
    BY <1>1, <1>2, <1>4, <1>6, GroundByte
  <2> QED
    BY <1>4, <2>1
<1>8. AfterCR'
  <2>1. b = "CR" => newline' # <<"LF">>
    BY <1>5 DEF b
  <2> QED
    BY <1>7, <2>1 DEF AfterCR
<1>9. CASE newline = <<"CR", "LF">>
  <2>1. SubSeq(newline, 2, Len(newline)) = <<"LF">>
    <3>1. Len(newline) = 2
      BY <1>9
    <3>2. SubSeq(newline, 1 + 1, Len(newline)) = SubSeq(newline, 2, 2) /\ 2 \in 1..2
      BY <3>1
    <3>3. SubSeq(newline, 2, 2) = SubSeq(newline, 2, 2 - 1) \o <<newline[2]>>
      BY <1>1, <3>1, <3>2, SubSeqRecursiveSecond
    <3>4. SubSeq(newline, 2, 2 - 1) = <<>>
      BY SubSeqEmpty
    <3>5. newline[2] = "LF" /\ <<"LF">> \in Seq(Bytes)
      BY <1>9 DEF Bytes
    <3>6. <<>> \o <<"LF">> = <<"LF">>
      BY <3>5, ConcatEmptySeq
    <3> QED
      BY <3>1, <3>3, <3>4, <3>5, <3>6
  <2>2. NewlineOnTheWay'
    <3>1. newline' = <<"CR", "LF">> /\ wire' = <<"LF">> /\ firm' = 1 /\ b = "CR"
      BY <1>3, <1>5, <1>9, <2>1 DEF b
    <3> QED
      BY <1>7, <3>1 DEF NewlineOnTheWay
  <2> QED
    BY <1>3, <1>8, <2>2 DEF Kept, OnTheWay
<1>10. CASE newline # <<"CR", "LF">>
  <2>1. Len(newline) = 1
    BY <1>1, <1>10
  <2>2. got' \in Seq(Events) /\ got' \o <<>> = got'
    <3>1. feed(d, Head(wire)).evs \in Seq(Events)
      BY <1>3, FeedType DEF Typed
    <3>2. got' \in Seq(Events)
      BY <3>1, ConcatProperties DEF Typed, Feed, Decoded
    <3> QED
      BY <3>2, ConcatEmptySeq
  <2>3. AtRest'
    BY <1>3, <1>7, <2>1, <2>2 DEF AtRest, Unfinished
  <2> QED
    BY <1>3, <1>8, <2>3 DEF Kept, OnTheWay
<1> QED
  BY <1>9, <1>10

LEMMA PasteBegins ==
  ASSUME Typed, Feed, NEW c \in Contents, Ahead(PasteBytes(c), 4, PasteMeaning(c))
  PROVE  Kept
<1> DEFINE g == PasteBytes(c)
           events == PasteMeaning(c)
<1>1. /\ g \in Seq(Bytes) /\ Len(g) = Len(c) + 8 /\ Len(c) \in Nat
      /\ g[1] = "ESC" /\ events \in Seq(Events)
  BY PasteFacts, Markers
<1>2. Len(g) \in Nat \ {0} /\ g[1] \notin Continuations /\ g[1] \in Bytes
  BY <1>1 DEF Continuations, Bytes
<1>3. /\ Head(wire) \in Bytes
      /\ wire' = SubSeq(g, 2, Len(g)) /\ firm' = 4 - 1
      /\ \E k \in DecoderType :
           /\ k.st = "ground" /\ (k.cr => d.cr)
           /\ d' = ground(k, g[1]).k
           /\ ground(k, g[1]).evs = <<>> => meant' = got' \o events
           /\ ground(k, g[1]).evs = events => meant' = got'
  <2>1. Ahead(g, 4, events) /\ 4 \in Nat \ {0}
    OBVIOUS
  <2> HIDE DEF g, events
  <2> QED
    BY <1>1, <1>2, <2>1, FirstByte
<1>4. PICK k \in DecoderType :
        /\ k.st = "ground" /\ d' = ground(k, g[1]).k
        /\ ground(k, g[1]).evs = <<>> => meant' = got' \o events
  BY <1>3
<1>5. /\ ground(k, g[1]).k.st = "esc" /\ ground(k, g[1]).k.seqLen = 1 /\ ground(k, g[1]).evs = <<>>
      /\ ground(k, g[1]).k.cr = (g[1] = "CR")
  BY <1>1, <1>2, <1>4, GroundByte
<1>6. d'.st = "esc" /\ d'.seqLen = 1 /\ d'.cr = FALSE /\ meant' = got' \o events
  BY <1>1, <1>4, <1>5
<1>7. PasteStarts(c, 1)'
  BY <1>3, <1>6 DEF PasteStarts, Unread, InEscape
<1> QED
  BY <1>3, <1>6, <1>7 DEF Kept, OnTheWay, AfterCR

LEMMA NewlineEnds ==
  ASSUME Typed, Feed, NewlineOnTheWay
  PROVE  Kept
<1>1. Head(wire) = "LF" /\ Tail(wire) = <<>> /\ "LF" \in Bytes /\ "LF" \notin Leads \union {"ESC"}
  BY DEF NewlineOnTheWay, Bytes, Leads
<1>2. /\ ground(d, "LF").k.st = "ground" /\ ground(d, "LF").k.cr = FALSE
      /\ ground(d, "LF").evs = <<>>
  BY <1>1, GroundByte DEF Typed, NewlineOnTheWay
<1>3. d' = ground(d, "LF").k /\ got' = got \o <<>> /\ meant' = got /\ wire' = <<>> /\ firm' = 0
  <2>1. feed(d, "LF") = ground(d, "LF")
    BY DEF feed, NewlineOnTheWay
  <2>2. wire' = Tail(wire) /\ meant' = meant /\ meant = got
    BY DEF Feed, NewlineOnTheWay
  <2>3. firm' = 0
    BY DEF Feed, NewlineOnTheWay
  <2>4. Decoded(ground(d, "LF"))
    BY <1>1, <2>1 DEF Feed
  <2> QED
    BY <1>1, <1>2, <2>2, <2>3, <2>4 DEF Decoded
<1>4. got \o <<>> = got
  BY ConcatEmptySeq DEF Typed
<1>5. AtRest'
  BY <1>2, <1>3, <1>4 DEF AtRest, Unfinished
<1> QED
  BY <1>1, <1>2, <1>3, <1>5 DEF Kept, OnTheWay, AfterCR

\* A byte inside a gesture.
LEMMA NextByte ==
  ASSUME Typed, Feed,
         NEW g \in Seq(Bytes), NEW k \in 0..(Len(g) - 1), Unread(g, k)
  PROVE  /\ Head(wire) = g[k + 1] /\ g[k + 1] \in Bytes
         /\ Unread(g, k + 1)' /\ (k + 1 = Len(g) => wire' = <<>>)
         /\ d' = feed(d, g[k + 1]).k /\ got' = got \o feed(d, g[k + 1]).evs
         /\ meant' = meant /\ got' \in Seq(Events) /\ got' \o <<>> = got'
         /\ feed(d, g[k + 1]).evs = <<>> => got' = got
<1>1. /\ Head(wire) = g[k + 1] /\ g[k + 1] \in Bytes /\ Tail(wire) = SubSeq(g, k + 2, Len(g))
      /\ k + 1 = Len(g) => Tail(wire) = <<>>
  BY ReadOne DEF Unread
<1>2. /\ d' = feed(d, g[k + 1]).k /\ got' = got \o feed(d, g[k + 1]).evs
      /\ meant' = meant /\ wire' = Tail(wire)
  BY <1>1 DEF Feed, Decoded
<1>3. (k + 1) + 1 = k + 2
  BY LenProperties
<1>4. got' \in Seq(Events) /\ got \o <<>> = got
  BY <1>1, <1>2, FeedType, ConcatProperties, ConcatEmptySeq DEF Typed
<1>5. got' \o <<>> = got'
  BY <1>4, ConcatEmptySeq
<1> QED
  BY <1>1, <1>2, <1>3, <1>4, <1>5 DEF Unread

\* The escape sequences among the keys.
LEMMA EscapeKey ==
  ASSUME NEW g, IsKey(g), g[1] = "ESC"
  PROVE  \/ Len(g) = 1
         \/ Len(g) = 2 /\ g[2] \notin {"[", "O"}
         \/ Len(g) = 3 /\ g[2] = "O"
         \/ IsControlSequence(g) /\ g[2] = "[" /\ Len(g) \in 3..MaxSeqLen
<1>1. \/ Len(g) = 1
      \/ Len(g) = 2 /\ g[2] \notin {"[", "O"}
      \/ Len(g) = 3 /\ g[2] = "O"
      \/ IsControlSequence(g)
  BY DEF IsKey, Leads
<1>2. IsControlSequence(g) => g[2] = "[" /\ Len(g) \in 3..MaxSeqLen
  BY DEF IsControlSequence
<1> QED
  BY <1>1, <1>2

LEMMA AfterEscByte ==
  ASSUME NEW k \in DecoderType, NEW b, k.cr = FALSE
  PROVE  LET out == afterEsc(k, b)
         IN  /\ out.k.cr = FALSE
             /\ b = "[" => /\ out.k.st = "csi" /\ out.k.seqLen = k.seqLen + 1
                           /\ out.k.csi = <<>> /\ out.evs = <<>>
             /\ b = "O" => out.k.st = "ss3" /\ out.k.seqLen = k.seqLen + 1 /\ out.evs = <<>>
             /\ b \notin {"[", "O"} => out.k.st = "ground" /\ out.evs = <<Ignored>>
<1> DEFINE csi == [k EXCEPT !.st = "csi", !.csi = <<>>, !.seqLen = @ + 1]
           ss3 == [k EXCEPT !.st = "ss3", !.seqLen = @ + 1]
           over == [k EXCEPT !.st = "ground", !.seqLen = @ + 1]
<1>1. csi.st = "csi" /\ csi.csi = <<>> /\ csi.seqLen = k.seqLen + 1 /\ csi.cr = FALSE
  BY DEF DecoderType
<1>2. ss3.st = "ss3" /\ ss3.seqLen = k.seqLen + 1 /\ ss3.cr = FALSE
  BY DEF DecoderType
<1>3. over.st = "ground" /\ over.cr = FALSE
  BY DEF DecoderType
<1>4. afterEsc(k, b) = CASE b = "[" -> Out(csi, <<>>) [] b = "O" -> Out(ss3, <<>>) [] OTHER -> Out(over, <<Ignored>>)
  BY DEF afterEsc
<1> HIDE DEF csi, ss3, over
<1> QED
  BY <1>1, <1>2, <1>3, <1>4 DEF Out

LEMMA NotTheFirst ==
  ASSUME NEW n, NEW m \in Nat \ {0}, m + 1 <= n
  PROVE  n # 1
<1> SUFFICES ASSUME n = 1 PROVE FALSE
  OBVIOUS
<1> QED
  OBVIOUS

LEMMA EscapeContinues ==
  ASSUME Typed, Feed, NEW key \in Keys, NEW k \in 1..(Len(key.bytes) - 1),
         KeyOnTheWay(key.bytes, k), key.bytes[1] = "ESC"
  PROVE  Kept
<1> DEFINE g == key.bytes
           b == key.bytes[k + 1]
<1>1. g \in Seq(Bytes) /\ Len(g) \in Nat \ {0} /\ IsKey(g)
  BY KeyFacts, KeysAssumption
<1>2. k \in Nat \ {0} /\ k + 1 <= Len(g) /\ k \in 0..(Len(g) - 1)
  BY <1>1
<1>3. Unread(g, k) /\ firm = Len(g) - k /\ meant = got \o KeyMeaning(g) /\ InEscape(g, k) /\ g[1] = "ESC"
  BY DEF KeyOnTheWay
<1> HIDE DEF g
<1>4. /\ Head(wire) \in Bytes /\ b \in Bytes /\ Unread(g, k + 1)' /\ (k + 1 = Len(g) => wire' = <<>>)
      /\ d' = feed(d, b).k /\ got' = got \o feed(d, b).evs
      /\ meant' = meant /\ got' \in Seq(Events) /\ got' \o <<>> = got'
      /\ feed(d, b).evs = <<>> => got' = got
  BY <1>1, <1>2, <1>3, NextByte DEF g
<1>5. firm' = Len(g) - (k + 1)
  BY <1>1, <1>2, <1>3 DEF Feed
<1>6. KeyMeaning(g) = <<Ignored>>
  <2>1. g # <<"^W">>
    <3>1. <<"^W">>[1] = "^W" /\ "^W" # "ESC"
      OBVIOUS
    <3> QED
      BY <1>3, <3>1, ZenonT(30)
  <2> QED
    BY <1>3, <2>1, SMTT(30) DEF KeyMeaning, Leads
<1>7. d \in DecoderType /\ d.cr = FALSE
  <2>1. d.st # "ground"
    BY <1>3 DEF InEscape
  <2> QED
    BY <2>1 DEF Typed, AfterCR, DecoderType
<1>13. \/ Len(g) = 2 /\ g[2] \notin {"[", "O"}
       \/ Len(g) = 3 /\ g[2] = "O"
       \/ IsControlSequence(g) /\ g[2] = "[" /\ Len(g) \in 3..MaxSeqLen
  <2>1. \/ Len(g) = 1
        \/ Len(g) = 2 /\ g[2] \notin {"[", "O"}
        \/ Len(g) = 3 /\ g[2] = "O"
        \/ IsControlSequence(g) /\ g[2] = "[" /\ Len(g) \in 3..MaxSeqLen
    BY <1>1, <1>3, EscapeKey, ZenonT(30)
  <2>2. Len(g) # 1
    BY <1>2, NotTheFirst, ZenonT(30)
  <2> QED
    BY <2>1, <2>2, Zenon
\* The sequence is over, ignored.
<1>8. ASSUME k + 1 = Len(g), feed(d, b).evs = <<Ignored>>, feed(d, b).k.st = "ground", feed(d, b).k.cr = FALSE
      PROVE  Kept
  <2>1. meant' = got' \o <<>>
    BY <1>3, <1>4, <1>6, <1>8
  <2>2. wire' = <<>> /\ firm' = 0
    BY <1>1, <1>4, <1>5, <1>8
  <2>3. AtRest'
    BY <1>4, <1>8, <2>1, <2>2 DEF AtRest, Unfinished
  <2> QED
    BY <1>4, <1>8, <2>3 DEF Kept, OnTheWay, AfterCR
\* It goes on.
<1>9. ASSUME k + 1 < Len(g), feed(d, b).evs = <<>>, InEscape(g, k + 1)', feed(d, b).k.cr = FALSE
      PROVE  Kept
  <2>1. k + 1 \in 1..(Len(g) - 1)
    BY <1>1, <1>2, <1>9
  <2>2. meant' = got' \o KeyMeaning(g)
    BY <1>3, <1>4, <1>9
  <2>3. KeyOnTheWay(g, k + 1)'
    BY <1>3, <1>4, <1>5, <1>9, <2>2 DEF KeyOnTheWay
  <2> QED
    BY <1>4, <1>9, <2>1, <2>3 DEF Kept, OnTheWay, AfterCR, g
<1> HIDE DEF b
<1>10. CASE k = 1 /\ d.st = "esc"
  <2>1. d.seqLen = 1 /\ b = g[2] /\ feed(d, b) = afterEsc(d, b)
    BY <1>3, <1>10 DEF InEscape, feed, b, g
  <2>2. /\ feed(d, b).k.cr = FALSE
        /\ b = "[" => /\ feed(d, b).k.st = "csi" /\ feed(d, b).k.seqLen = d.seqLen + 1
                      /\ feed(d, b).k.csi = <<>> /\ feed(d, b).evs = <<>>
        /\ b = "O" => /\ feed(d, b).k.st = "ss3" /\ feed(d, b).k.seqLen = d.seqLen + 1
                      /\ feed(d, b).evs = <<>>
        /\ b \notin {"[", "O"} => feed(d, b).k.st = "ground" /\ feed(d, b).evs = <<Ignored>>
    <3>1. /\ afterEsc(d, b).k.cr = FALSE
          /\ b = "[" => /\ afterEsc(d, b).k.st = "csi" /\ afterEsc(d, b).k.seqLen = d.seqLen + 1
                        /\ afterEsc(d, b).k.csi = <<>> /\ afterEsc(d, b).evs = <<>>
          /\ b = "O" => /\ afterEsc(d, b).k.st = "ss3" /\ afterEsc(d, b).k.seqLen = d.seqLen + 1
                        /\ afterEsc(d, b).evs = <<>>
          /\ b \notin {"[", "O"} =>
               afterEsc(d, b).k.st = "ground" /\ afterEsc(d, b).evs = <<Ignored>>
      BY <1>7, AfterEscByte
    <3> QED
      BY <2>1, <3>1, Zenon
  <2>6. d.seqLen + 1 = 2
    BY <2>1
  <2>3. CASE b \notin {"[", "O"}
    <3>1. feed(d, b).evs = <<Ignored>> /\ feed(d, b).k.st = "ground" /\ feed(d, b).k.cr = FALSE
      BY <2>2, <2>3
    <3>2. k + 1 = Len(g)
      BY <1>2, <1>10, <1>13, <2>1, <2>3
    <3> QED
      BY <1>8, <3>1, <3>2
  <2>4. CASE b = "O"
    <3>1. /\ feed(d, b).evs = <<>> /\ feed(d, b).k.st = "ss3" /\ feed(d, b).k.seqLen = 2
          /\ feed(d, b).k.cr = FALSE
      BY <2>2, <2>4, <2>6
    <3>2. k + 1 < Len(g)
      <4>1. Len(g) = 3
        BY <1>13, <2>1, <2>4
      <4> QED
        BY <1>10, <4>1
    <3>3. InEscape(g, k + 1)'
      BY <1>4, <1>10, <2>1, <2>4, <3>1 DEF InEscape
    <3> QED
      BY <1>9, <3>1, <3>2, <3>3
  <2>5. CASE b = "["
    <3>1. /\ feed(d, b).evs = <<>> /\ feed(d, b).k.st = "csi" /\ feed(d, b).k.seqLen = 2
          /\ feed(d, b).k.csi = <<>> /\ feed(d, b).k.cr = FALSE
      BY <2>2, <2>5, <2>6
    <3>2. k + 1 < Len(g)
      <4>1. Len(g) \in 3..MaxSeqLen
        BY <1>13, <2>1, <2>5
      <4>2. \A n \in 3..MaxSeqLen : 2 < n
        BY LimitsAssumption
      <4>3. 2 < Len(g)
        BY <4>1, <4>2, Zenon
      <4> QED
        BY <1>10, <4>3
    <3>3. SubSeq(g, 3, 2) = <<>>
      BY SubSeqEmpty
    <3>4. InEscape(g, k + 1)'
      BY <1>4, <1>10, <2>1, <2>5, <3>1, <3>3 DEF InEscape
    <3> QED
      BY <1>9, <3>1, <3>2, <3>4
  <2> QED
    BY <2>3, <2>4, <2>5
<1>11. CASE k = 2 /\ d.st = "ss3" /\ g[2] = "O"
  <2>1. k + 1 = Len(g)
    BY <1>2, <1>11, <1>13
  <2>2. feed(d, b) = Out([d EXCEPT !.st = "ground", !.seqLen = 0], <<Ignored>>)
    BY <1>11 DEF feed
  <2>3. /\ [d EXCEPT !.st = "ground", !.seqLen = 0].st = "ground"
        /\ [d EXCEPT !.st = "ground", !.seqLen = 0].cr = FALSE
    BY <1>7 DEF DecoderType
  <2>4. feed(d, b).evs = <<Ignored>> /\ feed(d, b).k = [d EXCEPT !.st = "ground", !.seqLen = 0]
    BY <2>2 DEF Out
  <2> QED
    BY <1>8, <2>1, <2>3, <2>4
<1>12. CASE k >= 2 /\ d.st = "csi" /\ g[2] = "["
  <2>1. IsControlSequence(g) /\ Len(g) >= 3 /\ Len(g) <= MaxSeqLen
    BY <1>2, <1>12, <1>13, LimitsAssumption
  <2>2. d.csi = SubSeq(g, 3, k) /\ d.seqLen = k /\ feed(d, b) = inCSI(d, b)
    BY <1>3, <1>12 DEF InEscape, feed
  <2>3. ~(d.seqLen + 1 > MaxSeqLen)
    BY <1>1, <1>2, <2>1, <2>2, LimitsAssumption
  <2>4. b \in FinalBytes <=> k + 1 = Len(g)
    <3>1. k + 1 \in 3..Len(g)
      BY <1>1, <1>2, <1>12
    <3> QED
      BY <2>1, <3>1 DEF IsControlSequence, b, g
  <2>5. CASE b \notin FinalBytes
    <3> DEFINE e == [d EXCEPT !.seqLen = @ + 1, !.csi = Append(@, b)]
    <3>1. feed(d, b) = Out(e, <<>>)
      BY <2>2, <2>3, <2>5 DEF inCSI
    <3>2. e.st = "csi" /\ e.seqLen = k + 1 /\ e.csi = Append(d.csi, b) /\ e.cr = FALSE
      BY <1>7, <1>12, <2>2 DEF DecoderType
    <3>3. Append(d.csi, b) = SubSeq(g, 3, k + 1)
      <4>1. 3 \in 1..Len(g) /\ k \in (3 - 1)..(Len(g) - 1)
        BY <1>1, <1>2, <1>12, <2>1
      <4> QED
        BY <1>1, <2>2, <4>1, KeepOne DEF b, g
    <3> HIDE DEF e
    <3>4. feed(d, b).k = e /\ feed(d, b).evs = <<>>
      BY <3>1 DEF Out
    <3>5. InEscape(g, k + 1)'
      BY <1>2, <1>4, <1>12, <3>2, <3>3, <3>4 DEF InEscape
    <3>6. k + 1 < Len(g)
      BY <1>1, <1>2, <2>4, <2>5
    <3> QED
      BY <1>9, <3>2, <3>4, <3>5, <3>6
  <2>6. CASE b \in FinalBytes
    <3>1. ~(b = "~" /\ d.csi = <<"2">>)
      <4> SUFFICES ASSUME b = "~", d.csi = <<"2">> PROVE FALSE
        OBVIOUS
      <4>1. Len(SubSeq(g, 3, k)) = IF 3 <= k THEN k - 3 + 1 ELSE 0
        BY <1>1, <1>2, SubSeqBytes
      <4>2. Len(SubSeq(g, 3, k)) = 1 /\ SubSeq(g, 3, k)[1] = "2"
        <5>1. SubSeq(g, 3, k) = <<"2">>
          BY <2>2
        <5>2. Len(<<"2">>) = 1 /\ <<"2">>[1] = "2"
          OBVIOUS
        <5> QED
          BY <5>1, <5>2, Zenon
      <4>3. k = 3
        BY <1>2, <4>1, <4>2
      <4>4. SubSeq(g, 3, 3)[1] = g[3]
        BY <1>1, <1>2, <4>3, SubSeqBytes
      <4>5. g[3] = "2" /\ g[4] = "~" /\ Len(g) = 4
        BY <2>4, <2>6, <4>2, <4>3, <4>4 DEF b, g
      <4>6. g = pasteStart
        <5>1. \A i \in 1..4 : g[i] = pasteStart[i]
          BY <1>3, <1>12, <4>5, Markers
        <5> QED
          BY <1>1, <4>5, <5>1, Markers, SeqEqual
      <4> QED
        BY <2>1, <4>6 DEF IsControlSequence
    <3>2. feed(d, b) = Out(reset(d), <<Ignored>>)
      BY <2>2, <2>3, <2>6, <3>1 DEF inCSI
    <3>3. reset(d).st = "ground" /\ reset(d).cr = FALSE
      BY <1>7 DEF reset, newKeyDecoder
    <3>4. feed(d, b).evs = <<Ignored>> /\ feed(d, b).k.st = "ground" /\ feed(d, b).k.cr = FALSE
      BY <3>2, <3>3 DEF Out
    <3> QED
      BY <1>8, <2>4, <2>6, <3>4
  <2> QED
    BY <2>5, <2>6
<1> QED
  BY <1>3, <1>10, <1>11, <1>12 DEF InEscape

\* A rune's later bytes.
LEMMA RuneByte ==
  ASSUME NEW k \in DecoderType, NEW b \in Continuations
  PROVE  LET out == inRune(k, b)
             seq == Append(k.u8, b)
         IN  /\ out.k.cr = k.cr
             /\ k.need > 1 => /\ out.k.st = k.st /\ out.k.u8 = seq /\ out.k.need = k.need - 1
                              /\ out.evs = <<>>
             /\ ~(k.need > 1) => /\ out.k.st = "ground"
                                 /\ "S" \in ToSet(seq) => out.evs = <<Ignored>>
                                 /\ "S" \notin ToSet(seq) => out.evs = << <<"rune", seq>> >>
<1> DEFINE seq == Append(k.u8, b)
           clean == [k EXCEPT !.st = "ground", !.u8 = <<>>, !.need = 0]
           more == [k EXCEPT !.u8 = seq, !.need = @ - 1]
<1>1. clean.st = "ground" /\ clean.cr = k.cr
  BY DEF DecoderType
<1>2. more.st = k.st /\ more.cr = k.cr /\ more.u8 = seq /\ more.need = k.need - 1
  <2> HIDE DEF seq
  <2> QED
    BY DEF DecoderType
<1>3. inRune(k, b) = IF k.need > 1 THEN Out(more, <<>>)
                     ELSE Out(clean, IF "S" \in ToSet(seq) THEN <<Ignored>> ELSE << <<"rune", seq>> >>)
  BY DEF inRune, Continuations
<1> HIDE DEF seq, clean, more
<1>4. CASE k.need > 1
  BY <1>2, <1>3, <1>4 DEF Out, seq
<1>5. CASE ~(k.need > 1)
  BY <1>1, <1>3, <1>5 DEF Out, seq
<1> QED
  BY <1>4, <1>5

LEMMA RuneContinues ==
  ASSUME Typed, Feed, NEW key \in Keys, NEW k \in 1..(Len(key.bytes) - 1),
         KeyOnTheWay(key.bytes, k), key.bytes[1] # "ESC"
  PROVE  Kept
<1> DEFINE g == key.bytes
           b == key.bytes[k + 1]
<1>1. g \in Seq(Bytes) /\ Len(g) \in Nat \ {0} /\ IsKey(g) /\ g # <<>>
  BY KeyFacts, KeysAssumption
<1>2. k \in Nat \ {0} /\ k + 1 <= Len(g) /\ k \in 0..(Len(g) - 1)
  BY <1>1
<1>3. Unread(g, k) /\ firm = Len(g) - k /\ meant = got \o KeyMeaning(g) /\ InRune(g, k) /\ g[1] # "ESC"
  BY DEF KeyOnTheWay
<1> HIDE DEF g
<1>4. /\ Head(wire) \in Bytes /\ b \in Bytes /\ Unread(g, k + 1)' /\ (k + 1 = Len(g) => wire' = <<>>)
      /\ d' = feed(d, b).k /\ got' = got \o feed(d, b).evs
      /\ meant' = meant /\ got' \in Seq(Events) /\ got' \o <<>> = got'
      /\ feed(d, b).evs = <<>> => got' = got
  BY <1>1, <1>2, <1>3, NextByte DEF g
<1>5. firm' = Len(g) - (k + 1)
  BY <1>1, <1>2, <1>3 DEF Feed
<1>6. /\ d \in DecoderType /\ d.cr = FALSE /\ d.st = "utf8" /\ d.u8 = SubSeq(g, 1, k)
      /\ d.need = RuneLength(g[1]) - k /\ feed(d, b) = inRune(d, b)
  <2>1. d.st = "utf8" /\ d.u8 = SubSeq(g, 1, k) /\ d.need = RuneLength(g[1]) - k
    BY <1>3 DEF InRune
  <2> QED
    BY <2>1 DEF Typed, AfterCR, DecoderType, feed
<1>7. /\ g[1] \in Leads /\ Len(g) <= RuneLength(g[1])
      /\ \A i \in 2..Len(g) : g[i] \in Continuations
  <2>1. Len(g) # 1
    <3>1. \A n : n = 1 => ~(k + 1 <= n)
      BY <1>2
    <3> QED
      BY <1>2, <3>1, Zenon
  <2> QED
    BY <1>1, <1>3, <2>1 DEF IsKey
<1>8. b \in Continuations
  <2>1. k + 1 \in 2..Len(g)
    BY <1>1, <1>2
  <2> QED
    BY <1>7, <2>1 DEF b, g
<1> DEFINE seq == Append(d.u8, b)
<1>9. seq = SubSeq(g, 1, k + 1)
  <2>1. 1 \in 1..Len(g) /\ k \in (1 - 1)..(Len(g) - 1)
    BY <1>1, <1>2
  <2> QED
    BY <1>1, <1>6, <2>1, KeepOne DEF b, g
<1> HIDE DEF b, seq
<1>10. RuneLength(g[1]) \in Nat
  BY DEF RuneLength
<1>11. /\ feed(d, b).k.cr = FALSE
       /\ d.need > 1 => /\ feed(d, b).k.st = "utf8" /\ feed(d, b).k.u8 = seq
                        /\ feed(d, b).k.need = d.need - 1 /\ feed(d, b).evs = <<>>
       /\ ~(d.need > 1) => /\ feed(d, b).k.st = "ground"
                           /\ "S" \in ToSet(seq) => feed(d, b).evs = <<Ignored>>
                           /\ "S" \notin ToSet(seq) => feed(d, b).evs = << <<"rune", seq>> >>
  BY <1>6, <1>8, RuneByte DEF seq
<1>12. g # <<"^W">> /\ g[1] \notin {"ESC", "C0"}
  BY <1>7 DEF Leads
<1>13. CASE d.need > 1
  <2>1. meant' = got' \o KeyMeaning(g)
    BY <1>3, <1>4, <1>11, <1>13
  <2>2. CASE k + 1 = Len(g)
    <3>1. Len(g) < RuneLength(g[1])
      BY <1>2, <1>6, <1>10, <1>13, <2>2
    <3>2. KeyMeaning(g) = <<Ignored>>
      BY <1>7, <1>12, <3>1 DEF KeyMeaning
    <3>3. firm' = 0
      BY <1>1, <1>5, <2>2
    <3>4. AtRest'
      BY <1>4, <1>11, <1>13, <2>1, <2>2, <3>2, <3>3 DEF AtRest, Unfinished
    <3> QED
      BY <1>4, <1>11, <3>4 DEF Kept, OnTheWay, AfterCR
  <2>3. CASE k + 1 # Len(g)
    <3>1. k + 1 \in 1..(Len(g) - 1)
      BY <1>1, <1>2, <2>3
    <3>2. d'.need = RuneLength(g[1]) - (k + 1)
      BY <1>2, <1>4, <1>6, <1>10, <1>11, <1>13
    <3>3. InRune(g, k + 1)'
      BY <1>4, <1>9, <1>11, <1>13, <3>2 DEF InRune
    <3>4. KeyOnTheWay(g, k + 1)'
      BY <1>3, <1>4, <1>5, <2>1, <3>3 DEF KeyOnTheWay
    <3> QED
      BY <1>4, <1>11, <3>1, <3>4 DEF Kept, OnTheWay, AfterCR, g
  <2> QED
    BY <2>2, <2>3
<1>14. CASE ~(d.need > 1)
  <2>1. k + 1 = Len(g) /\ Len(g) = RuneLength(g[1])
    BY <1>1, <1>2, <1>6, <1>7, <1>10, <1>14
  <2>2. seq = g
    BY <1>1, <1>9, <2>1, SubSeqFull
  <2>3. feed(d, b).evs = KeyMeaning(g)
    <3>1. ~(Len(g) < RuneLength(g[1]))
      BY <1>10, <2>1
    <3>2. CASE "S" \in ToSet(g)
      <4>1. KeyMeaning(g) = <<Ignored>>
        BY <1>7, <1>12, <3>2 DEF KeyMeaning
      <4> QED
        BY <1>11, <1>14, <2>2, <3>2, <4>1
    <3>3. CASE "S" \notin ToSet(g)
      <4>1. KeyMeaning(g) = << <<"rune", g>> >>
        BY <1>7, <1>12, <3>1, <3>3 DEF KeyMeaning
      <4> QED
        BY <1>11, <1>14, <2>2, <3>3, <4>1
    <3> QED
      BY <3>2, <3>3
  <2>4. meant' = got' \o <<>>
    BY <1>3, <1>4, <2>3
  <2>5. firm' = 0 /\ wire' = <<>>
    BY <1>1, <1>4, <1>5, <2>1
  <2>6. AtRest'
    BY <1>4, <1>11, <1>14, <2>4, <2>5 DEF AtRest, Unfinished
  <2> QED
    BY <1>4, <1>11, <2>6 DEF Kept, OnTheWay, AfterCR
<1> QED
  BY <1>13, <1>14

LEMMA StartMarkerContinues ==
  ASSUME Typed, Feed, NEW c \in Contents, NEW k \in 1..3, PasteStarts(c, k)
  PROVE  Kept
<1> DEFINE g == PasteBytes(c)
           b == g[k + 1]
           events == PasteMeaning(c)
<1>1. /\ g \in Seq(Bytes) /\ Len(g) = Len(c) + 8 /\ Len(c) \in Nat /\ events \in Seq(Events)
      /\ \A i \in 1..4 : g[i] = pasteStart[i]
      /\ SubSeq(g, 5, Len(g)) = c \o pasteEnd
  BY PasteFacts
<1>2. k \in 0..(Len(g) - 1) /\ k + 1 \in 2..4
  BY <1>1
<1>3. Unread(g, k) /\ firm = 4 - k /\ meant = got \o events /\ InEscape(pasteStart, k)
  BY DEF PasteStarts
<1> HIDE DEF g, events
<1>4. /\ Head(wire) \in Bytes /\ b \in Bytes /\ Unread(g, k + 1)'
      /\ d' = feed(d, b).k /\ got' = got \o feed(d, b).evs
      /\ meant' = meant
      /\ feed(d, b).evs = <<>> => got' = got
  BY <1>1, <1>2, <1>3, NextByte
<1>5. firm' = 4 - (k + 1)
  BY <1>3 DEF Feed
<1>6. b = pasteStart[k + 1]
  BY <1>1, <1>2
<1> HIDE DEF b
<1>7. d \in DecoderType /\ d.cr = FALSE /\ d.seqLen = k
  <2>1. d.st # "ground" /\ d.seqLen = k
    BY <1>3 DEF InEscape
  <2> QED
    BY <2>1 DEF Typed, AfterCR, DecoderType
<1>8. CASE k = 1
  <2>1. d.st = "esc" /\ b = "[" /\ feed(d, b) = afterEsc(d, b)
    BY <1>3, <1>6, <1>8, Markers DEF InEscape, feed
  <2>2. /\ afterEsc(d, b).k.cr = FALSE /\ afterEsc(d, b).k.st = "csi"
        /\ afterEsc(d, b).k.seqLen = d.seqLen + 1
        /\ afterEsc(d, b).k.csi = <<>> /\ afterEsc(d, b).evs = <<>>
    <3>1. /\ afterEsc(d, b).k.cr = FALSE
          /\ b = "[" => /\ afterEsc(d, b).k.st = "csi" /\ afterEsc(d, b).k.seqLen = d.seqLen + 1
                        /\ afterEsc(d, b).k.csi = <<>> /\ afterEsc(d, b).evs = <<>>
      BY <1>7, AfterEscByte
    <3> QED
      BY <2>1, <3>1, Zenon
  <2>3. SubSeq(pasteStart, 3, 2) = <<>> /\ k + 1 = 2 /\ d.seqLen + 1 = 2 /\ 4 - (k + 1) = 4 - 2
    BY <1>7, <1>8, SubSeqEmpty
  <2>4. /\ d'.st = "csi" /\ d'.cr = FALSE /\ d'.seqLen = 2 /\ d'.csi = SubSeq(pasteStart, 3, 2)
        /\ meant' = got' \o events
    BY <1>3, <1>4, <2>1, <2>2, <2>3
  <2>5. PasteStarts(c, 2)'
    BY <1>4, <1>5, <2>3, <2>4, Markers DEF PasteStarts, InEscape, g, events
  <2> QED
    BY <1>4, <2>4, <2>5 DEF Kept, OnTheWay, AfterCR
<1>9. CASE k # 1
  <2>1. d.st = "csi" /\ d.csi = SubSeq(pasteStart, 3, k) /\ feed(d, b) = inCSI(d, b)
    BY <1>3, <1>9, Markers DEF InEscape, feed
  <2>2. ~(d.seqLen + 1 > MaxSeqLen)
    BY <1>7, LimitsAssumption
  <2>3. CASE k = 2
    <3>1. b = "2" /\ b \notin FinalBytes /\ d.csi = <<>>
      BY <1>6, <2>1, <2>3, Markers, SubSeqEmpty DEF FinalBytes
    <3> DEFINE e == [d EXCEPT !.seqLen = @ + 1, !.csi = Append(@, b)]
    <3>2. feed(d, b) = Out(e, <<>>)
      BY <2>1, <2>2, <3>1 DEF inCSI
    <3>3. e.st = "csi" /\ e.seqLen = 3 /\ e.csi = <<"2">> /\ e.cr = FALSE
      <4>1. e.st = "csi" /\ e.seqLen = d.seqLen + 1 /\ e.csi = Append(d.csi, b) /\ e.cr = FALSE
        BY <1>7, <2>1 DEF DecoderType
      <4>2. d.seqLen + 1 = 3
        BY <1>7, <2>3
      <4>3. Append(d.csi, b) = <<"2">>
        BY <3>1
      <4> QED
        BY <4>1, <4>2, <4>3, Zenon
    <3>4. SubSeq(pasteStart, 3, 3) = <<"2">>
      <4>1. SubSeq(pasteStart, 3, 3) = SubSeq(pasteStart, 3, 3 - 1) \o <<pasteStart[3]>>
        BY Markers, SubSeqRecursiveSecond
      <4>2. SubSeq(pasteStart, 3, 3 - 1) = <<>>
        BY SubSeqEmpty
      <4>3. <<>> \o <<"2">> = <<"2">>
        BY <1>4, <3>1, Singleton, ConcatEmptySeq
      <4> QED
        BY <4>1, <4>2, <4>3, Markers
    <3> HIDE DEF e
    <3>5. /\ d'.st = "csi" /\ d'.cr = FALSE /\ d'.seqLen = 3 /\ d'.csi = SubSeq(pasteStart, 3, 3)
          /\ meant' = got' \o events
      <4>1. feed(d, b).k = e /\ feed(d, b).evs = <<>>
        BY <3>2 DEF Out
      <4> QED
        BY <1>3, <1>4, <3>3, <3>4, <4>1
    <3>6. k + 1 = 3 /\ 4 - (k + 1) = 4 - 3
      BY <2>3
    <3>7. PasteStarts(c, 3)'
      BY <1>4, <1>5, <3>5, <3>6, Markers DEF PasteStarts, InEscape, g, events
    <3> QED
      BY <1>4, <3>5, <3>7 DEF Kept, OnTheWay, AfterCR
  <2>4. CASE k = 3
    <3>1. b = "~" /\ b \in FinalBytes
      BY <1>6, <2>4, Markers DEF FinalBytes
    <3>2. d.csi = <<"2">>
      <4>1. SubSeq(pasteStart, 3, 3) = SubSeq(pasteStart, 3, 3 - 1) \o <<pasteStart[3]>>
        BY Markers, SubSeqRecursiveSecond
      <4>2. SubSeq(pasteStart, 3, 3 - 1) = <<>> /\ "2" \in Bytes
        BY SubSeqEmpty DEF Bytes
      <4>3. <<>> \o <<"2">> = <<"2">>
        BY <4>2, Singleton, ConcatEmptySeq
      <4> QED
        BY <2>1, <2>4, <4>1, <4>2, <4>3, Markers
    <3> DEFINE e == [reset(d) EXCEPT !.st = "paste"]
    <3>3. feed(d, b) = Out(e, <<>>)
      BY <2>1, <2>2, <3>1, <3>2 DEF inCSI
    <3>4. e.st = "paste" /\ e.pmatch = 0 /\ e.paste = <<>> /\ e.pover = FALSE /\ e.cr = FALSE
      BY <1>7 DEF reset, newKeyDecoder
    <3> HIDE DEF e
    <3>5. /\ d'.st = "paste" /\ d'.pmatch = 0 /\ d'.paste = <<>> /\ d'.pover = FALSE /\ d'.cr = FALSE
          /\ meant' = got' \o events
      BY <1>3, <1>4, <3>3, <3>4 DEF Out
    <3>6. wire' = c \o pasteEnd /\ firm' = 0
      <4>1. (k + 1) + 1 = 5 /\ 4 - (k + 1) = 0
        BY <2>4
      <4> QED
        BY <1>1, <1>4, <1>5, <4>1 DEF Unread
    <3>7. Unread(c \o pasteEnd, 0)'
      <4>1. c \o pasteEnd \in Seq(Bytes) /\ 0 + 1 = 1
        BY PasteFacts
      <4> QED
        BY <3>6, <4>1, SubSeqFull DEF Unread
    <3>8. Matching(d, c, 0)'
      <4>1. SubSeq(c \o pasteEnd, 1, 0) = <<>> /\ 0 - 0 = 0 /\ ~(0 > Len(c)) /\ ~(0 > MaxPaste)
        BY <1>1, SubSeqEmpty, LimitsAssumption
      <4> QED
        BY <3>5, <4>1, LimitsAssumption DEF Matching, Keeping
    <3>9. PasteOnTheWay(c, 0)'
      BY <3>5, <3>6, <3>7, <3>8 DEF PasteOnTheWay, events
    <3>10. 0 \in 0..(Len(c) + 3)
      BY <1>1
    <3> QED
      BY <1>4, <3>5, <3>9, <3>10 DEF Kept, OnTheWay, AfterCR
  <2> QED
    BY <1>9, <2>3, <2>4
<1> QED
  BY <1>8, <1>9
-----------------------------------------------------------------------------
(* Pastes. *)

\* The next n bytes are kept, or everything is dropped.
LEMMA AppendKeeps ==
  ASSUME NEW k \in DecoderType, NEW text \in Seq(Bytes), NEW m \in Nat, NEW n \in Nat,
         m + n <= Len(text), Keeping(k, text, m)
  PROVE  LET r == appendPaste(k, SubSeq(text, m + 1, m + n))
         IN  /\ r \in DecoderType /\ Keeping(r, text, m + n)
             /\ r.st = k.st /\ r.cr = k.cr /\ r.pmatch = k.pmatch
<1> DEFINE p == SubSeq(text, m + 1, m + n)
           r == appendPaste(k, p)
<1>1. Len(text) \in Nat /\ m + 1 \in Nat \ {0} /\ m + n \in 0..Len(text) /\ m \in 0..Len(text)
  BY LenProperties
<1>2. p \in Seq(Bytes) /\ Len(p) = n
  <2>1. Len(p) = IF m + 1 <= m + n THEN (m + n) - (m + 1) + 1 ELSE 0
    BY <1>1, SubSeqBytes
  <2>2. p \in Seq(Bytes)
    BY <1>1, SubSeqBytes
  <2>3. (IF m + 1 <= m + n THEN (m + n) - (m + 1) + 1 ELSE 0) = n
    OBVIOUS
  <2> QED
    BY <2>1, <2>2, <2>3
<1>3. SubSeq(text, 1, m) \o p = SubSeq(text, 1, m + n)
  <2>1. 1 \in 1..(Len(text) + 1) /\ m \in (1 - 1)..Len(text) /\ m + n \in m..Len(text)
    BY <1>1
  <2> QED
    BY <2>1, ConcatAdjacentSubSeq
<1>4. Len(SubSeq(text, 1, m)) = m
  <2>1. Len(SubSeq(text, 1, m)) = IF 1 <= m THEN m - 1 + 1 ELSE 0
    BY <1>1, SubSeqBytes
  <2> QED
    BY <2>1
<1>5. r \in DecoderType
  BY <1>2, PasteType
<1> HIDE DEF p
<1>6. CASE k.pover
  <2>1. r = k
    BY <1>6 DEF appendPaste
  <2>2. m > MaxPaste /\ k.paste = <<>> /\ m + n > MaxPaste
    BY <1>6, LimitsAssumption DEF Keeping
  <2> QED
    BY <1>5, <1>6, <2>1, <2>2 DEF Keeping, p
<1>7. CASE ~k.pover
  <2>1. m <= MaxPaste /\ k.paste = SubSeq(text, 1, m) /\ Len(k.paste) = m
    BY <1>4, <1>7 DEF Keeping
  <2>2. CASE n > MaxPaste - m
    <3>1. r = [k EXCEPT !.paste = <<>>, !.pover = TRUE]
      BY <1>2, <1>7, <2>1, <2>2 DEF appendPaste
    <3>2. r.pover = TRUE /\ r.paste = <<>> /\ r.st = k.st /\ r.cr = k.cr /\ r.pmatch = k.pmatch
      BY <3>1 DEF DecoderType
    <3>3. m + n > MaxPaste
      BY <2>2, LimitsAssumption
    <3> QED
      BY <1>5, <3>2, <3>3 DEF Keeping, p
  <2>3. CASE ~(n > MaxPaste - m)
    <3>1. r = [k EXCEPT !.paste = @ \o p]
      BY <1>2, <1>7, <2>1, <2>3 DEF appendPaste
    <3>2. /\ r.pover = k.pover /\ r.paste = k.paste \o p /\ r.st = k.st /\ r.cr = k.cr
          /\ r.pmatch = k.pmatch
      BY <3>1 DEF DecoderType
    <3>3. m + n <= MaxPaste
      BY <2>3, LimitsAssumption
    <3>4. r.paste = SubSeq(text, 1, m + n)
      BY <1>3, <2>1, <3>2
    <3> QED
      BY <1>5, <1>7, <3>2, <3>3, <3>4 DEF Keeping, p
  <2> QED
    BY <2>2, <2>3
<1> QED
  BY <1>6, <1>7

\* Where the partial match stands behind i bytes. In the marker that ends the
\* paste it has all the bytes of the marker; only there does it complete.
LEMMA MatchPosition ==
  ASSUME Typed, NEW c \in Contents, NEW i \in 0..(Len(c) + 3), Matching(d, c, i)
  PROVE  LET text == c \o pasteEnd
             b == text[i + 1]
         IN  /\ d.pmatch \in 0..3 /\ i - d.pmatch \in Nat
             /\ i > Len(c) => d.pmatch = i - Len(c) /\ b = pasteEnd[d.pmatch + 1]
             /\ i = Len(c) => b = "ESC"
             /\ b = pasteEnd[d.pmatch + 1] /\ d.pmatch = 3 => i = Len(c) + 3
<1> DEFINE text == c \o pasteEnd
           b == text[i + 1]
<1>1. /\ Len(c) \in Nat /\ \A j \in 1..Len(c) : text[j] = c[j]
      /\ \A j \in 1..4 : text[Len(c) + j] = pasteEnd[j]
  BY PasteFacts
<1>2. d.pmatch \in 0..3
  BY Markers DEF Typed, DecoderType
<1>3. /\ i - d.pmatch \in Nat
      /\ \A j \in 1..d.pmatch : text[i - d.pmatch + j] = pasteEnd[j]
      /\ i > Len(c) => d.pmatch = i - Len(c)
  BY DEF Matching
<1> HIDE DEF text
<1>4. i >= Len(c) => b = pasteEnd[i - Len(c) + 1]
  <2> SUFFICES ASSUME i >= Len(c) PROVE b = pasteEnd[i - Len(c) + 1]
    OBVIOUS
  <2>1. i - Len(c) + 1 \in 1..4 /\ Len(c) + (i - Len(c) + 1) = i + 1
    BY <1>1
  <2> QED
    BY <1>1, <2>1
<1>5. i = Len(c) => b = "ESC"
  <2> SUFFICES ASSUME i = Len(c) PROVE b = "ESC"
    OBVIOUS
  <2>1. i - Len(c) + 1 = 1 /\ i >= Len(c)
    BY <1>1
  <2> QED
    BY <1>4, <2>1, Markers
<1>6. ASSUME b = pasteEnd[d.pmatch + 1], d.pmatch = 3
      PROVE  i = Len(c) + 3
  <2>1. b = "~"
    BY <1>6, Markers
  <2>2. i # Len(c)
    BY <1>5, <2>1
  <2>3. ~(i < Len(c))
    <3> SUFFICES ASSUME i < Len(c) PROVE FALSE
      OBVIOUS
    <3> DEFINE n == i - 3
    <3>1. n \in 0..Len(c) /\ n + Len(pasteEnd) <= Len(c)
      BY <1>1, <1>3, <1>6, Markers
    <3>2. \A j \in 1..4 : c[n + j] = pasteEnd[j]
      <4> TAKE j \in 1..4
      <4>1. n + j \in 1..Len(c)
        BY <1>1, <3>1, Markers
      <4>2. CASE j = 4
        <5>1. n + j = i + 1 /\ j = d.pmatch + 1
          BY <1>6, <4>2
        <5> QED
          BY <1>1, <1>6, <4>1, <5>1
      <4>3. CASE j # 4
        <5>1. j \in 1..d.pmatch /\ i - d.pmatch + j = n + j
          BY <1>6, <4>3
        <5> QED
          BY <1>1, <1>3, <4>1, <5>1
      <4> QED
        BY <4>2, <4>3
    <3>3. DOMAIN pasteEnd = 1..4
      BY Markers, LenProperties
    <3> HIDE DEF n
    <3> QED
      BY <3>1, <3>2, <3>3, ContentsAssumption
  <2> QED
    BY <1>1, <1>3, <1>6, <2>2, <2>3
<1>7. i > Len(c) => b = pasteEnd[d.pmatch + 1]
  BY <1>1, <1>3, <1>4
<1> QED
  BY <1>2, <1>3, <1>5, <1>6, <1>7 DEF text

LEMMA PasteContinues ==
  ASSUME Typed, Feed, NEW c \in Contents, NEW i \in 0..(Len(c) + 3), PasteOnTheWay(c, i)
  PROVE  Kept
<1> DEFINE text == c \o pasteEnd
           b == text[i + 1]
           events == PasteMeaning(c)
           n == Len(c)
           kept == i - d.pmatch
<1>1. /\ text \in Seq(Bytes) /\ Len(text) = n + 4 /\ n \in Nat /\ c \in Seq(Bytes)
      /\ events \in Seq(Events)
  BY PasteFacts
<1>2. /\ Unread(text, i) /\ firm = 0 /\ meant = got \o events /\ d.st = "paste" /\ Matching(d, c, i)
  BY DEF PasteOnTheWay
<1>3. /\ d.pmatch \in 0..3 /\ kept \in Nat
      /\ i > n => d.pmatch = i - n /\ b = pasteEnd[d.pmatch + 1]
      /\ i = n => b = "ESC"
      /\ b = pasteEnd[d.pmatch + 1] /\ d.pmatch = 3 => i = n + 3
  BY <1>2, MatchPosition
<1>4. /\ \A j \in 1..d.pmatch : text[kept + j] = pasteEnd[j]
      /\ Keeping(d, text, kept)
  BY <1>2 DEF Matching
<1>5. d \in DecoderType /\ d.cr = FALSE
  BY <1>2 DEF Typed, AfterCR, DecoderType
<1> HIDE DEF text, events, n
<1>6. i \in 0..(Len(text) - 1) /\ i \in 0..(n + 3) /\ i \in Nat
  BY <1>1 DEF n
<1>7. /\ Head(wire) \in Bytes /\ b \in Bytes /\ Unread(text, i + 1)' /\ (i + 1 = Len(text) => wire' = <<>>)
      /\ d' = feed(d, b).k /\ got' = got \o feed(d, b).evs
      /\ meant' = meant /\ got' \o <<>> = got'
      /\ feed(d, b).evs = <<>> => got' = got
  BY <1>1, <1>2, <1>6, NextByte
<1>8. firm' = 0
  BY <1>2 DEF Feed
<1>9. feed(d, b) = inPaste(d, b)
  BY <1>2 DEF feed
\* The bytes of the paste go on.
<1>10. ASSUME i + 1 <= n + 3, feed(d, b).evs = <<>>,
              feed(d, b).k.st = "paste", feed(d, b).k.cr = FALSE, Matching(d, c, i + 1)'
       PROVE  Kept
  <2>1. PasteOnTheWay(c, i + 1)'
    BY <1>2, <1>7, <1>8, <1>10 DEF PasteOnTheWay, text, events
  <2>2. i + 1 \in 0..(Len(c) + 3)
    BY <1>1, <1>6, <1>10 DEF n
  <2> QED
    BY <1>7, <1>10, <2>1, <2>2 DEF Kept, OnTheWay, AfterCR
<1> HIDE DEF b
<1>11. CASE b = pasteEnd[d.pmatch + 1] /\ d.pmatch = 3
  <2>1. i = n + 3 /\ kept = n
    BY <1>1, <1>3, <1>11
  <2>2. feed(d, b) = Out(reset(d), IF d.pover THEN <<Ev("tooLong")>> ELSE << <<"paste", d.paste>> >>)
    BY <1>9, <1>11, Markers DEF inPaste
  <2>3. reset(d).st = "ground" /\ reset(d).cr = FALSE
    BY <1>5 DEF reset, newKeyDecoder
  <2>4. SubSeq(text, 1, n) = c
    <3>1. CASE n = 0
      BY <1>1, <3>1, SubSeqEmpty, EmptySeq DEF n
    <3>2. CASE n # 0
      <4>1. 1 \in 1..Len(c) /\ n \in 1..Len(c)
        BY <1>1, <3>2 DEF n
      <4>2. SubSeq(c \o pasteEnd, 1, n) = SubSeq(c, 1, n)
        BY <1>1, <4>1, Markers, SubSeqOfConcat1
      <4> QED
        BY <1>1, <4>2, SubSeqFull DEF text, n
    <3> QED
      BY <3>1, <3>2
  <2>5. feed(d, b).evs = events
    <3>1. CASE d.pover
      <4>1. n > MaxPaste
        BY <1>4, <2>1, <3>1 DEF Keeping
      <4> QED
        BY <2>2, <3>1, <4>1 DEF events, PasteMeaning, Out, n
    <3>2. CASE ~d.pover
      <4>1. n <= MaxPaste /\ d.paste = c
        BY <1>4, <2>1, <2>4, <3>2 DEF Keeping
      <4>2. ~(n > MaxPaste)
        BY <1>1, <4>1, LimitsAssumption
      <4> QED
        BY <2>2, <3>2, <4>1, <4>2 DEF events, PasteMeaning, Out, n
    <3> QED
      BY <3>1, <3>2
  <2>6. d'.st = "ground" /\ d'.cr = FALSE /\ meant' = got' \o <<>> /\ wire' = <<>>
    <3>1. i + 1 = Len(text)
      BY <1>1, <2>1
    <3>2. feed(d, b).k = reset(d)
      BY <2>2 DEF Out
    <3> QED
      BY <1>2, <1>7, <2>3, <2>5, <3>1, <3>2
  <2>7. AtRest'
    BY <1>8, <2>6 DEF AtRest, Unfinished
  <2> QED
    BY <1>7, <2>6, <2>7 DEF Kept, OnTheWay, AfterCR
<1>12. CASE b = pasteEnd[d.pmatch + 1] /\ d.pmatch # 3
  <2> DEFINE e == [d EXCEPT !.pmatch = @ + 1]
  <2>1. feed(d, b) = Out(e, <<>>)
    BY <1>3, <1>9, <1>12, Markers DEF inPaste
  <2>2. /\ e.pmatch = d.pmatch + 1 /\ e.st = "paste" /\ e.cr = FALSE
        /\ e.pover = d.pover /\ e.paste = d.paste
    BY <1>2, <1>5 DEF DecoderType
  <2> HIDE DEF e
  <2>3. feed(d, b).k = e /\ feed(d, b).evs = <<>> /\ d' = e
    BY <1>7, <2>1 DEF Out
  <2>4. i + 1 <= n + 3
    BY <1>1, <1>3, <1>6, <1>12
  <2>5. (i + 1) - (d.pmatch + 1) = kept
    BY <1>3, <1>6
  <2>6. \A j \in 1..(d.pmatch + 1) : text[kept + j] = pasteEnd[j]
    <3> TAKE j \in 1..(d.pmatch + 1)
    <3>1. CASE j = d.pmatch + 1
      <4>1. kept + j = i + 1
        BY <1>3, <1>6, <3>1
      <4> QED
        BY <1>12, <3>1, <4>1 DEF b
    <3>2. CASE j # d.pmatch + 1
      <4>1. j \in 1..d.pmatch
        BY <1>3, <3>2
      <4> QED
        BY <1>4, <4>1
    <3> QED
      BY <3>1, <3>2
  <2>7. i + 1 > n => d.pmatch + 1 = (i + 1) - n
    <3>1. CASE i > n
      BY <1>1, <1>3, <1>6, <3>1
    <3>2. CASE i = n
      <4>1. b = "ESC"
        BY <1>3, <3>2
      <4>2. d.pmatch = 0
        <5>1. \A p \in 1..4 : pasteEnd[p] = "ESC" => p = 1
          BY Markers
        <5>2. d.pmatch + 1 \in 1..4
          BY <1>3
        <5>3. d.pmatch + 1 = 1
          BY <1>12, <4>1, <5>1, <5>2, Zenon
        <5> QED
          BY <1>3, <5>3
      <4> QED
        BY <1>1, <3>2, <4>2
    <3> QED
      BY <1>1, <1>6, <3>1, <3>2
  <2>8. Keeping(e, text, kept)
    BY <1>4, <2>2 DEF Keeping
  <2>9. Matching(d, c, i + 1)'
    <3>1. e.pmatch = d.pmatch + 1 /\ (i + 1) - e.pmatch = kept
      BY <2>2, <2>5
    <3> HIDE DEF kept
    <3>2. Matching(e, c, i + 1)
      BY <1>3, <2>6, <2>7, <2>8, <3>1 DEF Matching, text, n
    <3> QED
      BY <2>3, <3>2
  <2> QED
    BY <1>10, <2>2, <2>3, <2>4, <2>9
<1>13. CASE b # pasteEnd[d.pmatch + 1]
  <2>1. i <= n /\ (i = n => d.pmatch # 0)
    BY <1>1, <1>3, <1>6, <1>13, Markers
  <2>2. i + 1 <= n + 3 /\ kept + d.pmatch = i /\ i <= Len(text) /\ i + 1 <= Len(text)
    BY <1>1, <1>3, <1>6, <2>1
  <2>3. SubSeq(pasteEnd, 1, d.pmatch) = SubSeq(text, kept + 1, kept + d.pmatch)
    <3> DEFINE p == SubSeq(pasteEnd, 1, d.pmatch)
               q == SubSeq(text, kept + 1, kept + d.pmatch)
    <3>1. /\ p \in Seq(Bytes) /\ Len(p) = d.pmatch
          /\ \A j \in 1..d.pmatch : p[j] = pasteEnd[j]
      <4>1. d.pmatch \in 0..Len(pasteEnd) /\ 1 \in Nat \ {0}
        BY <1>3, Markers
      <4>2. /\ p \in Seq(Bytes) /\ Len(p) = IF 1 <= d.pmatch THEN d.pmatch - 1 + 1 ELSE 0
            /\ \A j \in 1..(d.pmatch - 1 + 1) : p[j] = pasteEnd[1 + j - 1]
        BY <4>1, Markers, SubSeqBytes
      <4>3. /\ d.pmatch - 1 + 1 = d.pmatch
            /\ (IF 1 <= d.pmatch THEN d.pmatch - 1 + 1 ELSE 0) = d.pmatch
            /\ \A j \in 1..d.pmatch : 1 + j - 1 = j
        BY <1>3
      <4> HIDE DEF p
      <4> QED
        BY <4>2, <4>3
    <3>2. /\ q \in Seq(Bytes) /\ Len(q) = d.pmatch
          /\ \A j \in 1..d.pmatch : q[j] = text[kept + j]
      <4> DEFINE m == kept + 1
                 z == kept + d.pmatch
      <4>1. z \in 0..Len(text) /\ m \in Nat \ {0}
        BY <1>3, <1>6, <2>2
      <4>2. /\ q \in Seq(Bytes) /\ Len(q) = IF m <= z THEN z - m + 1 ELSE 0
            /\ \A j \in 1..(z - m + 1) : q[j] = text[m + j - 1]
        BY <1>1, <4>1, SubSeqBytes
      <4>3. /\ z - m + 1 = d.pmatch
            /\ (IF m <= z THEN z - m + 1 ELSE 0) = d.pmatch
            /\ \A j \in 1..d.pmatch : m + j - 1 = kept + j
        <5> HIDE DEF kept
        <5> QED
          BY <1>3, <1>6
      <4> HIDE DEF q, m, z
      <4> QED
        BY <4>2, <4>3
    <3>3. \A j \in 1..Len(p) : p[j] = q[j]
      BY <1>4, <3>1, <3>2
    <3> HIDE DEF p, q
    <3>4. p = q
      BY <3>1, <3>2, <3>3, SeqEqual
    <3> QED
      BY <3>4 DEF p, q
  <2> DEFINE replayed == appendPaste(d, SubSeq(pasteEnd, 1, d.pmatch))
  <2>4. /\ replayed \in DecoderType /\ Keeping(replayed, text, i)
        /\ replayed.st = "paste" /\ replayed.cr = FALSE
    <3>1. d.pmatch \in Nat /\ kept + d.pmatch <= Len(text)
      BY <1>3, <2>2
    <3> HIDE DEF kept
    <3>2. LET r == appendPaste(d, SubSeq(text, kept + 1, kept + d.pmatch))
          IN  /\ r \in DecoderType /\ Keeping(r, text, kept + d.pmatch)
              /\ r.st = d.st /\ r.cr = d.cr
      BY <1>1, <1>3, <1>4, <1>5, <3>1, AppendKeeps
    <3> QED
      BY <1>2, <1>5, <2>2, <2>3, <3>2
  <2>5. pasteEnd[1] = "ESC" /\ ~(i + 1 > n /\ b # "ESC")
    BY <1>1, <1>3, <1>6, <2>1, Markers
  <2> HIDE DEF replayed
  <2>6. CASE b = "ESC"
    <3> DEFINE e == [replayed EXCEPT !.pmatch = 1]
    <3>1. feed(d, b) = Out(e, <<>>)
      BY <1>9, <1>13, <2>5, <2>6 DEF inPaste, replayed
    <3>2. /\ e.pmatch = 1 /\ e.st = "paste" /\ e.cr = FALSE
          /\ e.pover = replayed.pover /\ e.paste = replayed.paste
      BY <2>4 DEF DecoderType
    <3> HIDE DEF e
    <3>3. feed(d, b).k = e /\ feed(d, b).evs = <<>> /\ d' = e
      BY <1>7, <3>1 DEF Out
    <3>4. (i + 1) - 1 = i /\ (i + 1 > n => 1 = (i + 1) - n)
      BY <1>1, <1>6, <2>1
    <3>5. \A j \in 1..1 : text[i + j] = pasteEnd[j]
      BY <2>5, <2>6 DEF b
    <3>6. Keeping(e, text, i)
      BY <2>4, <3>2 DEF Keeping
    <3>7. Matching(d, c, i + 1)'
      <4>1. /\ d'.pmatch = 1 /\ (i + 1) - d'.pmatch = i
            /\ d'.pover = e.pover /\ d'.paste = e.paste
        BY <3>2, <3>3, <3>4
      <4> QED
        BY <1>6, <3>4, <3>5, <3>6, <4>1 DEF Matching, Keeping, text, n
    <3> QED
      BY <1>10, <2>2, <3>2, <3>3, <3>7
  <2>7. CASE b # "ESC"
    <3> DEFINE more == appendPaste(replayed, <<b>>)
               e == [more EXCEPT !.pmatch = 0]
    <3>1. feed(d, b) = Out(e, <<>>)
      BY <1>9, <1>13, <2>5, <2>7 DEF inPaste, replayed
    <3>2. more \in DecoderType /\ Keeping(more, text, i + 1) /\ more.st = "paste" /\ more.cr = FALSE
      <4>1. SubSeq(text, i + 1, i + 1) = <<b>>
        <5>1. i + 1 \in 1..Len(text) /\ i + 1 \in (i + 1)..Len(text) /\ i + 1 - 1 = i
          BY <1>6, <2>2
        <5>2. SubSeq(text, i + 1, i + 1) = SubSeq(text, i + 1, (i + 1) - 1) \o <<text[i + 1]>>
          BY <1>1, <5>1, SubSeqRecursiveSecond
        <5>3. SubSeq(text, i + 1, i) = <<>>
          BY <1>6, SubSeqEmpty
        <5>4. <<>> \o <<b>> = <<b>>
          BY <1>7, Singleton, ConcatEmptySeq
        <5>5. text[i + 1] = b
          BY DEF b
        <5>6. SubSeq(text, i + 1, (i + 1) - 1) = <<>>
          BY <5>1, <5>3
        <5>7. SubSeq(text, i + 1, i + 1) = <<>> \o <<b>>
          BY <5>2, <5>5, <5>6, Zenon
        <5> QED
          BY <5>4, <5>7, Zenon
      <4>2. LET r == appendPaste(replayed, SubSeq(text, i + 1, i + 1))
            IN  /\ r \in DecoderType /\ Keeping(r, text, i + 1)
                /\ r.st = replayed.st /\ r.cr = replayed.cr
        BY <1>1, <1>6, <2>2, <2>4, AppendKeeps
      <4> QED
        BY <2>4, <4>1, <4>2
    <3> HIDE DEF more
    <3>3. /\ e.pmatch = 0 /\ e.st = "paste" /\ e.cr = FALSE
          /\ e.pover = more.pover /\ e.paste = more.paste
      BY <3>2 DEF DecoderType
    <3> HIDE DEF e
    <3>4. feed(d, b).k = e /\ feed(d, b).evs = <<>> /\ d' = e
      BY <1>7, <3>1 DEF Out
    <3>5. (i + 1) - 0 = i + 1 /\ ~(i + 1 > n)
      BY <1>6, <2>5, <2>7
    <3>6. Keeping(e, text, i + 1)
      BY <3>2, <3>3 DEF Keeping
    <3>7. Matching(d, c, i + 1)'
      BY <1>6, <3>3, <3>4, <3>5, <3>6 DEF Matching, text, n
    <3> QED
      BY <1>10, <2>2, <3>3, <3>4, <3>7
  <2> QED
    BY <2>6, <2>7
<1> QED
  BY <1>11, <1>12, <1>13
-----------------------------------------------------------------------------
(* The invariant. *)

LEMMA InitIInv == Init => IInv
<1> SUFFICES ASSUME Init PROVE IInv
  OBVIOUS
<1>1. <<>> \in Seq(Events) /\ <<>> \o <<>> = <<>>
  BY EmptySeq, ConcatEmptySeq
<1>2. d.st = "ground" /\ d.cr = FALSE /\ d \in DecoderType
  BY InitialDecoder DEF Init, newKeyDecoder
<1>3. AtRest
  BY <1>1, <1>2 DEF Init, AtRest, Unfinished
<1> QED
  BY <1>1, <1>2, <1>3 DEF Init, IInv, AfterCR, OnTheWay

LEMMA UnfinishedType == Unfinished \in Seq(Events)
<1>1. <<>> \in Seq(Events) /\ <<Ignored>> \in Seq(Events)
  BY EventTypes, Singleton, EmptySeq
<1> QED
  BY <1>1 DEF Unfinished

\* Nothing is on the wire only between two gestures.
LEMMA NothingOnTheWire ==
  ASSUME Typed, OnTheWay, wire = <<>>
  PROVE  AtRest
<1>1. ASSUME NEW key \in Keys, Ahead(key.bytes, Len(key.bytes), key.means) PROVE FALSE
  BY <1>1, KeyFacts DEF Ahead
<1>2. ASSUME Ahead(newline, Len(newline), <<Ev("enter")>>) PROVE FALSE
  <2>1. newline \in {<<"CR">>, <<"LF">>, <<"CR", "LF">>}
    BY NewlineFacts DEF Typed
  <2>2. newline # <<>>
    BY <2>1
  <2> QED
    BY <1>2, <2>2 DEF Ahead
<1>3. ASSUME NEW c \in Contents, Ahead(PasteBytes(c), 4, PasteMeaning(c)) PROVE FALSE
  <2>1. Len(PasteBytes(c)) = Len(c) + 8 /\ Len(c) \in Nat /\ PasteBytes(c) = <<>>
    BY <1>3, PasteFacts DEF Ahead
  <2>2. Len(PasteBytes(c)) = 0
    BY <2>1
  <2> QED
    BY <2>1, <2>2
<1>4. ASSUME NEW g \in Seq(Bytes), NEW k \in 0..(Len(g) - 1), Unread(g, k) PROVE FALSE
  BY <1>4, ReadOne DEF Unread
<1>5. ASSUME NEW key \in Keys, NEW k \in 1..(Len(key.bytes) - 1), KeyOnTheWay(key.bytes, k) PROVE FALSE
  <2>1. key.bytes \in Seq(Bytes) /\ k \in 0..(Len(key.bytes) - 1)
    BY <1>5, KeyFacts
  <2> QED
    BY <1>4, <1>5, <2>1 DEF KeyOnTheWay
<1>6. ~NewlineOnTheWay
  BY DEF NewlineOnTheWay
<1>7. ASSUME NEW c \in Contents, NEW k \in 1..3, PasteStarts(c, k) PROVE FALSE
  <2>1. PasteBytes(c) \in Seq(Bytes) /\ k \in 0..(Len(PasteBytes(c)) - 1)
    BY <1>7, PasteFacts
  <2> QED
    BY <1>4, <1>7, <2>1 DEF PasteStarts
<1>8. ASSUME NEW c \in Contents, NEW i \in 0..(Len(c) + 3), PasteOnTheWay(c, i) PROVE FALSE
  <2>1. c \o pasteEnd \in Seq(Bytes) /\ i \in 0..(Len(c \o pasteEnd) - 1)
    BY <1>8, PasteFacts
  <2> QED
    BY <1>4, <1>8, <2>1 DEF PasteOnTheWay
<1> QED
  BY <1>1, <1>2, <1>3, <1>5, <1>6, <1>7, <1>8 DEF OnTheWay

\* A gesture begins between two others.
LEMMA GestureKeeps ==
  ASSUME IInv, NEW bytes, NEW f \in Nat, NEW events \in Seq(Events), Gesture(bytes, f, events)
  PROVE  /\ Ahead(bytes, f, events)' /\ Typed' /\ ended' \in BOOLEAN /\ ~ended'
<1>1. Typed /\ OnTheWay /\ wire = <<>>
  BY DEF IInv, Typed, Gesture
<1>2. AtRest
  BY <1>1, NothingOnTheWire
<1>3. d.st \in {"ground", "utf8"} /\ meant = got \o Unfinished
  BY <1>2 DEF AtRest, Gesture
<1>4. meant' = (got \o Unfinished) \o events
  BY <1>3 DEF Gesture
<1>5. (got \o Unfinished) \o events = got \o (Unfinished \o events)
  BY <1>1, UnfinishedType, EventsAssociate DEF Typed
<1>6. Unfinished' = Unfinished
  BY DEF Unfinished, Gesture
<1>7. Ahead(bytes, f, events)'
  BY <1>3, <1>4, <1>5, <1>6 DEF Ahead, Gesture
<1>8. meant' \in Seq(Events)
  BY <1>1, <1>4, <1>3, ConcatProperties DEF Typed
<1>9. Typed'
  BY <1>1, <1>8 DEF Typed, AfterCR, Gesture
<1> QED
  BY <1>7, <1>9 DEF Gesture, IInv

LEMMA PressKeyKeeps == IInv /\ PressKey => IInv'
<1> SUFFICES ASSUME IInv, NEW key \in Keys, Gesture(key.bytes, Len(key.bytes), key.means)
             PROVE  IInv'
  BY DEF PressKey
<1>1. Len(key.bytes) \in Nat /\ key.means \in Seq(Events)
  BY KeyFacts
<1>2. Ahead(key.bytes, Len(key.bytes), key.means)' /\ Typed' /\ ~ended' /\ ended' \in BOOLEAN
  BY <1>1, GestureKeeps
<1> QED
  BY <1>2 DEF IInv, Typed, OnTheWay

LEMMA PressEnterKeeps == IInv /\ PressEnter => IInv'
<1> SUFFICES ASSUME IInv, Gesture(newline, Len(newline), <<Ev("enter")>>)
             PROVE  IInv'
  BY DEF PressEnter
<1>1. Len(newline) \in Nat /\ <<Ev("enter")>> \in Seq(Events)
  BY NewlineFacts DEF IInv
<1>2. /\ wire' = newline /\ firm' = Len(newline) /\ d'.st \in {"ground", "utf8"}
      /\ meant' = got' \o (Unfinished' \o <<Ev("enter")>>) /\ newline' = newline
      /\ Typed' /\ ~ended' /\ ended' \in BOOLEAN
  BY <1>1, GestureKeeps DEF Ahead, Gesture
<1>3. Ahead(newline, Len(newline), <<Ev("enter")>>)'
  BY <1>2 DEF Ahead
<1> QED
  BY <1>2, <1>3 DEF IInv, Typed, OnTheWay

LEMMA PasteTextKeeps == IInv /\ PasteText => IInv'
<1> SUFFICES ASSUME IInv, NEW c \in Contents,
                    Gesture(pasteStart \o c \o pasteEnd, Len(pasteStart), PasteMeaning(c))
             PROVE  IInv'
  BY DEF PasteText, PasteMeaning
<1>1. PasteMeaning(c) \in Seq(Events) /\ Len(pasteStart) = 4 /\ c \in Seq(Bytes)
  BY PasteFacts, Markers
<1>2. pasteStart \o c \o pasteEnd = PasteBytes(c)
  <2>1. (pasteStart \o c) \o pasteEnd = pasteStart \o (c \o pasteEnd)
    <3> DEFINE p == pasteStart
               e == pasteEnd
    <3>1. p \in Seq(Bytes) /\ e \in Seq(Bytes)
      BY Markers
    <3> HIDE DEF p, e
    <3>2. (p \o c) \o e = p \o (c \o e)
      BY <1>1, <3>1, ConcatAssociative
    <3> QED
      BY <3>2 DEF p, e
  <2> QED
    BY <2>1 DEF PasteBytes
<1>3. Ahead(PasteBytes(c), 4, PasteMeaning(c))' /\ Typed' /\ ~ended' /\ ended' \in BOOLEAN
  BY <1>1, <1>2, GestureKeeps
<1> QED
  BY <1>3 DEF IInv, Typed, OnTheWay

LEMMA FeedKeeps == IInv /\ Feed => IInv'
<1> SUFFICES ASSUME IInv, Feed PROVE IInv'
  OBVIOUS
<1>1. Typed /\ OnTheWay /\ ~ended
  BY DEF IInv, Typed, Feed, Closed
<1>2. Kept
  <2>1. ~AtRest
    BY DEF AtRest, Feed
  <2>2. ASSUME NEW key \in Keys, NEW k \in 1..(Len(key.bytes) - 1), KeyOnTheWay(key.bytes, k) PROVE Kept
    BY <1>1, <2>2, EscapeContinues, RuneContinues
  <2> QED
    BY <1>1, <2>1, <2>2, KeyBegins, EnterBegins, PasteBegins, NewlineEnds, StartMarkerContinues,
       PasteContinues DEF OnTheWay
<1>3. d' \in DecoderType /\ got' \in Seq(Events)
  <2>1. feed(d, Head(wire)).k \in DecoderType /\ feed(d, Head(wire)).evs \in Seq(Events)
    BY <1>1, <1>2, FeedType DEF Typed, Kept
  <2> QED
    BY <1>1, <2>1, ConcatProperties DEF Typed, Feed, Decoded
<1>4. /\ meant' \in Seq(Events) /\ newline' \in Newlines /\ firm' \in Nat
      /\ ended' \in BOOLEAN /\ ~ended'
  BY <1>1 DEF IInv, Feed
<1> QED
  BY <1>2, <1>3, <1>4 DEF IInv, Kept

\* What the timeout and the end of the input have in common.
LEMMA FlushKeeps ==
  ASSUME Typed, Decoded(flush(d)), meant' = meant, newline' = newline
  PROVE  /\ d' \in DecoderType /\ d'.st = "ground" /\ d'.cr = d.cr
         /\ got' = got \o Unfinished /\ got' \in Seq(Events)
         /\ meant' \in Seq(Events) /\ newline' \in Newlines /\ AfterCR'
<1>1. /\ flush(d).k \in DecoderType /\ flush(d).evs = Unfinished
      /\ flush(d).k.st = "ground" /\ flush(d).k.cr = d.cr
  BY FlushType DEF Typed, Unfinished
<1>2. got' \in Seq(Events)
  BY <1>1, UnfinishedType, ConcatProperties DEF Typed, Decoded
<1> QED
  BY <1>1, <1>2 DEF Typed, AfterCR, Decoded

LEMMA TimeoutKeeps == IInv /\ Timeout => IInv'
<1> SUFFICES ASSUME IInv, Timeout PROVE IInv'
  OBVIOUS
<1>1. Typed /\ OnTheWay /\ ~ended /\ pending(d) /\ firm = 0
  BY DEF IInv, Typed, Timeout, Closed, pending
<1>2. AtRest
  <2>1. ASSUME NEW key \in Keys, Ahead(key.bytes, Len(key.bytes), key.means) PROVE FALSE
    BY <1>1, <2>1, KeyFacts DEF Ahead
  <2>2. ASSUME Ahead(newline, Len(newline), <<Ev("enter")>>) PROVE FALSE
    BY <1>1, <2>2, NewlineFacts DEF Ahead, Typed
  <2>3. ASSUME NEW c \in Contents, Ahead(PasteBytes(c), 4, PasteMeaning(c)) PROVE FALSE
    BY <1>1, <2>3 DEF Ahead
  <2>4. ASSUME NEW key \in Keys, NEW k \in 1..(Len(key.bytes) - 1), KeyOnTheWay(key.bytes, k) PROVE FALSE
    <3>1. Len(key.bytes) \in Nat
      BY KeyFacts
    <3>2. Len(key.bytes) - k = 0
      BY <1>1, <2>4 DEF KeyOnTheWay
    <3> QED
      BY <3>1, <3>2
  <2>5. ~NewlineOnTheWay
    BY <1>1 DEF NewlineOnTheWay
  <2>6. ASSUME NEW c \in Contents, NEW k \in 1..3, PasteStarts(c, k) PROVE FALSE
    <3>1. 4 - k = 0
      BY <1>1, <2>6 DEF PasteStarts
    <3> QED
      BY <3>1
  <2>7. ASSUME NEW c \in Contents, NEW i \in 0..(Len(c) + 3), PasteOnTheWay(c, i) PROVE FALSE
    BY <1>1, <2>7 DEF PasteOnTheWay, pending
  <2> QED
    BY <1>1, <2>1, <2>2, <2>3, <2>4, <2>5, <2>6, <2>7 DEF OnTheWay
<1>3. /\ d' \in DecoderType /\ d'.st = "ground"
      /\ got' = got \o Unfinished /\ got' \in Seq(Events)
      /\ meant' \in Seq(Events) /\ newline' \in Newlines /\ AfterCR'
  BY <1>1, FlushKeeps DEF Timeout
<1>4. AtRest'
  <2>1. got' \o <<>> = got'
    BY <1>3, ConcatEmptySeq
  <2> QED
    BY <1>2, <1>3, <2>1 DEF AtRest, Unfinished, Timeout
<1> QED
  BY <1>1, <1>3, <1>4 DEF IInv, OnTheWay, Timeout

\* Wherever the decoder is in a gesture, what it has said was meant.
LEMMA SaidWasMeant ==
  ASSUME Typed, OnTheWay
  PROVE  IsPrefix(got, meant)
<1>1. ASSUME NEW owed \in Seq(Events), meant = got \o owed PROVE IsPrefix(got, meant)
  BY <1>1, PrefixOfConcat DEF Typed
<1>2. CASE AtRest
  BY <1>1, <1>2, UnfinishedType DEF AtRest
<1>3. ASSUME NEW g, NEW f, NEW events \in Seq(Events), Ahead(g, f, events) PROVE IsPrefix(got, meant)
  <2>1. Unfinished \o events \in Seq(Events)
    BY UnfinishedType, ConcatProperties
  <2> QED
    BY <1>1, <1>3, <2>1 DEF Ahead
<1>4. ASSUME NEW key \in Keys, NEW k, KeyOnTheWay(key.bytes, k) PROVE IsPrefix(got, meant)
  <2>1. KeyMeaning(key.bytes) \in Seq(Events)
    BY KeyFacts
  <2> QED
    BY <1>1, <1>4, <2>1 DEF KeyOnTheWay
<1>5. CASE NewlineOnTheWay
  <2>1. <<>> \in Seq(Events) /\ got \o <<>> = got
    BY EmptySeq, ConcatEmptySeq DEF Typed
  <2> QED
    BY <1>1, <1>5, <2>1 DEF NewlineOnTheWay
<1>6. ASSUME NEW c \in Contents PROVE PasteMeaning(c) \in Seq(Events)
  BY PasteFacts
<1>7. <<Ev("enter")>> \in Seq(Events) /\ \A key \in Keys : key.means \in Seq(Events)
  BY EventTypes, Singleton, KeyFacts
<1> QED
  BY <1>1, <1>2, <1>3, <1>4, <1>5, <1>6, <1>7 DEF OnTheWay, PasteStarts, PasteOnTheWay

LEMMA InputEndsKeeps == IInv /\ InputEnds => IInv'
<1> SUFFICES ASSUME IInv, InputEnds PROVE IInv'
  OBVIOUS
<1>1. Typed /\ OnTheWay
  BY DEF IInv, Typed, InputEnds
<1>2. /\ d' \in DecoderType /\ d'.st = "ground"
      /\ got' = got \o Unfinished /\ got' \in Seq(Events)
      /\ meant' \in Seq(Events) /\ newline' \in Newlines /\ AfterCR' /\ meant' = meant
  BY <1>1, FlushKeeps DEF InputEnds
<1>3. IsPrefix(got, meant)
  BY <1>1, SaidWasMeant
<1>4. Closed'
  <2>1. CASE d.st = "ground"
    <3>1. got' = got
      BY <1>1, <1>2, <2>1, ConcatEmptySeq DEF Unfinished, Typed
    <3> QED
      BY <1>2, <1>3, <3>1 DEF Closed, InputEnds
  <2>2. CASE d.st # "ground"
    <3>1. got' = got \o <<Ignored>>
      BY <1>2, <2>2 DEF Unfinished
    <3>2. got' # <<>> /\ Last(got') = Ignored /\ Front(got') = got
      BY <1>1, <3>1, EventTypes, LastAndFront DEF Typed
    <3> QED
      BY <1>2, <1>3, <3>2 DEF Closed, InputEnds
  <2> QED
    BY <2>1, <2>2
<1> QED
  BY <1>2, <1>4 DEF IInv, InputEnds

LEMMA StepKeepsIInv == IInv /\ [Next]_vars => IInv'
<1> SUFFICES ASSUME IInv, [Next]_vars PROVE IInv'
  OBVIOUS
<1>1. CASE UNCHANGED vars
  <2> USE <1>1 DEF vars
  <2>1. AtRest' = AtRest
    BY DEF AtRest, Unfinished
  <2>2. \A g, f, events : Ahead(g, f, events)' = Ahead(g, f, events)
    BY DEF Ahead, Unfinished
  <2>3. \A g, k : KeyOnTheWay(g, k)' = KeyOnTheWay(g, k)
    BY DEF KeyOnTheWay, Unread, InEscape, InRune
  <2>4. NewlineOnTheWay' = NewlineOnTheWay
    BY DEF NewlineOnTheWay
  <2>5. \A c, k : PasteStarts(c, k)' = PasteStarts(c, k)
    BY DEF PasteStarts, Unread, InEscape
  <2>6. \A c, i : PasteOnTheWay(c, i)' = PasteOnTheWay(c, i)
    BY DEF PasteOnTheWay, Unread
  <2>7. Ahead(newline, Len(newline), <<Ev("enter")>>) => Ahead(newline, Len(newline), <<Ev("enter")>>)'
    BY DEF Ahead, Unfinished
  <2>8. OnTheWay => OnTheWay'
    BY <2>1, <2>2, <2>3, <2>4, <2>5, <2>6, <2>7 DEF OnTheWay
  <2>9. Closed' = Closed /\ AfterCR' = AfterCR
    BY DEF Closed, AfterCR
  <2> QED
    BY <2>8, <2>9 DEF IInv
<1> QED
  BY <1>1, PressKeyKeeps, PressEnterKeeps, PasteTextKeeps, FeedKeeps, TimeoutKeeps, InputEndsKeeps
     DEF Next

LEMMA AlwaysIInv == Spec => []IInv
BY InitIInv, StepKeepsIInv, PTL DEF Spec
-----------------------------------------------------------------------------
\* keyDecoder and its pump: for every set of keys, every content of a paste and
\* every limit, what is decoded is what was meant.
THEOREM DecodedAsMeantAlways == Spec => []DecodedAsMeant
<1>1. IInv => DecodedAsMeant
  <2> SUFFICES ASSUME IInv PROVE DecodedAsMeant
    OBVIOUS
  <2>1. CASE ended
    BY <2>1 DEF IInv, Closed, DecodedAsMeant
  <2>2. CASE ~ended
    <3>1. Typed /\ OnTheWay
      BY <2>2 DEF IInv, Typed
    <3>2. ASSUME wire = <<>>, ~pending(d) PROVE got = meant
      <4>1. AtRest
        BY <3>1, <3>2, NothingOnTheWire
      <4>2. d.st = "ground" /\ meant = got \o <<>>
        BY <3>2, <4>1 DEF AtRest, pending, Unfinished
      <4> QED
        BY <3>1, <4>2, ConcatEmptySeq DEF Typed
    <3> QED
      BY <2>2, <3>1, <3>2, SaidWasMeant DEF DecodedAsMeant
  <2> QED
    BY <2>1, <2>2
<1> QED
  BY <1>1, AlwaysIInv, PTL
=============================================================================
