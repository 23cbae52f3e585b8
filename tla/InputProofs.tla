----------------------------- MODULE InputProofs -----------------------------
(***************************************************************************)
(* Proofs about what the program is given: the command line (CommandLine,  *)
(* for everything a user may mean), the bytes of an input (ReadBounded,    *)
(* for every limit and every kind of stream), the sources of the inputs    *)
(* (InputSources, for every set of command lines), and the servers and     *)
(* identifiers of links (Addresses, for every set of servers, every length *)
(* of identifiers and whatever is typed while a link is passed on).        *)
(*                                                                         *)
(* Bytes: a read that ends without an error has seen the end of the stream *)
(* or one byte more than the limit (WholeOrMore), and a buffer has one     *)
(* owner (OneOwner).                                                       *)
(*                                                                         *)
(* Sources: SourceOf says from the command line alone which source an      *)
(* input comes from. Step by step a command takes exactly the sources of   *)
(* the steps behind it (OnCourse), and where it has ended well no source   *)
(* was named that is not one of them (EverythingSupplied).                 *)
(*                                                                         *)
(* Links: ParseBaseURL keeps nothing of a server but scheme and host, and  *)
(* Normalize gives an identifier for its spellings and nothing else; the   *)
(* loop over the symbols is followed round by round. The invariant is that *)
(* a link keeps the scheme and the host it was made with (Addressed).      *)
(*                                                                         *)
(* Command line: the loops of splitCommand, parseInterleaved and the       *)
(* completions are tables with one entry per word (Recursion says that     *)
(* there is one, RankInduction reaches its entries). The parser takes the  *)
(* words of one item after the other (ItemParsed), so that it parses what  *)
(* the items mean (Parses); splitCommand passes over the options before    *)
(* the command (LeadingPassed, CommandFound). The completions depend on    *)
(* the roles of the words only (Grammar).                                  *)
(***************************************************************************)
EXTENDS InputSources, Addresses, ReadBounded, FiniteSetTheorems, SequenceTheorems,
        WellFoundedInduction, TLAPS

-----------------------------------------------------------------------------
(* ReadBounded. *)

WholeOrMore ==
  reading # "running" /\ ~failed =>
    /\ peer = "eof" \/ (peer # "writing" /\ length >= readLimit)
    /\ got = AtMost(length, readLimit)

OneOwner ==
  /\ caller = "deciding" => reading = "handed"
  /\ kind # "plain" /\ reading = "running" => caller = "waiting"
  /\ caller # "returned" => answer = "none"
  /\ answer = "data" => got = length /\ length <= Limit /\ peer = "eof" /\ reading = "handed"

ReadInv == ReadTypeOK /\ WholeOrMore /\ OneOwner

LEMMA AtMostBounds ==
  ASSUME NEW n \in Nat, NEW m \in Nat
  PROVE  /\ AtMost(n, m) \in 0..m /\ AtMost(n, m) <= n
         /\ AtMost(n, m) < m => AtMost(n, m) = n
BY DEF AtMost

LEMMA InitReadInv == ReadInit => ReadInv
<1> SUFFICES ASSUME ReadInit PROVE ReadInv
  OBVIOUS
<1>1. got \in 0..(Limit + 1) /\ length \in 0..(Limit + 2)
  BY BoundAssumption DEF ReadInit
<1>2. kind \in Kinds /\ canceled \in BOOLEAN /\ failed \in BOOLEAN /\ unwiped \in BOOLEAN
  BY DEF ReadInit
<1> QED
  BY <1>1, <1>2 DEF ReadInit, ReadInv, ReadTypeOK, WholeOrMore, OneOwner

LEMMA StepKeepsReadInv == ReadInv /\ [ReadNext]_readVars => ReadInv'
<1> SUFFICES ASSUME ReadInv, [ReadNext]_readVars PROVE ReadInv'
  OBVIOUS
<1> USE BoundAssumption DEF ReadInv, ReadTypeOK, WholeOrMore, OneOwner
<1>1. CASE PeerEnds
  <2>1. /\ peer = "writing" /\ peer' \in {"writing", "eof", "failed", "enough"}
        /\ UNCHANGED <<kind, length, canceled, closer, reading, got, failed, unwiped, caller, answer>>
    BY <1>1 DEF PeerEnds
  <2>2. reading = "running" \/ failed
    BY <2>1
  <2> QED
    BY <2>1, <2>2
<1>2. CASE Cancel
  BY <1>2 DEF Cancel
<1>9. CASE AfterFunc
  BY <1>9 DEF AfterFunc
<1>3. CASE ReadReturns
  <2>1. /\ length \in Nat /\ readLimit = Limit + 1 /\ readLimit \in Nat
        /\ AtMost(length, readLimit) \in 0..readLimit
    BY AtMostBounds DEF readLimit
  <2>2. got' \in 0..(Limit + 1) /\ failed' \in BOOLEAN
    <3>1. CASE WholeRead
      BY <2>1, <3>1 DEF WholeRead
    <3>2. CASE BrokenRead
      <4>1. failed' = TRUE /\ got' \in 0..AtMost(length, readLimit)
        BY <3>2 DEF BrokenRead
      <4> QED
        BY <2>1, <4>1
    <3> QED
      BY <1>3, <3>1, <3>2 DEF ReadReturns
  <2>3. ~failed' => /\ peer = "eof" \/ (peer # "writing" /\ length >= readLimit)
                    /\ got' = AtMost(length, readLimit)
    BY <1>3 DEF ReadReturns, WholeRead, BrokenRead
  <2>4. /\ reading' \in {"read", "handed"} /\ unwiped' = TRUE
        /\ closer' \in {"armed", "closed", "stopped"}
        /\ caller' \in {"waiting", "deciding", "returned"}
        /\ caller' = "deciding" => reading' = "handed"
        /\ caller' = "returned" => caller = "returned"
        /\ answer' = answer /\ length' = length /\ kind' = kind /\ peer' = peer
        /\ canceled' = canceled /\ reading = "running"
    BY <1>3 DEF ReadReturns
  <2>5. ReadTypeOK'
    BY <2>2, <2>4
  <2>6. WholeOrMore'
    BY <2>3, <2>4 DEF AtMost, readLimit
  <2>7. caller' # "returned" => answer' = "none"
    BY <1>3, <2>4 DEF ReadReturns
  <2> QED
    BY <2>4, <2>5, <2>6, <2>7
<1>4. CASE HandOver
  BY <1>4 DEF HandOver
<1>5. CASE GoroutineWipes
  BY <1>5 DEF GoroutineWipes
<1>6. CASE CallerCanceled
  BY <1>6 DEF CallerCanceled
<1>7. CASE Decide
  <2>1. answer' = "data" => ~failed /\ got <= Limit
    BY <1>7 DEF Decide, Verdict
  <2>2. answer' = "data" => got = length /\ length <= Limit /\ peer = "eof"
    <3>1. ~failed => /\ peer = "eof" \/ length >= readLimit
                     /\ got = AtMost(length, readLimit)
      BY <1>7 DEF Decide
    <3>2. length \in Nat /\ readLimit \in Nat /\ readLimit = Limit + 1
      BY DEF readLimit
    <3>3. AtMost(length, readLimit) < readLimit => AtMost(length, readLimit) = length
      BY <3>2, AtMostBounds
    <3> QED
      BY <2>1, <3>1, <3>2, <3>3
  <2>3. /\ answer' \in {"none", "data", "canceled", "local", "tooLong"} /\ unwiped' \in BOOLEAN
        /\ caller' = "returned" /\ reading = "handed"
    BY <1>7 DEF Decide, Verdict
  <2> QED
    BY <1>7, <2>2, <2>3 DEF Decide
<1>8. CASE UNCHANGED readVars
  BY <1>8 DEF readVars
<1> QED
  BY <1>1, <1>2, <1>3, <1>4, <1>5, <1>6, <1>7, <1>8, <1>9 DEF ReadNext, Program

LEMMA AlwaysReadInv == ReadSpec => []ReadInv
BY InitReadInv, StepKeepsReadInv, PTL DEF ReadSpec
-----------------------------------------------------------------------------
\* The reader, the callback and the caller stay in their states.
THEOREM ReadTypeCorrect == ReadSpec => []ReadTypeOK
<1>1. ReadInv => ReadTypeOK
  BY DEF ReadInv
<1> QED
  BY <1>1, AlwaysReadInv, PTL

\* readBounded: for every limit, accepted input is the whole input, even when the
\* callback closes the reader or the peer fails at the moment it ends.
THEOREM NeverTruncatedAlways == ReadSpec => []NeverTruncated
<1>1. ReadInv => NeverTruncated
  BY DEF ReadInv, OneOwner, NeverTruncated
<1> QED
  BY <1>1, AlwaysReadInv, PTL

\* readBounded: whichever of its two waits notices the cancellation, the result
\* is the cancellation, also when the data is there.
THEOREM CancellationDecidesAlways == ReadSpec => CancellationDecides
<1>1. [ReadNext]_readVars => [canceled /\ answer = "none" /\ answer' # "none" => answer' = "canceled"]_readVars
  BY DEF ReadNext, Program, PeerEnds, Cancel, AfterFunc, ReadReturns, HandOver, GoroutineWipes,
         CallerCanceled, Decide, Verdict
<1> QED
  BY <1>1, PTL DEF ReadSpec, CancellationDecides
-----------------------------------------------------------------------------
(* InputSources: what each step takes. *)

\* The source that an input of this invocation comes from, if it is taken.
SourceOf(role) ==
  CASE role = "text" -> IF Given(inv.main) THEN "main" ELSE "stdin"
    [] role = "target" -> IF inv.args = 1 THEN "argument" ELSE IF StdinPiped THEN "stdin" ELSE "terminal"
    [] role = "credential" ->
         IF inv.command = "create" /\ countSources(Credentials) = 0 THEN "generated"
         ELSE IF inv.file = "named" THEN "file" ELSE IF inv.fd = "high" THEN "fd" ELSE "terminal"
    [] role = "destination" -> "out"
    [] role = "blob" -> IF inv.main = "dash" THEN "stdin" ELSE "main"

Taken(roles) == {<<role, SourceOf(role)>> : role \in roles}

\* The steps that a command takes before another one.
Before(s) ==
  CASE inv.command = "create" ->
         CASE s = "plaintext" -> {} [] s = "credential" -> {"text"} [] OTHER -> {"text", "credential"}
    [] inv.command = "reveal" ->
         CASE s = "target" -> {} [] s = "credential" -> {"target"}
           [] s = "destination" -> {"target", "credential"}
           [] OTHER -> {"target", "credential", "destination"}
    [] inv.command = "burn" ->
         CASE s = "target" -> {} [] s = "credential" -> {"target"}
           [] OTHER -> IF Receipt THEN {"target"} ELSE {"target", "credential"}
    [] inv.command = "decrypt" ->
         CASE s = "destination" -> {} [] s = "credential" -> {"destination"}
           [] s = "blob" -> {"destination", "credential"}
           [] OTHER -> {"destination", "credential", "blob"}

\* The inputs settled by then: without --out there is no destination to prepare.
Settled == IF Given(inv.out) THEN Before(step) ELSE Before(step) \ {"destination"}

StepsOf ==
  CASE inv.command = "create" -> {"plaintext", "credential", "end"}
    [] inv.command = "reveal" -> {"target", "credential", "destination", "end"}
    [] inv.command = "burn" -> IF Receipt THEN {"target", "end"} ELSE {"target", "credential", "end"}
    [] inv.command = "decrypt" -> {"destination", "credential", "blob", "end"}

\* What is known of an invocation from its command.
InvocationOK ==
  /\ inv.command \in Commands
  /\ inv.server \in BOOLEAN /\ inv.json \in BOOLEAN /\ inv.ask \in BOOLEAN
  /\ inv.link \in BOOLEAN /\ inv.terminal \in BOOLEAN
  /\ inv.out \in {"absent", "empty", "dash", "named"}
  /\ inv.main \in {"absent", "empty", "dash", "named"}
  /\ inv.file \in {"absent", "empty", "dash", "named"}
  /\ inv.fd \in {"absent", "minus one", "low", "high"}
  /\ inv.stdin \in {"terminal", "piped", "device"}
  /\ inv.command = "burn" => ~inv.ask
  /\ inv.command \in {"reveal", "burn"} => inv.main = "absent"
  /\ inv.command \in {"create", "burn"} => inv.out = "absent"
  /\ inv.command \in {"create", "decrypt"} => ~inv.link

Roles == Before("end")

Untouched == used = {} /\ told = {}

\* A command that goes on has taken what its steps so far need, and nothing else.
OnCourse ==
  /\ ~Conflicts
  /\ step \in StepsOf
  /\ used = Taken(Settled)
  /\ "target" \in Before(step) =>
       /\ inv.args \in {0, 1} /\ told = TellTarget
       /\ inv.command = "reveal" => inv.link
  /\ "credential" \in Before(step) => inv.file # "dash" /\ inv.fd # "low"

SourcesInv ==
  /\ step = "line" => Untouched /\ outcome = "running"
  /\ step # "line" =>
       /\ InvocationOK
       /\ outcome \in {"running", "refused", "failed", "ready"}
       /\ step = "end" <=> outcome # "running"
       /\ step = "checks" => Untouched
       /\ step # "checks" /\ outcome \in {"running", "ready"} => OnCourse
       /\ used \subseteq Taken(Roles)
       /\ Conflicts => used = {} /\ outcome \in {"running", "refused"}

-----------------------------------------------------------------------------
(* countSources, and what the other conditions mean for an invocation. *)

LEMMA CountOneMore ==
  ASSUME NEW S, IsFiniteSet(S), NEW T, NEW k, k \notin S, NEW c \in BOOLEAN,
         T = IF c THEN S \union {k} ELSE S
  PROVE  IsFiniteSet(T) /\ Cardinality(T) = Cardinality(S) + (IF c THEN 1 ELSE 0)
<1>1. Cardinality(S) \in Nat
  BY FS_CardinalityType
<1>2. CASE c
  <2>1. T = S \union {k}
    BY <1>2
  <2>2. IsFiniteSet(S \union {k}) /\ Cardinality(S \union {k}) = Cardinality(S) + 1
    BY FS_AddElement
  <2> QED
    BY <1>2, <2>1, <2>2
<1>3. CASE ~c
  BY <1>1, <1>3
<1> QED
  BY <1>2, <1>3

LEMMA CountThree ==
  ASSUME NEW a \in BOOLEAN, NEW b \in BOOLEAN, NEW c \in BOOLEAN
  PROVE  /\ countSources(<<a, b, c>>) \in Nat
         /\ countSources(<<a, b, c>>) = 0 <=> ~a /\ ~b /\ ~c
         /\ countSources(<<a, b, c>>) > 1 <=> (a /\ b) \/ (a /\ c) \/ (b /\ c)
<1> DEFINE A == IF a THEN {} \union {1} ELSE {}
           B == IF b THEN A \union {2} ELSE A
           C == IF c THEN B \union {3} ELSE B
<1>1. {i \in DOMAIN <<a, b, c>> : <<a, b, c>>[i]} = C
  OBVIOUS
<1>2. IsFiniteSet({}) /\ Cardinality({}) = 0
  BY FS_EmptySet
<1>3. 1 \notin {} /\ 2 \notin A /\ 3 \notin B
  OBVIOUS
<1>4. IsFiniteSet(A) /\ Cardinality(A) = 0 + (IF a THEN 1 ELSE 0)
  <2>1. A = IF a THEN {} \union {1} ELSE {}
    OBVIOUS
  <2> HIDE DEF A
  <2> QED
    BY <1>2, <1>3, <2>1, CountOneMore
<1>5. IsFiniteSet(B) /\ Cardinality(B) = Cardinality(A) + (IF b THEN 1 ELSE 0)
  <2>1. B = IF b THEN A \union {2} ELSE A
    OBVIOUS
  <2> HIDE DEF A, B
  <2> QED
    BY <1>3, <1>4, <2>1, CountOneMore
<1>6. Cardinality(C) = Cardinality(B) + (IF c THEN 1 ELSE 0)
  <2>1. C = IF c THEN B \union {3} ELSE B
    OBVIOUS
  <2> HIDE DEF B, C
  <2> QED
    BY <1>3, <1>5, <2>1, CountOneMore
<1>7. countSources(<<a, b, c>>) = Cardinality(C)
  BY <1>1 DEF countSources
<1> HIDE DEF A, B, C
<1> QED
  BY <1>4, <1>5, <1>6, <1>7

LEMMA CountTwo ==
  ASSUME NEW a \in BOOLEAN, NEW b \in BOOLEAN
  PROVE  countSources(<<a, b>>) > 1 <=> a /\ b
<1> DEFINE A == IF a THEN {} \union {1} ELSE {}
           B == IF b THEN A \union {2} ELSE A
<1>1. {i \in DOMAIN <<a, b>> : <<a, b>>[i]} = B
  OBVIOUS
<1>2. IsFiniteSet({}) /\ Cardinality({}) = 0
  BY FS_EmptySet
<1>3. 1 \notin {} /\ 2 \notin A
  OBVIOUS
<1>4. IsFiniteSet(A) /\ Cardinality(A) = 0 + (IF a THEN 1 ELSE 0)
  <2>1. A = IF a THEN {} \union {1} ELSE {}
    OBVIOUS
  <2> HIDE DEF A
  <2> QED
    BY <1>2, <1>3, <2>1, CountOneMore
<1>5. Cardinality(B) = Cardinality(A) + (IF b THEN 1 ELSE 0)
  <2>1. B = IF b THEN A \union {2} ELSE A
    OBVIOUS
  <2> HIDE DEF A, B
  <2> QED
    BY <1>3, <1>4, <2>1, CountOneMore
<1>6. countSources(<<a, b>>) = Cardinality(B)
  BY <1>1 DEF countSources
<1> HIDE DEF A, B
<1> QED
  BY <1>4, <1>5, <1>6

Several == (inv.ask /\ Given(inv.file)) \/ (inv.ask /\ Given(inv.fd)) \/ (Given(inv.file) /\ Given(inv.fd))

\* What the options for a credential come to.
LEMMA CredentialFacts ==
  ASSUME InvocationOK
  PROVE  /\ Given(inv.file) <=> inv.file \in {"dash", "named"}
         /\ Given(inv.fd) <=> inv.fd \in {"low", "high"}
         /\ countSources(Credentials) > 1 <=> Several
         /\ countSources(Credentials) = 0 <=> ~inv.ask /\ ~Given(inv.file) /\ ~Given(inv.fd)
         /\ countSources(Credentials) > 0 <=> inv.ask \/ Given(inv.file) \/ Given(inv.fd)
         /\ countSources(<<Given(inv.file), Given(inv.fd)>>) > 1 <=> Given(inv.file) /\ Given(inv.fd)
<1>1. inv.ask \in BOOLEAN /\ Given(inv.file) \in BOOLEAN /\ Given(inv.fd) \in BOOLEAN
  BY DEF InvocationOK, Given
<1>2. /\ countSources(Credentials) \in Nat
      /\ countSources(Credentials) = 0 <=> ~inv.ask /\ ~Given(inv.file) /\ ~Given(inv.fd)
      /\ countSources(Credentials) > 1 <=> Several
  BY <1>1, CountThree DEF Credentials, Several
<1>3. countSources(<<Given(inv.file), Given(inv.fd)>>) > 1 <=> Given(inv.file) /\ Given(inv.fd)
  BY <1>1, CountTwo
<1>4. Given(inv.file) <=> inv.file \in {"dash", "named"}
  BY DEF InvocationOK, Given
<1>5. Given(inv.fd) <=> inv.fd \in {"low", "high"}
  BY DEF InvocationOK, Given
<1>6. countSources(Credentials) > 0 <=> ~(countSources(Credentials) = 0)
  BY <1>2
<1> QED
  BY <1>2, <1>3, <1>4, <1>5, <1>6
-----------------------------------------------------------------------------
(* The order of the steps. *)

RoleAt(s) ==
  CASE s = "plaintext" -> "text" [] s = "target" -> "target" [] s = "credential" -> "credential"
    [] s = "destination" -> "destination" [] s = "blob" -> "blob"

LEMMA FollowingStep ==
  ASSUME InvocationOK, NEW s \in StepsOf, s # "end"
  PROVE  /\ After(s) \in StepsOf
         /\ Before(After(s)) = Before(s) \union {RoleAt(s)}
         /\ RoleAt(s) \in Roles /\ RoleAt(s) \notin Before(s) /\ Before(s) \subseteq Roles
         /\ Before(After(s)) \subseteq Roles
<1> USE DEF StepsOf, After, Before, RoleAt, Roles
<1>1. CASE inv.command = "create"
  BY <1>1
<1>2. CASE inv.command = "reveal"
  <2>1. ~Receipt
    BY <1>2 DEF Receipt
  <2> QED
    BY <1>2, <2>1
<1>3. CASE inv.command = "burn"
  BY <1>3
<1>4. CASE inv.command = "decrypt"
  BY <1>4
<1> QED
  BY <1>1, <1>2, <1>3, <1>4 DEF InvocationOK, Commands

LEMMA StartOfCourse ==
  ASSUME InvocationOK
  PROVE  FirstStep \in StepsOf /\ Before(FirstStep) = {} /\ FirstStep # "end" /\ FirstStep # "checks"
<1> USE DEF StepsOf, Before, FirstStep
<1>1. CASE inv.command = "create"
  BY <1>1
<1>2. CASE inv.command = "reveal"
  BY <1>2
<1>3. CASE inv.command = "burn"
  BY <1>3
<1>4. CASE inv.command = "decrypt"
  BY <1>4
<1> QED
  BY <1>1, <1>2, <1>3, <1>4 DEF InvocationOK, Commands

\* The invocation is fixed once the command runs.
LEMMA SameInvocation ==
  ASSUME UNCHANGED invocation
  PROVE  /\ inv' = inv /\ Receipt' = Receipt /\ InvocationOK' = InvocationOK /\ Conflicts' = Conflicts
         /\ StepsOf' = StepsOf /\ Roles' = Roles /\ TellTarget' = TellTarget
         /\ \A s : Before(s)' = Before(s)
         /\ \A r : SourceOf(r)' = SourceOf(r)
         /\ Given(inv.out)' = Given(inv.out)
BY DEF inv, InvocationOK, Conflicts, CreateConflicts, RevealConflicts, BurnConflicts, DecryptConflicts,
       StepsOf, Roles, TellTarget, Before, SourceOf, Given, StdinPiped, Receipt, Credentials, Unusable,
       countSources
-----------------------------------------------------------------------------
(* How a step goes on or ends. *)

\* The part of OnCourse that is not about used.
CourseOf(s, said) ==
  /\ "target" \in Before(s) =>
       /\ inv.args \in {0, 1} /\ said = TellTarget
       /\ inv.command = "reveal" => inv.link
  /\ "credential" \in Before(s) => inv.file # "dash" /\ inv.fd # "low"

LEMMA Unsettled ==
  ASSUME SourcesInv, At(step), step \notin {"line", "checks"}
  PROVE  /\ InvocationOK /\ ~Conflicts /\ step \in StepsOf /\ step # "end"
         /\ used = Taken(Settled) /\ CourseOf(step, told) /\ used \subseteq Taken(Roles)
BY DEF SourcesInv, At, OnCourse, CourseOf

LEMMA SameTaken ==
  ASSUME UNCHANGED invocation, NEW roles
  PROVE  Taken(roles)' = Taken(roles)
BY SameInvocation DEF Taken

\* A step that ends the command leaves at most its own input behind.
LEMMA EndKeeps ==
  ASSUME SourcesInv, At(step), step \notin {"line", "checks"}, UNCHANGED invocation,
         used' \subseteq used \union {<<RoleAt(step), SourceOf(RoleAt(step))>>},
         End("refused") \/ End("failed")
  PROVE  SourcesInv'
<1>1. /\ InvocationOK' /\ ~Conflicts' /\ Taken(Roles)' = Taken(Roles)
  <2>1. InvocationOK /\ ~Conflicts
    BY Unsettled
  <2>2. Taken(Roles)' = Taken(Roles)
    BY SameInvocation DEF Taken
  <2> QED
    BY <2>1, <2>2, SameInvocation
<1>2. used' \subseteq Taken(Roles)
  <2>1. RoleAt(step) \in Roles /\ used \subseteq Taken(Roles)
    BY Unsettled, FollowingStep
  <2> QED
    BY <2>1 DEF Taken
<1>3. step' = "end" /\ outcome' \in {"refused", "failed"}
  BY DEF End
<1> QED
  BY <1>1, <1>2, <1>3 DEF SourcesInv

\* A step that goes on has taken its own input.
LEMMA ContinueKeeps ==
  ASSUME SourcesInv, At(step), step \notin {"line", "checks"}, UNCHANGED invocation, Continue,
         used' = IF RoleAt(step) = "destination" /\ ~Given(inv.out) THEN used
                 ELSE used \union {<<RoleAt(step), SourceOf(RoleAt(step))>>},
         CourseOf(After(step), told')
  PROVE  SourcesInv'
<1>1. /\ InvocationOK /\ ~Conflicts /\ step \in StepsOf /\ step # "end" /\ used = Taken(Settled)
  BY Unsettled
<1>2. /\ After(step) \in StepsOf /\ Before(After(step)) = Before(step) \union {RoleAt(step)}
      /\ Before(After(step)) \subseteq Roles /\ RoleAt(step) \notin Before(step)
  BY <1>1, FollowingStep
<1>3. /\ step' = After(step) /\ outcome' = IF After(step) = "end" THEN "ready" ELSE "running"
      /\ After(step) \notin {"line", "checks"}
  BY <1>1, <1>2 DEF Continue, StepsOf, InvocationOK, Commands
<1>4. /\ InvocationOK' /\ ~Conflicts' /\ StepsOf' = StepsOf /\ Before(step)' = Before(After(step))
      /\ Given(inv.out)' = Given(inv.out)
  <2>1. inv' = inv /\ Receipt' = Receipt
    BY SameInvocation
  <2>2. Before(step)' = Before(After(step))
    BY <1>3, <2>1 DEF Before
  <2> QED
    BY <1>1, <2>2, SameInvocation
<1>5. used' = Taken(Settled)'
  <2>1. Settled' = IF Given(inv.out) THEN Before(After(step)) ELSE Before(After(step)) \ {"destination"}
    BY <1>4 DEF Settled
  <2>2. Settled' = IF RoleAt(step) = "destination" /\ ~Given(inv.out) THEN Settled
                   ELSE Settled \union {RoleAt(step)}
    BY <1>2, <2>1 DEF Settled
  <2>3. Taken(Settled)' = {<<r, SourceOf(r)>> : r \in Settled'}
    BY SameInvocation DEF Taken
  <2>4. Taken(Settled) = {<<r, SourceOf(r)>> : r \in Settled}
    BY DEF Taken
  <2> QED
    BY <1>1, <2>2, <2>3, <2>4
<1>6. used' \subseteq Taken(Roles)'
  <2>1. Settled' \subseteq Roles'
    BY <1>2, <1>4, SameInvocation DEF Settled
  <2> QED
    BY <1>5, <2>1 DEF Taken
<1>7. OnCourse'
  <2>1. TellTarget' = TellTarget /\ inv' = inv
    BY SameInvocation
  <2> QED
    BY <1>2, <1>3, <1>4, <1>5, <2>1 DEF OnCourse, CourseOf
<1> QED
  BY <1>3, <1>4, <1>6, <1>7 DEF SourcesInv

\* Take and Refuse, as most of the steps use them.
LEMMA TakeKeeps ==
  ASSUME SourcesInv, At(step), step \notin {"line", "checks"}, UNCHANGED invocation,
         \/ Take(RoleAt(step), SourceOf(RoleAt(step))) /\ RoleAt(step) # "destination"
         \/ Refuse,
         outcome' \in {"running", "ready"} => CourseOf(After(step), told')
  PROVE  SourcesInv'
<1>1. CASE Refuse
  BY <1>1, EndKeeps DEF Refuse
<1>2. CASE Take(RoleAt(step), SourceOf(RoleAt(step))) /\ RoleAt(step) # "destination"
  <2>1. used' = used \union {<<RoleAt(step), SourceOf(RoleAt(step))>>}
    BY <1>2 DEF Take
  <2>2. CASE Continue
    <3>1. outcome' \in {"running", "ready"}
      BY <2>2 DEF Continue
    <3> QED
      BY <1>2, <2>1, <2>2, <3>1, ContinueKeeps
  <2>3. CASE End("refused") \/ End("failed")
    BY <2>1, <2>3, EndKeeps
  <2> QED
    BY <1>2, <2>2, <2>3 DEF Take
<1> QED
  BY <1>1, <1>2

\* What was known of the course stays known, until it is the target's turn.
LEMMA CourseGoesOn ==
  ASSUME SourcesInv, At(step), step \notin {"line", "checks", "target", "credential"}, told' = told
  PROVE  CourseOf(After(step), told')
<1>1. /\ InvocationOK /\ step \in StepsOf /\ step # "end" /\ CourseOf(step, told)
  BY Unsettled
<1>2. Before(After(step)) = Before(step) \union {RoleAt(step)}
  BY <1>1, FollowingStep
<1>3. RoleAt(step) \notin {"target", "credential"}
  BY <1>1 DEF StepsOf, RoleAt, InvocationOK, Commands
<1> QED
  BY <1>1, <1>2, <1>3 DEF CourseOf
-----------------------------------------------------------------------------
(* Each step keeps the invariant. *)

LEMMA InitSourcesInv == Init => SourcesInv
BY DEF Init, SourcesInv, Untouched

LEMMA RunCommandKeeps == SourcesInv /\ RunCommand => SourcesInv'
<1> SUFFICES ASSUME SourcesInv, RunCommand PROVE SourcesInv'
  OBVIOUS
<1>1. PICK streams \in StreamsType :
        /\ result.command \in {"create", "decrypt"} => ~streams.link
        /\ invocation' = Options(result, streams)
  BY DEF RunCommand
<1>2. /\ inv'.command = result.command /\ result.command \in Commands
      /\ inv'.server \in BOOLEAN /\ inv'.json \in BOOLEAN /\ inv'.ask \in BOOLEAN
      /\ inv'.command = "burn" => ~inv'.ask
  <2>1. inv'.command = result.command /\ result.command \in Commands
    BY <1>1 DEF RunCommand, Options, inv
  <2>2. inv'.server = ("server" \in DOMAIN result.options)
    BY <1>1 DEF Options, inv
  <2>3. inv'.json = ("json" \in DOMAIN result.options /\ result.options["json"] = Word("true"))
    BY <1>1 DEF Options, inv
  <2>4. inv'.ask = (~(result.command = "burn") /\ "ask" \in DOMAIN result.options
                    /\ result.options["ask"] = Word("true"))
    BY <1>1 DEF Options, inv
  <2>5. inv'.server \in BOOLEAN
    BY <2>2
  <2>6. inv'.json \in BOOLEAN
    BY <2>3
  <2>7. inv'.ask \in BOOLEAN /\ (inv'.command = "burn" => ~inv'.ask)
    BY <2>1, <2>4
  <2> QED
    BY <2>1, <2>5, <2>6, <2>7
<1>3. /\ inv'.link = streams.link /\ inv'.stdin = streams.stdin /\ inv'.terminal = streams.terminal
  BY <1>1 DEF Options, inv
<1>4. /\ inv'.out \in {"absent", "empty", "dash", "named"}
      /\ inv'.command \in {"create", "burn"} => inv'.out = "absent"
  BY <1>1, <1>2 DEF Options, inv
<1>5. /\ inv'.main \in {"absent", "empty", "dash", "named"}
      /\ inv'.command \in {"reveal", "burn"} => inv'.main = "absent"
  BY <1>1, <1>2 DEF Options, inv
<1>6. inv'.file \in {"absent", "empty", "dash", "named"}
  BY <1>1 DEF Options, inv
<1>7. inv'.fd \in {"absent", "minus one", "low", "high"}
  BY <1>1 DEF Options, inv
<1>8. InvocationOK'
  <2>1. /\ streams.link \in BOOLEAN /\ streams.stdin \in {"terminal", "piped", "device"}
        /\ streams.terminal \in BOOLEAN
    BY DEF StreamsType
  <2> QED
    BY <1>1, <1>2, <1>3, <1>4, <1>5, <1>6, <1>7, <2>1 DEF InvocationOK
<1>9. step' = "checks" /\ used' = {} /\ told' = {} /\ outcome' = "running"
  BY DEF RunCommand, SourcesInv, Untouched
<1> QED
  BY <1>8, <1>9 DEF SourcesInv, Untouched

LEMMA CheckKeeps == SourcesInv /\ Check => SourcesInv'
<1> SUFFICES ASSUME SourcesInv, Check PROVE SourcesInv'
  OBVIOUS
<1>1. /\ step = "checks" /\ outcome = "running" /\ used' = {} /\ told' = {}
      /\ UNCHANGED invocation /\ InvocationOK
  BY DEF Check, At, SourcesInv, Untouched
<1>2. InvocationOK' /\ Conflicts' = Conflicts /\ StepsOf' = StepsOf /\ inv' = inv /\ Receipt' = Receipt
  BY <1>1, SameInvocation
<1>3. CASE ~Conflicts /\ step' = FirstStep /\ UNCHANGED outcome
  <2>1. /\ FirstStep \in StepsOf /\ Before(FirstStep) = {} /\ FirstStep # "end" /\ FirstStep # "checks"
        /\ FirstStep # "line"
    BY <1>1, StartOfCourse DEF StepsOf, InvocationOK, Commands
  <2>2. Before(step)' = {}
    BY <1>2, <1>3, <2>1 DEF Before
  <2>3. OnCourse'
    BY <1>1, <1>2, <1>3, <2>1, <2>2 DEF OnCourse, Settled, Taken
  <2> QED
    BY <1>1, <1>2, <1>3, <2>1, <2>3 DEF SourcesInv
<1>4. CASE End("refused")
  BY <1>1, <1>2, <1>4 DEF SourcesInv, End
<1> QED
  BY <1>3, <1>4 DEF Check

LEMMA ReadPlaintextKeeps == SourcesInv /\ ReadPlaintext => SourcesInv'
<1> SUFFICES ASSUME SourcesInv, ReadPlaintext PROVE SourcesInv'
  OBVIOUS
<1>1. /\ At(step) /\ step = "plaintext" /\ UNCHANGED invocation /\ told' = told
      /\ Take("text", IF Given(inv.main) THEN "main" ELSE "stdin")
  BY DEF ReadPlaintext, At
<1>2. RoleAt(step) = "text" /\ SourceOf("text") = IF Given(inv.main) THEN "main" ELSE "stdin"
  BY <1>1 DEF RoleAt, SourceOf
<1>3. CourseOf(After(step), told')
  BY <1>1, CourseGoesOn
<1>4. step \notin {"line", "checks"} /\ RoleAt(step) # "destination"
      /\ Take(RoleAt(step), SourceOf(RoleAt(step)))
  BY <1>1, <1>2
<1> QED
  BY <1>1, <1>3, <1>4, TakeKeeps

LEMMA ReadBlobKeeps == SourcesInv /\ ReadBlob => SourcesInv'
<1> SUFFICES ASSUME SourcesInv, ReadBlob PROVE SourcesInv'
  OBVIOUS
<1>1. /\ At(step) /\ step = "blob" /\ UNCHANGED invocation /\ told' = told
      /\ Take("blob", IF inv.main = "dash" THEN "stdin" ELSE "main")
  BY DEF ReadBlob, At
<1>2. RoleAt(step) = "blob" /\ SourceOf("blob") = IF inv.main = "dash" THEN "stdin" ELSE "main"
  BY <1>1 DEF RoleAt, SourceOf
<1>3. CourseOf(After(step), told')
  BY <1>1, CourseGoesOn
<1>4. step \notin {"line", "checks"} /\ RoleAt(step) # "destination"
      /\ Take(RoleAt(step), SourceOf(RoleAt(step)))
  BY <1>1, <1>2
<1> QED
  BY <1>1, <1>3, <1>4, TakeKeeps

LEMMA ReadTargetKeeps == SourcesInv /\ ReadTarget => SourcesInv'
<1> SUFFICES ASSUME SourcesInv, ReadTarget PROVE SourcesInv'
  OBVIOUS
<1>1. /\ At(step) /\ step = "target" /\ step \notin {"line", "checks"} /\ UNCHANGED invocation
      /\ RoleAt(step) = "target" /\ RoleAt(step) # "destination"
  BY DEF ReadTarget, At, RoleAt
<1>2. inv.args \in {0, 1}
  BY DEF ReadTarget
<1>3. Take("target", SourceOf("target")) \/ Refuse
  <2>1. SourceOf("target") =
          IF inv.args = 1 THEN "argument" ELSE IF StdinPiped THEN "stdin" ELSE "terminal"
    BY DEF SourceOf
  <2> QED
    BY <2>1 DEF ReadTarget, Terminal
<1>4. ASSUME outcome' \in {"running", "ready"}
      PROVE  CourseOf(After(step), told')
  <2>1. /\ InvocationOK /\ step \in StepsOf /\ step # "end"
    BY <1>1, Unsettled
  <2>2. Before(After(step)) = {"target"}
    <3>1. inv.command \in {"reveal", "burn"}
      BY <1>1, <2>1 DEF StepsOf, InvocationOK, Commands
    <3>2. Before(step) = {}
      BY <1>1, <3>1 DEF Before
    <3> QED
      BY <1>1, <2>1, <3>2, FollowingStep
  <2>3. told' = TellTarget
    BY <1>4 DEF ReadTarget
  <2>4. inv.command = "reveal" => inv.link
    <3> SUFFICES ASSUME inv.command = "reveal" PROVE inv.link
      OBVIOUS
    <3>1. After(step) = "credential"
      BY <1>1 DEF After, Receipt
    <3>2. outcome' = "running"
      BY <1>3, <1>4, <3>1 DEF Take, Refuse, Continue, End
    <3> QED
      BY <3>2 DEF ReadTarget
  <2> QED
    BY <1>2, <2>2, <2>3, <2>4 DEF CourseOf
<1>5. (Take(RoleAt(step), SourceOf(RoleAt(step))) /\ RoleAt(step) # "destination") \/ Refuse
  BY <1>1, <1>3
<1> QED
  BY <1>1, <1>4, <1>5, TakeKeeps

\* The course behind the credential.
LEMMA CredentialTaken ==
  ASSUME SourcesInv, At(step), step = "credential", told' = told, inv.file # "dash", inv.fd # "low"
  PROVE  CourseOf(After(step), told')
<1>1. /\ InvocationOK /\ step \in StepsOf /\ step # "end" /\ CourseOf(step, told)
  BY Unsettled
<1>2. Before(After(step)) = Before(step) \union {"credential"}
  BY <1>1, FollowingStep DEF RoleAt
<1> QED
  BY <1>1, <1>2 DEF CourseOf

LEMMA GeneratePhraseKeeps == SourcesInv /\ GeneratePhrase => SourcesInv'
<1> SUFFICES ASSUME SourcesInv, GeneratePhrase PROVE SourcesInv'
  OBVIOUS
<1>1. /\ At(step) /\ step = "credential" /\ step \notin {"line", "checks"} /\ UNCHANGED invocation
      /\ told' = told /\ RoleAt(step) = "credential"
  BY DEF GeneratePhrase, At, RoleAt
<1>2. CASE Refuse
  BY <1>1, <1>2, EndKeeps DEF Refuse
<1>3. CASE used' = used \union {<<"credential", "generated">>} /\ Continue
  <2>1. inv.file # "dash" /\ inv.fd # "low"
    <3>1. InvocationOK
      BY <1>1, Unsettled
    <3> QED
      BY <3>1, CredentialFacts DEF GeneratePhrase
  <2>2. SourceOf("credential") = "generated"
    BY DEF GeneratePhrase, SourceOf
  <2>3. CourseOf(After(step), told')
    BY <1>1, <2>1, CredentialTaken
  <2> QED
    BY <1>1, <1>3, <2>2, <2>3, ContinueKeeps
<1> QED
  BY <1>2, <1>3 DEF GeneratePhrase

LEMMA ReadCredentialKeeps == SourcesInv /\ ReadCredential => SourcesInv'
<1> SUFFICES ASSUME SourcesInv, ReadCredential PROVE SourcesInv'
  OBVIOUS
<1>1. /\ At(step) /\ step = "credential" /\ step \notin {"line", "checks"} /\ UNCHANGED invocation
      /\ told' = told /\ RoleAt(step) = "credential"
  BY DEF ReadCredential, At, RoleAt
<1>2. CASE Refuse
  BY <1>1, <1>2, EndKeeps DEF Refuse
<1>3. CASE ~Refuse
  <2>1. inv.file # "dash" /\ inv.fd # "low"
    BY <1>3 DEF ReadCredential
  <2>2. ~(inv.command = "create" /\ countSources(Credentials) = 0)
    <3>1. InvocationOK
      BY <1>1, Unsettled
    <3> QED
      BY <3>1, CredentialFacts DEF ReadCredential
  <2>3. SourceOf("credential") =
          IF inv.file = "named" THEN "file" ELSE IF inv.fd = "high" THEN "fd" ELSE "terminal"
    BY <2>2 DEF SourceOf
  <2>4. Take("credential", SourceOf("credential"))
    BY <1>3, <2>3 DEF ReadCredential, Terminal
  <2>5. CourseOf(After(step), told')
    BY <1>1, <2>1, CredentialTaken
  <2>6. Take(RoleAt(step), SourceOf(RoleAt(step))) /\ RoleAt(step) # "destination"
    BY <1>1, <2>4
  <2> QED
    BY <1>1, <2>5, <2>6, TakeKeeps
<1> QED
  BY <1>2, <1>3

LEMMA PrepareDestinationKeeps == SourcesInv /\ PrepareDestination => SourcesInv'
<1> SUFFICES ASSUME SourcesInv, PrepareDestination PROVE SourcesInv'
  OBVIOUS
<1>1. /\ At(step) /\ step = "destination" /\ step \notin {"line", "checks"} /\ UNCHANGED invocation
      /\ told' = told /\ RoleAt(step) = "destination" /\ SourceOf("destination") = "out"
  BY DEF PrepareDestination, At, RoleAt, SourceOf
<1>2. CourseOf(After(step), told')
  BY <1>1, CourseGoesOn
<1>3. CASE Refuse
  BY <1>1, <1>3, EndKeeps DEF Refuse
<1>4. CASE Given(inv.out) /\ used' = used \union {<<"destination", "out">>} /\ Continue
  BY <1>1, <1>2, <1>4, ContinueKeeps
<1>5. CASE used' = used \union {<<"destination", "out">>} /\ End("failed")
  BY <1>1, <1>5, EndKeeps
<1>6. CASE ~Given(inv.out) /\ used' = used /\ Continue
  BY <1>1, <1>2, <1>6, ContinueKeeps
<1> QED
  BY <1>3, <1>4, <1>5, <1>6 DEF PrepareDestination

LEMMA StepKeepsSourcesInv == SourcesInv /\ [Next]_vars => SourcesInv'
<1>1. SourcesInv /\ UNCHANGED sourceVars => SourcesInv'
  <2> SUFFICES ASSUME SourcesInv, UNCHANGED sourceVars PROVE SourcesInv'
    OBVIOUS
  <2>1. UNCHANGED <<invocation, step, used, told, outcome>>
    BY DEF sourceVars
  <2>2. /\ InvocationOK' = InvocationOK /\ Conflicts' = Conflicts /\ Taken(Roles)' = Taken(Roles)
        /\ OnCourse' = OnCourse
    BY <2>1 DEF inv, InvocationOK, Conflicts, CreateConflicts, RevealConflicts, BurnConflicts,
                DecryptConflicts, StepsOf, Roles, TellTarget, Before, SourceOf, Given, StdinPiped,
                Receipt, Credentials, Unusable, countSources, Taken, Settled, OnCourse
  <2> QED
    BY <2>1, <2>2 DEF SourcesInv, Untouched
<1>2. UNCHANGED vars => UNCHANGED sourceVars
  BY DEF vars
<1> QED
  BY <1>1, <1>2, RunCommandKeeps, CheckKeeps, ReadPlaintextKeeps, ReadTargetKeeps, GeneratePhraseKeeps,
     ReadCredentialKeeps, PrepareDestinationKeeps, ReadBlobKeeps DEF Next, Consume

LEMMA AlwaysSourcesInv == Spec => []SourcesInv
BY InitSourcesInv, StepKeepsSourcesInv, PTL DEF Spec
-----------------------------------------------------------------------------
(* What follows from it. *)

LEMMA MixedConflict ==
  ASSUME InvocationOK,
         \/ countSources(Credentials) > 1
         \/ Receipt /\ countSources(Credentials) > 0
         \/ inv.command \in {"reveal", "burn"} /\ inv.args = 1 /\ StdinPiped
         \/ inv.command = "create" /\ Given(inv.main) /\ StdinPiped
  PROVE  Conflicts
<1>1. CASE inv.command = "create"
  BY <1>1 DEF Conflicts, CreateConflicts, Receipt
<1>2. CASE inv.command = "reveal"
  BY <1>2 DEF Conflicts, RevealConflicts, Receipt
<1>3. CASE inv.command = "burn"
  <2>1. ~inv.ask
    BY <1>3 DEF InvocationOK
  <2> QED
    BY <1>3, <2>1, CredentialFacts DEF Conflicts, BurnConflicts, Receipt, Several
<1>4. CASE inv.command = "decrypt"
  BY <1>4 DEF Conflicts, DecryptConflicts, Receipt
<1> QED
  BY <1>1, <1>2, <1>3, <1>4 DEF InvocationOK, Commands

\* No source serves two inputs of a command, but the terminal may.
LEMMA SourcesApart ==
  ASSUME InvocationOK, NEW r \in Roles, NEW q \in Roles, r # q, SourceOf(r) = SourceOf(q)
  PROVE  SourceOf(r) = "terminal"
<1>1. CASE inv.command = "create"
  BY <1>1 DEF Roles, Before, SourceOf
<1>2. CASE inv.command = "reveal"
  BY <1>2 DEF Roles, Before, SourceOf
<1>3. CASE inv.command = "burn"
  BY <1>3 DEF Roles, Before, SourceOf
<1>4. CASE inv.command = "decrypt"
  BY <1>4 DEF Roles, Before, SourceOf
<1> QED
  BY <1>1, <1>2, <1>3, <1>4 DEF InvocationOK, Commands

LEMMA UsedApart ==
  ASSUME InvocationOK, used \subseteq Taken(Roles), NEW a \in used, NEW b \in used,
         a[1] = b[1] \/ (a[2] = b[2] /\ a[2] # "terminal")
  PROVE  a = b
<1>1. PICK r \in Roles : a = <<r, SourceOf(r)>>
  BY DEF Taken
<1>2. PICK q \in Roles : b = <<q, SourceOf(q)>>
  BY DEF Taken
<1>3. a[1] = r /\ a[2] = SourceOf(r) /\ b[1] = q /\ b[2] = SourceOf(q)
  BY <1>1, <1>2
<1>4. r = q
  BY <1>3, SourcesApart
<1> QED
  BY <1>1, <1>2, <1>4

\* The course at its end, for each command.
LEMMA EndOfCourse ==
  ASSUME InvocationOK, OnCourse, step = "end"
  PROVE  /\ {pair[1] : pair \in used} = Settled
         /\ SourcesUsed = {SourceOf(role) : role \in Settled}
<1>1. used = {<<role, SourceOf(role)>> : role \in Settled}
  BY DEF OnCourse, Taken
<1> HIDE DEF Settled
<1>2. \A role : <<role, SourceOf(role)>>[1] = role /\ <<role, SourceOf(role)>>[2] = SourceOf(role)
  OBVIOUS
<1>3. {pair[1] : pair \in used} = Settled
  BY <1>1, <1>2
<1>4. SourcesUsed = {SourceOf(role) : role \in Settled}
  <2>1. \A x : x \in SourcesUsed <=> \E pair \in used : x = pair[2]
    BY DEF SourcesUsed
  <2>2. \A pair : pair \in used <=> \E role \in Settled : pair = <<role, SourceOf(role)>>
    BY <1>1
  <2>3. \A x : x \in SourcesUsed <=> \E role \in Settled : x = SourceOf(role)
    <3>1. ASSUME NEW x \in SourcesUsed PROVE \E role \in Settled : x = SourceOf(role)
      <4>1. PICK pair \in used : x = pair[2]
        BY <2>1
      <4>2. PICK role \in Settled : pair = <<role, SourceOf(role)>>
        BY <2>2
      <4> QED
        BY <1>2, <4>1, <4>2
    <3>2. ASSUME NEW role \in Settled PROVE SourceOf(role) \in SourcesUsed
      <4>1. <<role, SourceOf(role)>> \in used
        BY <2>2
      <4> QED
        BY <1>2, <2>1, <4>1
    <3> QED
      BY <3>1, <3>2
  <2> QED
    BY <2>3
<1> QED
  BY <1>3, <1>4

LEMMA CredentialUsed ==
  ASSUME InvocationOK, ~Conflicts, inv.file # "dash", inv.fd # "low"
  PROVE  /\ inv.ask => SourceOf("credential") = "terminal"
         /\ Given(inv.file) => SourceOf("credential") = "file"
         /\ Given(inv.fd) => SourceOf("credential") = "fd"
<1>1. ~Several
  <2>1. CASE inv.command = "burn"
    <3>1. ~inv.ask
      BY <2>1 DEF InvocationOK
    <3> QED
      BY <2>1, <3>1, CredentialFacts DEF Conflicts, BurnConflicts, Several
  <2>2. CASE inv.command # "burn"
    <3>1. ~(countSources(Credentials) > 1)
      BY <2>2 DEF Conflicts, CreateConflicts, RevealConflicts, DecryptConflicts, InvocationOK, Commands
    <3> QED
      BY <3>1, CredentialFacts
  <2> QED
    BY <2>1, <2>2
<1>2. /\ Given(inv.file) <=> inv.file = "named"
      /\ Given(inv.fd) <=> inv.fd = "high"
      /\ countSources(Credentials) = 0 => ~inv.ask /\ ~Given(inv.file) /\ ~Given(inv.fd)
  BY CredentialFacts
<1>3. CASE inv.command = "create" /\ countSources(Credentials) = 0
  BY <1>2, <1>3
<1>4. CASE ~(inv.command = "create" /\ countSources(Credentials) = 0)
  <2>1. SourceOf("credential") =
          IF inv.file = "named" THEN "file" ELSE IF inv.fd = "high" THEN "fd" ELSE "terminal"
    BY <1>4 DEF SourceOf
  <2> QED
    BY <1>1, <1>2, <2>1 DEF Several
<1> QED
  BY <1>3, <1>4

LEMMA SuppliedCases ==
  ASSUME NEW s \in Supplied
  PROVE  \/ s = "main" /\ Given(inv.main) /\ inv.main # "dash"
         \/ s = "argument" /\ inv.args > 0
         \/ s = "stdin" /\ StdinPiped /\ (inv.command = "decrypt" => inv.main = "dash")
         \/ s = "terminal" /\ inv.ask
         \/ s = "file" /\ Given(inv.file)
         \/ s = "fd" /\ Given(inv.fd)
         \/ s = "out" /\ Given(inv.out)
BY DEF Supplied

LEMMA EverythingSupplied ==
  ASSUME InvocationOK, OnCourse, step = "end"
  PROVE  Supplied \subseteq SourcesUsed
<1> SUFFICES ASSUME NEW s \in Supplied PROVE \E role \in Settled : SourceOf(role) = s
  BY EndOfCourse
<1>1. ~Conflicts
  BY DEF OnCourse
<1>2. ~Given("absent")
  BY DEF Given
<1>3. CASE inv.command = "create"
  <2>1. "text" \in Settled /\ "credential" \in Settled /\ "credential" \in Before(step)
    BY <1>3 DEF Settled, Before
  <2>2. inv.args = 0 /\ inv.main # "dash" /\ ~(Given(inv.main) /\ StdinPiped)
    BY <1>1, <1>3 DEF Conflicts, CreateConflicts
  <2>3. SourceOf("text") = IF Given(inv.main) THEN "main" ELSE "stdin"
    BY DEF SourceOf
  <2>4. /\ inv.ask => SourceOf("credential") = "terminal"
        /\ Given(inv.file) => SourceOf("credential") = "file"
        /\ Given(inv.fd) => SourceOf("credential") = "fd"
    BY <1>1, <2>1, CredentialUsed DEF OnCourse
  <2>5. ~Given(inv.out)
    BY <1>2, <1>3 DEF InvocationOK
  <2>6. ~(inv.args > 0)
    BY <2>2
  <2> QED
    BY <1>3, <2>1, <2>2, <2>3, <2>4, <2>5, <2>6, SuppliedCases
<1>4. CASE inv.command = "decrypt"
  <2>1. /\ "blob" \in Settled /\ "credential" \in Settled /\ "credential" \in Before(step)
        /\ Given(inv.out) => "destination" \in Settled
    BY <1>4 DEF Settled, Before
  <2>2. inv.args = 0
    BY <1>1, <1>4 DEF Conflicts, DecryptConflicts
  <2>3. /\ SourceOf("blob") = IF inv.main = "dash" THEN "stdin" ELSE "main"
        /\ SourceOf("destination") = "out"
    BY DEF SourceOf
  <2>4. /\ inv.ask => SourceOf("credential") = "terminal"
        /\ Given(inv.file) => SourceOf("credential") = "file"
        /\ Given(inv.fd) => SourceOf("credential") = "fd"
    BY <1>1, <2>1, CredentialUsed DEF OnCourse
  <2>5. ~(inv.args > 0)
    BY <2>2
  <2> QED
    BY <1>4, <2>1, <2>2, <2>3, <2>4, <2>5, SuppliedCases
<1>5. CASE inv.command = "reveal"
  <2>1. /\ "target" \in Settled /\ "credential" \in Settled /\ "credential" \in Before(step)
        /\ "target" \in Before(step)
        /\ Given(inv.out) => "destination" \in Settled
    BY <1>5 DEF Settled, Before
  <2>2. inv.args \in {0, 1} /\ ~(inv.args = 1 /\ StdinPiped)
    BY <1>1, <1>5, <2>1 DEF Conflicts, RevealConflicts, OnCourse
  <2>3. /\ SourceOf("target") =
             IF inv.args = 1 THEN "argument" ELSE IF StdinPiped THEN "stdin" ELSE "terminal"
        /\ SourceOf("destination") = "out"
    BY DEF SourceOf
  <2>4. /\ inv.ask => SourceOf("credential") = "terminal"
        /\ Given(inv.file) => SourceOf("credential") = "file"
        /\ Given(inv.fd) => SourceOf("credential") = "fd"
    BY <1>1, <2>1, CredentialUsed DEF OnCourse
  <2>5. ~Given(inv.main)
    BY <1>2, <1>5 DEF InvocationOK
  <2>6. inv.args > 0 => inv.args = 1
    BY <2>2
  <2> QED
    BY <1>5, <2>1, <2>2, <2>3, <2>4, <2>5, <2>6, SuppliedCases
<1>6. CASE inv.command = "burn"
  <2>1. /\ "target" \in Settled /\ "target" \in Before(step)
        /\ ~Receipt => "credential" \in Settled /\ "credential" \in Before(step)
    BY <1>6 DEF Settled, Before
  <2>2. /\ inv.args \in {0, 1} /\ ~(inv.args = 1 /\ StdinPiped)
        /\ Receipt => ~Given(inv.file) /\ ~Given(inv.fd)
    BY <1>1, <1>6, <2>1 DEF Conflicts, BurnConflicts, OnCourse
  <2>3. SourceOf("target") =
          IF inv.args = 1 THEN "argument" ELSE IF StdinPiped THEN "stdin" ELSE "terminal"
    BY DEF SourceOf
  <2>4. /\ ~inv.ask
        /\ ~Receipt /\ Given(inv.file) => SourceOf("credential") = "file"
        /\ ~Receipt /\ Given(inv.fd) => SourceOf("credential") = "fd"
    BY <1>1, <1>6, <2>1, CredentialUsed DEF OnCourse, InvocationOK
  <2>5. ~Given(inv.main) /\ ~Given(inv.out)
    BY <1>2, <1>6 DEF InvocationOK
  <2>6. inv.args > 0 => inv.args = 1
    BY <2>2
  <2> QED
    BY <1>6, <2>1, <2>2, <2>3, <2>4, <2>5, <2>6, SuppliedCases
<1> QED
  BY <1>3, <1>4, <1>5, <1>6 DEF InvocationOK, Commands

LEMMA SourcesInvCounts == SourcesInv => EverySourceCounts
<1> SUFFICES ASSUME SourcesInv PROVE EverySourceCounts
  OBVIOUS
<1>1. \A a, b \in used : (a[1] = b[1] \/ (a[2] = b[2] /\ a[2] # "terminal")) => a = b
  <2>1. CASE step = "line"
    BY <2>1 DEF SourcesInv, Untouched
  <2>2. CASE step # "line"
    BY <2>2, UsedApart DEF SourcesInv
  <2> QED
    BY <2>1, <2>2
<1>2. ASSUME outcome = "ready"
      PROVE  /\ Supplied \subseteq SourcesUsed
             /\ (inv.server /\ (inv.command = "reveal" \/ inv.link \/ Receipt)) => "server" \in told
             /\ {pair[1] : pair \in used} \union {"destination"} =
                  {"destination"} \union
                  CASE inv.command = "create" -> {"text", "credential"}
                    [] inv.command = "reveal" -> {"target", "credential"}
                    [] inv.command = "burn" -> IF Receipt THEN {"target"} ELSE {"target", "credential"}
                    [] inv.command = "decrypt" -> {"blob", "credential"}
  <2>1. step = "end" /\ OnCourse /\ InvocationOK
    BY <1>2 DEF SourcesInv
  <2>2. (inv.server /\ (inv.command = "reveal" \/ inv.link \/ Receipt)) => "server" \in told
    <3> SUFFICES ASSUME inv.server, inv.command = "reveal" \/ inv.link \/ Receipt
                 PROVE  "server" \in told
      OBVIOUS
    <3>1. "target" \in Before(step)
      BY <2>1 DEF Before, InvocationOK, Commands, Receipt
    <3> QED
      BY <2>1, <3>1 DEF OnCourse, TellTarget
  <2>3. {pair[1] : pair \in used} = Settled
    BY <2>1, EndOfCourse
  <2>4. Settled \union {"destination"} =
          {"destination"} \union
          CASE inv.command = "create" -> {"text", "credential"}
            [] inv.command = "reveal" -> {"target", "credential"}
            [] inv.command = "burn" -> IF Receipt THEN {"target"} ELSE {"target", "credential"}
            [] inv.command = "decrypt" -> {"blob", "credential"}
    <3>1. CASE inv.command = "create"
      BY <2>1, <3>1 DEF Settled, Before
    <3>2. CASE inv.command = "reveal"
      BY <2>1, <3>2 DEF Settled, Before
    <3>3. CASE inv.command = "burn"
      BY <2>1, <3>3 DEF Settled, Before
    <3>4. CASE inv.command = "decrypt"
      BY <2>1, <3>4 DEF Settled, Before
    <3> QED
      BY <2>1, <3>1, <3>2, <3>3, <3>4 DEF InvocationOK, Commands
  <2>5. Supplied \subseteq SourcesUsed
    BY <2>1, EverythingSupplied
  <2> QED
    BY <2>2, <2>3, <2>4, <2>5
<1> QED
  BY <1>1, <1>2 DEF EverySourceCounts

\* readPassphrase, readToken, readCreatePlaintext and the checks of the four
\* commands: for every set of command lines and whatever the streams are, no
\* source is left over when the command goes on, and none serves two inputs.
THEOREM EverySourceCountsAlways == Spec => []EverySourceCounts
BY SourcesInvCounts, AlwaysSourcesInv, PTL

\* The same commands: sources that exclude each other are refused unread.
THEOREM MixedSourcesStayUnreadAlways == Spec => []MixedSourcesStayUnread
<1>1. SourcesInv => MixedSourcesStayUnread
  BY MixedConflict DEF SourcesInv, MixedSourcesStayUnread
<1> QED
  BY <1>1, AlwaysSourcesInv, PTL
-----------------------------------------------------------------------------
(* Induction over the natural numbers, for sets of numbers. *)

LEMMA LeastNumber ==
  ASSUME NEW S, S \subseteq Nat, S # {}
  PROVE  \E x \in S : \A y \in S : x <= y
<1> DEFINE T == {0..n : n \in S}
<1>1. T \subseteq FiniteSubsetsOf(Nat) /\ T # {}
  <2>1. ASSUME NEW n \in S PROVE 0..n \in FiniteSubsetsOf(Nat)
    <3>1. n \in Int /\ 0 \in Int
      OBVIOUS
    <3>2. IsFiniteSet(0..n) /\ 0..n \subseteq Nat
      BY <3>1, FS_Interval
    <3> QED
      BY <3>2 DEF FiniteSubsetsOf
  <2> QED
    BY <2>1
<1>2. PICK t \in T : \A u \in T : ~(<<u, t>> \in StrictSubsetOrdering(Nat))
  <2> HIDE DEF T
  <2> QED
    BY <1>1, FS_StrictSubsetOrderingWellFounded, WFMin
<1>3. PICK m \in S : t = 0..m
  OBVIOUS
<1>4. ASSUME NEW k \in S PROVE m <= k
  <2>1. ~(0..k \subseteq 0..m /\ 0..k # 0..m)
    <3>1. 0..k \in T /\ 0..k \subseteq Nat /\ 0..m \subseteq Nat
      OBVIOUS
    <3>2. ~(<<0..k, 0..m>> \in StrictSubsetOrdering(Nat))
      BY <1>2, <1>3, <3>1
    <3>3. <<0..k, 0..m>> \in (SUBSET Nat) \X (SUBSET Nat)
      BY <3>1
    <3> QED
      BY <3>2, <3>3 DEF StrictSubsetOrdering
  <2>2. k \in Nat /\ m \in Nat
    OBVIOUS
  <2> SUFFICES ASSUME k < m PROVE FALSE
    BY <2>2
  <2>3. 0..k \subseteq 0..m /\ m \in 0..m /\ m \notin 0..k
    BY <2>2
  <2> QED
    BY <2>1, <2>3
<1> QED
  BY <1>4

LEMMA SetInduction ==
  ASSUME NEW S, 0 \in S, \A n \in Nat : n \in S => n + 1 \in S
  PROVE  Nat \subseteq S
<1> SUFFICES ASSUME Nat \ S # {} PROVE FALSE
  OBVIOUS
<1>1. PICK m \in Nat \ S : \A k \in Nat \ S : m <= k
  BY LeastNumber
<1>2. m # 0 /\ m - 1 \in Nat
  BY <1>1
<1>3. m - 1 \in S
  BY <1>1, <1>2
<1> QED
  BY <1>1, <1>2, <1>3
-----------------------------------------------------------------------------
(* The loop over the symbols of an identifier. *)

\* One round after the other, as far as m.
Rounds(raw, kept, m) ==
  [n \in 0..m |->
     IF n = 0 THEN <<>>
     ELSE IF raw[n] = "-" THEN kept[n - 1] ELSE Append(kept[n - 1], raw[n])]

LEMMA RoundsExist ==
  ASSUME NEW raw
  PROVE  \A m \in Nat : \E kept : kept = Rounds(raw, kept, m)
<1> DEFINE S == {m \in Nat : \E kept : kept = Rounds(raw, kept, m)}
<1>1. 0 \in S
  <2> DEFINE kept == [n \in 0..0 |-> <<>>]
  <2>1. kept = Rounds(raw, kept, 0)
    BY DEF Rounds
  <2> QED
    BY <2>1
<1>2. ASSUME NEW m \in Nat, m \in S PROVE m + 1 \in S
  <2>1. PICK kept : kept = Rounds(raw, kept, m)
    BY <1>2
  <2> DEFINE more == [n \in 0..(m + 1) |->
                        IF n <= m THEN kept[n]
                        ELSE IF raw[n] = "-" THEN kept[n - 1] ELSE Append(kept[n - 1], raw[n])]
  <2>2. \A n \in 0..m : kept[n] = IF n = 0 THEN <<>>
                                  ELSE IF raw[n] = "-" THEN kept[n - 1] ELSE Append(kept[n - 1], raw[n])
    <3> TAKE n \in 0..m
    <3> QED
      BY <2>1 DEF Rounds
  <2>3. \A n \in 0..m : more[n] = kept[n]
    OBVIOUS
  <2>4. \A n \in 0..(m + 1) : n # 0 => n - 1 \in 0..m /\ more[n - 1] = kept[n - 1]
    BY <2>3
  <2>5. \A n \in 0..(m + 1) :
          more[n] = IF n = 0 THEN <<>>
                    ELSE IF raw[n] = "-" THEN more[n - 1] ELSE Append(more[n - 1], raw[n])
    <3> TAKE n \in 0..(m + 1)
    <3>1. CASE n <= m
      <4>1. n \in 0..m /\ more[n] = kept[n]
        BY <2>3, <3>1
      <4> QED
        BY <2>2, <2>4, <4>1
    <3>2. CASE ~(n <= m)
      <4>1. more[n] = IF raw[n] = "-" THEN kept[n - 1] ELSE Append(kept[n - 1], raw[n])
        BY <3>2
      <4> QED
        BY <2>4, <3>2, <4>1
    <3> QED
      BY <3>1, <3>2
  <2>6. more = Rounds(raw, more, m + 1)
    <3>1. more = [n \in 0..(m + 1) |-> more[n]]
      OBVIOUS
    <3> HIDE DEF more
    <3> QED
      BY <2>5, <3>1 DEF Rounds
  <2> QED
    BY <2>6
<1>3. Nat \subseteq S
  <2> HIDE DEF S
  <2> QED
    BY <1>1, <1>2, SetInduction
<1> QED
  BY <1>3

LEMMA KeptLoop ==
  ASSUME NEW raw, Len(raw) \in Nat
  PROVE  \E kept : kept = Rounds(raw, kept, Len(raw)) /\ Kept(raw) = kept[Len(raw)]
<1>1. \E kept : kept = Rounds(raw, kept, Len(raw))
  BY RoundsExist
<1> DEFINE kept == CHOOSE kept : kept = Rounds(raw, kept, Len(raw))
<1>2. kept = Rounds(raw, kept, Len(raw))
  BY <1>1
<1>3. Kept(raw) = kept[Len(raw)]
  BY DEF Kept, Rounds
<1> QED
  BY <1>2, <1>3

LEMMA KeptOfSequence ==
  ASSUME NEW S, NEW raw \in Seq(S)
  PROVE  /\ Kept(raw) \in Seq(S)
         /\ (\A i \in 1..Len(raw) : raw[i] # "-") => Kept(raw) = raw
<1>1. Len(raw) \in Nat /\ \A i \in 1..Len(raw) : raw[i] \in S
  BY LenProperties, ElementOfSeq
<1>2. PICK kept : kept = Rounds(raw, kept, Len(raw)) /\ Kept(raw) = kept[Len(raw)]
  BY <1>1, KeptLoop
<1>3. \A n \in 0..Len(raw) :
        kept[n] = IF n = 0 THEN <<>>
                  ELSE IF raw[n] = "-" THEN kept[n - 1] ELSE Append(kept[n - 1], raw[n])
  <2> TAKE n \in 0..Len(raw)
  <2> QED
    BY <1>2 DEF Rounds
<1>4. \A n \in Nat : n + 1 <= Len(raw) =>
        kept[n + 1] = IF raw[n + 1] = "-" THEN kept[n] ELSE Append(kept[n], raw[n + 1])
  <2> SUFFICES ASSUME NEW n \in Nat, n + 1 <= Len(raw)
               PROVE  kept[n + 1] = IF raw[n + 1] = "-" THEN kept[n] ELSE Append(kept[n], raw[n + 1])
    OBVIOUS
  <2>1. n + 1 \in 0..Len(raw) /\ n + 1 # 0 /\ (n + 1) - 1 = n
    BY <1>1
  <2> QED
    BY <1>3, <2>1
<1> DEFINE P == {n \in Nat : n <= Len(raw) => kept[n] \in Seq(S)}
<1>5. 0 \in P
  <2>1. kept[0] = <<>>
    BY <1>1, <1>3
  <2> QED
    BY <2>1, EmptySeq
<1>6. ASSUME NEW n \in Nat, n \in P PROVE n + 1 \in P
  <2> SUFFICES ASSUME n + 1 <= Len(raw) PROVE kept[n + 1] \in Seq(S)
    OBVIOUS
  <2>1. kept[n] \in Seq(S) /\ raw[n + 1] \in S
    BY <1>1, <1>6
  <2>2. Append(kept[n], raw[n + 1]) \in Seq(S)
    BY <2>1, AppendProperties
  <2> QED
    BY <1>4, <2>1, <2>2
<1>7. Nat \subseteq P
  <2> HIDE DEF P
  <2> QED
    BY <1>5, <1>6, SetInduction
<1>8. \A n \in 0..Len(raw) : kept[n] \in Seq(S)
  BY <1>1, <1>7
<1>9. ASSUME \A i \in 1..Len(raw) : raw[i] # "-" PROVE Kept(raw) = raw
  <2> DEFINE Same(n) == Len(kept[n]) = n /\ \A i \in 1..n : kept[n][i] = raw[i]
             Q == {n \in Nat : n <= Len(raw) => Same(n)}
  <2>1. 0 \in Q
    <3>1. kept[0] = <<>>
      BY <1>1, <1>3
    <3> QED
      BY <3>1
  <2>2. ASSUME NEW n \in Nat, n \in Q PROVE n + 1 \in Q
    <3> SUFFICES ASSUME n + 1 <= Len(raw) PROVE Same(n + 1)
      OBVIOUS
    <3>1. Same(n) /\ kept[n] \in Seq(S) /\ raw[n + 1] \in S /\ raw[n + 1] # "-"
      BY <1>1, <1>8, <1>9, <2>2
    <3>2. kept[n + 1] = Append(kept[n], raw[n + 1])
      BY <1>4, <3>1
    <3>3. /\ Len(Append(kept[n], raw[n + 1])) = Len(kept[n]) + 1
          /\ \A i \in 1..Len(kept[n]) : Append(kept[n], raw[n + 1])[i] = kept[n][i]
          /\ Append(kept[n], raw[n + 1])[Len(kept[n]) + 1] = raw[n + 1]
      BY <3>1, AppendProperties
    <3> QED
      BY <3>1, <3>2, <3>3
  <2>3. Nat \subseteq Q
    <3> HIDE DEF Q
    <3> QED
      BY <2>1, <2>2, SetInduction
  <2>4. Same(Len(raw))
    BY <1>1, <2>3
  <2> QED
    BY <1>1, <1>2, <1>8, <2>4, SeqEqual
<1> QED
  BY <1>1, <1>2, <1>8, <1>9
-----------------------------------------------------------------------------
(* Identifiers and their spellings. *)

\* What may stand in an identifier as it is passed on.
Symbols == Typed \union alphabet

LEMMA FoldSpelling ==
  ASSUME NEW c, NEW d \in alphabet
  PROVE  fold(c) = d <=> c \in Spellings(d)
<1>1. CASE d = "0"
  BY <1>1 DEF fold, Spellings
<1>2. CASE d = "1"
  BY <1>2 DEF fold, Spellings
<1>3. CASE d = "A"
  BY <1>3 DEF fold, Spellings
<1> QED
  BY <1>1, <1>2, <1>3 DEF alphabet

\* Exactly the spellings of an identifier are normalised to it.
LEMMA NormalizeSpelling ==
  ASSUME NEW id \in Ids, NEW raw \in Seq(Symbols)
  PROVE  Normalize(raw) = id <=> IsSpelling(raw, id)
<1>1. /\ IdLength \in Nat \ {0} /\ id \in Seq(alphabet) /\ Len(id) = IdLength
      /\ DOMAIN id = 1..IdLength /\ \A i \in 1..IdLength : id[i] \in alphabet
  BY IdsAssumption, LenProperties, ElementOfSeq
<1> DEFINE kept == Kept(raw)
           folded == [i \in DOMAIN kept |-> fold(kept[i])]
<1>2. Len(kept) \in Nat /\ DOMAIN kept = 1..Len(kept)
  <2>1. kept \in Seq(Symbols)
    BY KeptOfSequence
  <2> QED
    BY <2>1, LenProperties
<1>3. DOMAIN folded = 1..Len(kept) /\ \A i \in 1..Len(kept) : folded[i] = fold(kept[i])
  BY <1>2
<1>4. Len(folded) = Len(kept)
  <2> HIDE DEF kept
  <2> QED
    BY <1>2
<1>5. Normalize(raw) = IF Len(folded) = IdLength /\ Range(folded) \subseteq alphabet THEN folded ELSE BadID
  BY DEF Normalize
<1>6. BadID # id
  BY <1>1 DEF BadID
<1>7. IsSpelling(raw, id) <=>
        Len(kept) = IdLength /\ \A i \in 1..IdLength : kept[i] \in Spellings(id[i])
  BY <1>1 DEF IsSpelling
<1>8. ASSUME Normalize(raw) = id PROVE IsSpelling(raw, id)
  <2>1. folded = id
    BY <1>5, <1>6, <1>8
  <2>2. Len(kept) = IdLength
    BY <1>1, <1>4, <2>1
  <2>3. \A i \in 1..IdLength : fold(kept[i]) = id[i]
    BY <1>3, <2>1, <2>2
  <2> HIDE DEF kept, folded
  <2>4. \A i \in 1..IdLength : kept[i] \in Spellings(id[i])
    BY <1>1, <2>3, FoldSpelling
  <2> QED
    BY <1>7, <2>2, <2>4
<1>9. ASSUME IsSpelling(raw, id) PROVE Normalize(raw) = id
  <2> HIDE DEF kept
  <2>1. Len(kept) = IdLength /\ \A i \in 1..IdLength : fold(kept[i]) = id[i]
    BY <1>1, <1>7, <1>9, FoldSpelling
  <2>2. folded = [i \in 1..IdLength |-> id[i]]
    BY <1>2, <2>1
  <2>3. id = [i \in 1..IdLength |-> id[i]]
    BY <1>1, LenProperties
  <2>4. folded = id
    BY <2>2, <2>3
  <2>5. Range(folded) \subseteq alphabet
    BY <1>1, <2>4 DEF Range
  <2> QED
    BY <1>1, <1>5, <2>4, <2>5
<1> QED
  BY <1>8, <1>9

LEMMA OwnSpelling ==
  ASSUME NEW id \in Ids
  PROVE  id \in Seq(Symbols) /\ Normalize(id) = id
<1>1. /\ id \in Seq(alphabet) /\ Len(id) = IdLength /\ IdLength \in Nat
      /\ DOMAIN id = 1..IdLength /\ \A i \in 1..IdLength : id[i] \in alphabet
  BY IdsAssumption, LenProperties, ElementOfSeq
<1>2. id \in Seq(Symbols)
  BY <1>1, SeqMonotonic DEF Symbols
<1>3. \A i \in 1..Len(id) : id[i] # "-"
  BY <1>1 DEF alphabet
<1>4. Kept(id) = id
  BY <1>1, <1>3, KeptOfSequence
<1>5. \A i \in 1..IdLength : id[i] \in Spellings(id[i])
  BY <1>1 DEF alphabet, Spellings
<1>6. IsSpelling(id, id)
  BY <1>1, <1>4, <1>5 DEF IsSpelling
<1> QED
  BY <1>2, <1>6, NormalizeSpelling

LEMMA BadIsNone ==
  ASSUME NEW id \in Ids
  PROVE  id # BadID
<1>1. Len(id) = IdLength /\ IdLength \in Nat \ {0}
  BY IdsAssumption
<1> QED
  BY <1>1 DEF BadID
-----------------------------------------------------------------------------
(* Texts of servers and links. *)

IsText(t) ==
  /\ t.spelling \in {"plain", "caps", "escaped"}
  /\ t.id \in Seq(Symbols)
  /\ t = [scheme |-> t.scheme, host |-> t.host, spelling |-> t.spelling, rest |-> t.rest,
          id |-> t.id]

Canonical(scheme, host) ==
  Text(scheme, host, IF host = "wide" THEN "escaped" ELSE "plain", "")

Origin(scheme, host) == Text(scheme, host, "plain", "")

IsServer(scheme, host) ==
  scheme \in {"http", "https"} /\ (scheme = "http" => loopbackHost(host))

LEMMA TextFields ==
  ASSUME NEW s, NEW h, NEW p, NEW r
  PROVE  /\ Text(s, h, p, r).scheme = s /\ Text(s, h, p, r).host = h
         /\ Text(s, h, p, r).spelling = p /\ Text(s, h, p, r).rest = r
         /\ p \in {"plain", "caps", "escaped"} => IsText(Text(s, h, p, r))
<1>1. /\ Text(s, h, p, r).scheme = s /\ Text(s, h, p, r).host = h
      /\ Text(s, h, p, r).spelling = p /\ Text(s, h, p, r).rest = r
  BY DEF Text
<1>2. Text(s, h, p, r).id = <<>> /\ <<>> \in Seq(Symbols)
  BY EmptySeq DEF Text
<1>3. Text(s, h, p, r) = [scheme |-> s, host |-> h, spelling |-> p, rest |-> r, id |-> <<>>]
  BY Zenon DEF Text
<1> QED
  BY <1>1, <1>2, <1>3, Zenon DEF IsText

LEMMA ParsedFields ==
  ASSUME NEW t, IsText(t)
  PROVE  /\ urlParse(t).scheme = t.scheme /\ urlParse(t).host = t.host
         /\ urlParse(t).rest = t.rest /\ urlParse(t).id = t.id
         /\ lower(urlParse(t)).scheme = t.scheme /\ lower(urlParse(t)).host = t.host
         /\ lower(urlParse(t)).spelling = "plain"
<1> DEFINE u == urlParse(t)
<1>1. /\ u = [scheme |-> t.scheme, host |-> t.host, spelling |-> u.spelling, rest |-> t.rest,
              id |-> t.id]
      /\ u.spelling \in {"plain", "caps"}
  BY DEF urlParse, IsText
<1> HIDE DEF u
<1>2. lower(u).scheme = u.scheme /\ lower(u).host = u.host /\ lower(u).spelling = "plain"
  BY <1>1 DEF lower
<1> QED
  BY <1>1, <1>2 DEF u

\* ParseBaseURL knows a server by its scheme and its host, however it is spelled.
LEMMA ParseBaseURLResult ==
  ASSUME NEW t, IsText(t)
  PROVE  ParseBaseURL(t) =
           IF IsServer(t.scheme, t.host) /\ t.rest \in {"", "/"}
           THEN Canonical(t.scheme, t.host) ELSE Refused
<1>1. urlString(lower(urlParse(t))) = Canonical(t.scheme, t.host)
  BY ParsedFields, Zenon DEF urlString, Canonical
<1> QED
  BY <1>1, ParsedFields DEF ParseBaseURL, IsServer

LEMMA ParseURLResult ==
  ASSUME NEW t, IsText(t), t.scheme \in {"http", "https"}, t.rest = "/s/"
  PROVE  /\ parseURL(t).id = Normalize(t.id)
         /\ Normalize(t.id) # BadID => parseURL(t).origin = Origin(t.scheme, t.host)
         /\ Normalize(t.id) = BadID => parseURL(t).origin = Refused
<1>1. Text(urlParse(t).scheme, urlParse(t).host, lower(urlParse(t)).spelling, "")
        = Origin(t.scheme, t.host)
  BY ParsedFields, Zenon DEF Origin
<1>2. /\ urlParse(t).scheme \in {"http", "https"} /\ urlParse(t).rest = "/s/"
      /\ Normalize(urlParse(t).id) = Normalize(t.id)
  BY ParsedFields
<1>3. CASE Normalize(t.id) # BadID
  BY <1>1, <1>2, <1>3 DEF parseURL
<1>4. CASE Normalize(t.id) = BadID
  BY <1>2, <1>4 DEF parseURL
<1> QED
  BY <1>3, <1>4

LEMMA RefusedStaysRefused == IsText(Refused) /\ ParseBaseURL(Refused) = Refused
<1>1. Refused.scheme = ""
  BY DEF Refused, Text
<1>2. IsText(Refused)
  BY TextFields, Zenon DEF Refused
<1> QED
  BY <1>1, <1>2, ParseBaseURLResult DEF IsServer

LEMMA CanonicalIsServer ==
  ASSUME NEW scheme, NEW host, IsServer(scheme, host)
  PROVE  /\ IsText(Canonical(scheme, host)) /\ IsText(Origin(scheme, host))
         /\ Canonical(scheme, host).scheme = scheme /\ Canonical(scheme, host).host = host
         /\ Canonical(scheme, host) # Refused
         /\ ParseBaseURL(Canonical(scheme, host)) = Canonical(scheme, host)
         /\ ParseBaseURL(Origin(scheme, host)) = Canonical(scheme, host)
         /\ host # "wide" => Canonical(scheme, host) = Origin(scheme, host)
<1>1. /\ IsText(Canonical(scheme, host)) /\ IsText(Origin(scheme, host))
      /\ Canonical(scheme, host).scheme = scheme /\ Canonical(scheme, host).host = host
      /\ Canonical(scheme, host).rest = ""
      /\ Origin(scheme, host).scheme = scheme /\ Origin(scheme, host).host = host
      /\ Origin(scheme, host).rest = ""
  <2> DEFINE p == IF host = "wide" THEN "escaped" ELSE "plain"
  <2>1. p \in {"plain", "caps", "escaped"} /\ "plain" \in {"plain", "caps", "escaped"}
    OBVIOUS
  <2> HIDE DEF p
  <2>2. IsText(Text(scheme, host, p, "")) /\ IsText(Text(scheme, host, "plain", ""))
    BY <2>1, TextFields, Zenon
  <2>3. /\ Canonical(scheme, host) = Text(scheme, host, p, "")
        /\ Origin(scheme, host) = Text(scheme, host, "plain", "")
    BY Zenon DEF Canonical, Origin, p
  <2>4. ASSUME NEW q
        PROVE  /\ Text(scheme, host, q, "").scheme = scheme
               /\ Text(scheme, host, q, "").host = host /\ Text(scheme, host, q, "").rest = ""
    BY DEF Text
  <2> QED
    BY <2>2, <2>3, <2>4, Zenon
<1>2. Canonical(scheme, host) # Refused
  <2>1. Refused.scheme = ""
    BY DEF Refused, Text
  <2> QED
    BY <1>1, <2>1 DEF IsServer
<1>3. host # "wide" => Canonical(scheme, host) = Origin(scheme, host)
  BY DEF Canonical, Origin
<1> QED
  BY <1>1, <1>2, <1>3, ParseBaseURLResult
LEMMA LinkFields ==
  ASSUME NEW server, IsText(server), NEW id \in Seq(Symbols)
  PROVE  /\ IsText(Link(server, id)) /\ Link(server, id).scheme = server.scheme
         /\ Link(server, id).host = server.host /\ Link(server, id).rest = "/s/"
         /\ Link(server, id).id = id
<1> DEFINE link == [scheme |-> server.scheme, host |-> server.host,
                    spelling |-> server.spelling, rest |-> "/s/", id |-> id]
<1>1. Link(server, id) = link
  BY DEF Link, Text
<1>2. IsText(link)
  BY DEF IsText
<1> QED
  BY <1>1, <1>2

\* The edits of a link leave all of it as it was but spelling and identifier.
LEMMA EditedFields ==
  ASSUME NEW t, IsText(t)
  PROVE  /\ \A spelling \in {"plain", "caps", "escaped"} :
              LET new == [t EXCEPT !.spelling = spelling] IN
                /\ IsText(new)
                /\ new.scheme = t.scheme /\ new.host = t.host /\ new.rest = t.rest
         /\ \A id \in Seq(Symbols) :
              LET new == [t EXCEPT !.id = id] IN
                /\ IsText(new)
                /\ new.scheme = t.scheme /\ new.host = t.host /\ new.rest = t.rest
<1>1. ASSUME NEW spelling \in {"plain", "caps", "escaped"}
      PROVE  LET new == [t EXCEPT !.spelling = spelling] IN
               /\ IsText(new)
               /\ new.scheme = t.scheme /\ new.host = t.host /\ new.rest = t.rest
  BY DEF IsText
<1>2. ASSUME NEW id \in Seq(Symbols)
      PROVE  LET new == [t EXCEPT !.id = id] IN
               /\ IsText(new)
               /\ new.scheme = t.scheme /\ new.host = t.host /\ new.rest = t.rest
  BY DEF IsText
<1> QED
  BY <1>1, <1>2, Zenon

LEMMA SelectedText ==
  ASSUME NEW s \in SelectionType
  PROVE  /\ IsText(resolveConfig(s.option, s.env))
         /\ s.option # Absent => resolveConfig(s.option, s.env) = s.option
<1>1. IsText(Absent) /\ IsText(defaultServer)
  BY TextFields, Zenon DEF Absent, defaultServer
<1>2. \A text \in Servers : IsText(text)
  <2> TAKE text \in Servers
  <2>1. /\ text = Text(text.scheme, text.host, text.spelling, text.rest)
        /\ text.spelling \in {"plain", "caps", "escaped"}
    BY ServersAssumption
  <2>2. IsText(Text(text.scheme, text.host, text.spelling, text.rest))
    BY <2>1, TextFields, Zenon
  <2> QED
    BY <2>1, <2>2, Zenon
<1>3. s.option \in Servers \union {Absent} /\ s.env \in Servers \union {Absent}
  BY DEF SelectionType
<1> QED
  BY <1>1, <1>2, <1>3 DEF resolveConfig

\* What a command makes of a link in somebody's hands: the server that the
\* link was made for, and its identifier exactly if it is spelled there.
LEMMA LinkLeadsBack ==
  ASSUME NEW t, IsText(t), NEW id \in Ids, IsServer(t.scheme, t.host), t.rest = "/s/",
         NEW server,
         server = IF parseURL(t).id = BadID THEN Refused ELSE ParseBaseURL(parseURL(t).origin)
  PROVE  (server = Canonical(t.scheme, t.host) /\ parseURL(t).id = id) <=> IsSpelling(t.id, id)
<1>1. t.scheme \in {"http", "https"} /\ t.id \in Seq(Symbols)
  BY DEF IsServer, IsText
<1>2. /\ parseURL(t).id = Normalize(t.id)
      /\ Normalize(t.id) # BadID => parseURL(t).origin = Origin(t.scheme, t.host)
  BY <1>1, ParseURLResult
<1>3. Normalize(t.id) = id <=> IsSpelling(t.id, id)
  BY <1>1, NormalizeSpelling
<1>4. Normalize(t.id) # BadID => server = Canonical(t.scheme, t.host)
  BY <1>2, CanonicalIsServer
<1> QED
  BY <1>2, <1>3, <1>4, BadIsNone
-----------------------------------------------------------------------------
(* The invariant of Addresses. *)

\* What create has handed out names the server it was told to use, and the
\* link is still one of that server, whoever has retyped it.
Addressed ==
  \E scheme, host : \E id \in Ids :
    /\ IsServer(scheme, host)
    /\ made.server = Canonical(scheme, host) /\ made.id = id
    /\ made.link = Link(Canonical(scheme, host), id)
    /\ made.server = ParseBaseURL(resolveConfig(selection.option, selection.env))
    /\ IsText(held)
    /\ held.scheme = scheme /\ held.host = host /\ held.rest = "/s/"

AddressInv ==
  /\ made # NotMade => Addressed
  /\ later # NotYet => made # NotMade
  /\ LeadsBack
  /\ NeverRedirectedSilently

LEMMA NothingAsked ==
  ASSUME later = NotYet
  PROVE  LeadsBack /\ NeverRedirectedSilently
<1>1. later.by = "none"
  BY DEF NotYet
<1> QED
  BY <1>1 DEF LeadsBack, NeverRedirectedSilently

LEMMA InitAddressInv ==
  ASSUME AddressInit
  PROVE  AddressInv
BY NothingAsked DEF AddressInit, AddressInv

LEMMA CreateKeepsAddressInv ==
  ASSUME AddressInv, Create
  PROVE  AddressInv'
<1>1. PICK id \in Ids :
        LET server == ParseBaseURL(resolveConfig(selection'.option, selection'.env)) IN
          /\ server # Refused
          /\ made' = [server |-> server, link |-> Link(server, id), id |-> id]
          /\ held' = Link(server, id)
  BY DEF Create
<1> DEFINE server == ParseBaseURL(resolveConfig(selection'.option, selection'.env))
           text == resolveConfig(selection'.option, selection'.env)
<1>2. IsText(text)
  BY SelectedText DEF Create
<1>3. server # Refused
  BY <1>1
<1>4. IsServer(text.scheme, text.host) /\ server = Canonical(text.scheme, text.host)
  BY <1>2, <1>3, ParseBaseURLResult
<1>5. /\ IsText(server) /\ server.scheme = text.scheme /\ server.host = text.host
  BY <1>4, CanonicalIsServer
<1>6. made'.server = server /\ made'.id = id /\ made'.link = Link(server, id) /\ held' = Link(server, id)
  BY <1>1
<1>7. id \in Seq(Symbols)
  BY OwnSpelling
<1>8. /\ IsText(held') /\ held'.scheme = text.scheme /\ held'.host = text.host
      /\ held'.rest = "/s/"
  <2> HIDE DEF server, text
  <2> QED
    BY <1>5, <1>6, <1>7, LinkFields
<1>9. Addressed'
  <2> HIDE DEF text
  <2> QED
    BY <1>4, <1>6, <1>8 DEF Addressed, text
<1>10. made' # NotMade
  BY <1>6, BadIsNone DEF NotMade
<1>11. later = NotYet /\ later' = later
  BY DEF AddressInv, Create
<1>12. later' = NotYet
  BY <1>11 DEF NotYet, Absent, Refused, BadID, Text
<1>13. (LeadsBack /\ NeverRedirectedSilently)'
  <2>1. later'.by = "none"
    BY <1>12 DEF NotYet
  <2> QED
    BY <2>1 DEF LeadsBack, NeverRedirectedSilently
<1> QED
  BY <1>9, <1>10, <1>13 DEF AddressInv

LEMMA PassingKeepsAddressInv ==
  ASSUME AddressInv, Passing
  PROVE  AddressInv'
<1>1. PICK scheme, host : \E id \in Ids :
        /\ IsServer(scheme, host)
        /\ made.server = Canonical(scheme, host) /\ made.id = id
        /\ made.link = Link(Canonical(scheme, host), id)
        /\ made.server = ParseBaseURL(resolveConfig(selection.option, selection.env))
        /\ IsText(held)
        /\ held.scheme = scheme /\ held.host = host /\ held.rest = "/s/"
  BY DEF AddressInv, Addressed, Passing
<1>2. \/ \E spelling \in {"plain", "caps", "escaped"} : Edit([held EXCEPT !.spelling = spelling])
      \/ \E id \in Seq(Symbols) : Edit([held EXCEPT !.id = id])
  <2>1. ASSUME RetypeHost PROVE \E spelling \in {"plain", "caps", "escaped"} : Edit([held EXCEPT !.spelling = spelling])
    BY <2>1 DEF RetypeHost
  <2>2. held.id \in Seq(Symbols) /\ Typed \subseteq Symbols
    BY <1>1 DEF IsText, Symbols
  <2>3. ASSUME RetypeSymbol PROVE \E id \in Seq(Symbols) : Edit([held EXCEPT !.id = id])
    <3>1. PICK i \in DOMAIN held.id, c \in Typed : Edit([held EXCEPT !.id[i] = c])
      BY <2>3 DEF RetypeSymbol
    <3>2. [held EXCEPT !.id[i] = c] = [held EXCEPT !.id = [held.id EXCEPT ![i] = c]]
      BY Zenon
    <3>3. [held.id EXCEPT ![i] = c] \in Seq(Symbols)
      BY <2>2, ExceptSeq
    <3> QED
      BY <3>1, <3>2, <3>3, Zenon
  <2>4. ASSUME AddSymbol PROVE \E id \in Seq(Symbols) : Edit([held EXCEPT !.id = id])
    <3>1. PICK i \in 1..Len(held.id) + 1, c \in Typed : Edit([held EXCEPT !.id = InsertAt(@, i, c)])
      BY <2>4 DEF AddSymbol
    <3>2. InsertAt(held.id, i, c) \in Seq(Symbols)
      <4>1. /\ SubSeq(held.id, 1, i - 1) \in Seq(Symbols)
            /\ SubSeq(held.id, i, Len(held.id)) \in Seq(Symbols)
            /\ <<c>> \in Seq(Symbols)
        BY <2>2
      <4> QED
        BY <4>1, ConcatProperties DEF InsertAt
    <3> QED
      BY <3>1, <3>2, Zenon
  <2>5. ASSUME LoseSymbol PROVE \E id \in Seq(Symbols) : Edit([held EXCEPT !.id = id])
    <3>1. PICK i \in DOMAIN held.id : Edit([held EXCEPT !.id = RemoveAt(@, i)])
      BY <2>5 DEF LoseSymbol
    <3>2. RemoveAt(held.id, i) \in Seq(Symbols)
      <4>1. /\ SubSeq(held.id, 1, i - 1) \in Seq(Symbols)
            /\ SubSeq(held.id, i + 1, Len(held.id)) \in Seq(Symbols)
        BY <2>2
      <4> QED
        BY <4>1, ConcatProperties DEF RemoveAt
    <3> QED
      BY <3>1, <3>2, Zenon
  <2> QED
    BY <2>1, <2>3, <2>4, <2>5 DEF Passing
<1>3. /\ IsText(held')
      /\ held'.scheme = held.scheme /\ held'.host = held.host /\ held'.rest = held.rest
  <2>1. IsText(held)
    BY <1>1
  <2>2. CASE \E spelling \in {"plain", "caps", "escaped"} : Edit([held EXCEPT !.spelling = spelling])
    <3>1. PICK spelling \in {"plain", "caps", "escaped"} : held' = [held EXCEPT !.spelling = spelling]
      BY <2>2 DEF Edit
    <3> QED
      BY <2>1, <3>1, EditedFields, Zenon
  <2>3. CASE \E id \in Seq(Symbols) : Edit([held EXCEPT !.id = id])
    <3>1. PICK id \in Seq(Symbols) : held' = [held EXCEPT !.id = id]
      BY <2>3 DEF Edit
    <3> QED
      BY <2>1, <3>1, EditedFields, Zenon
  <2> QED
    BY <1>2, <2>2, <2>3
<1>4. made' = made /\ selection' = selection /\ later' = later
  BY <1>2 DEF Edit
<1>5. Addressed'
  BY <1>1, <1>3, <1>4 DEF Addressed
<1>6. later = NotYet /\ made # NotMade
  BY DEF Passing
<1>7. (LeadsBack /\ NeverRedirectedSilently)'
  <2>1. later'.by = "none"
    BY <1>4, <1>6 DEF NotYet
  <2> QED
    BY <2>1 DEF LeadsBack, NeverRedirectedSilently
<1> QED
  BY <1>4, <1>5, <1>6, <1>7 DEF AddressInv, NotMade

LEMMA LaterCommandKeepsAddressInv ==
  ASSUME AddressInv, LaterCommand
  PROVE  AddressInv'
<1>1. PICK scheme, host : \E id \in Ids :
        /\ IsServer(scheme, host)
        /\ made.server = Canonical(scheme, host) /\ made.id = id
        /\ made.link = Link(Canonical(scheme, host), id)
        /\ made.server = ParseBaseURL(resolveConfig(selection.option, selection.env))
        /\ IsText(held)
        /\ held.scheme = scheme /\ held.host = host /\ held.rest = "/s/"
  BY DEF AddressInv, Addressed, LaterCommand
<1>2. made.id \in Ids
  BY <1>1
<1>3. UNCHANGED <<selection, made, held>> /\ made # NotMade
  BY DEF LaterCommand, RevealLink, BurnLink, BurnReceipt, BurnIdentifier, Address
<1>4. Addressed'
  BY <1>1, <1>3 DEF Addressed
<1>5. ASSUME RevealLink \/ BurnLink PROVE (LeadsBack /\ NeverRedirectedSilently)'
  <2> DEFINE target == parseURL(held)
             server == IF target.id = BadID THEN Refused ELSE ParseBaseURL(target.origin)
  <2>1. PICK s \in SelectionType :
          \E by \in {"reveal", "url"} :
            later' = [by |-> by, option |-> s.option, env |-> s.env, server |-> server,
                      id |-> target.id, told |-> s.option # Absent]
    BY <1>5 DEF RevealLink, BurnLink, Address
  <2> HIDE DEF target, server
  <2>2. /\ later'.by \in {"reveal", "url"} /\ later'.server = server /\ later'.id = target.id
        /\ later'.option = s.option /\ later'.told = (s.option # Absent)
    BY <2>1
  <2>3. (server = made.server /\ target.id = made.id) <=> IsSpelling(held.id, made.id)
    BY <1>1, LinkLeadsBack DEF target, server
  <2>4. FoundAgain' <=> IsSpelling(held.id, made.id)
    BY <1>3, <2>2, <2>3 DEF FoundAgain
  <2> QED
    BY <1>3, <2>2, <2>4 DEF LeadsBack, NeverRedirectedSilently
<1>6. ASSUME BurnReceipt PROVE (LeadsBack /\ NeverRedirectedSilently)'
  <2> DEFINE target == parseURL(made.link)
             base == ParseBaseURL(made.server)
             server == IF target.id = BadID THEN Refused
                       ELSE IF base = target.origin THEN base ELSE Refused
  <2>1. PICK s \in SelectionType :
          later' = [by |-> "receipt", option |-> s.option, env |-> s.env, server |-> server,
                    id |-> target.id, told |-> s.option # Absent]
    BY <1>6 DEF BurnReceipt, Address
  <2>2. /\ IsText(made.server) /\ made.server.scheme = scheme /\ made.server.host = host
        /\ base = made.server
        /\ host # "wide" => made.server = Origin(scheme, host)
    <3> DEFINE c == Canonical(scheme, host)
    <3>1. IsServer(scheme, host) /\ made.server = c
      BY <1>1
    <3>2. /\ IsText(c) /\ c.scheme = scheme /\ c.host = host /\ ParseBaseURL(c) = c
          /\ host # "wide" => c = Origin(scheme, host)
      BY <3>1, CanonicalIsServer, Zenon
    <3> HIDE DEF c
    <3> QED
      BY <3>1, <3>2
  <2>3. /\ IsText(made.link) /\ made.link.scheme = scheme /\ made.link.host = host
        /\ made.link.rest = "/s/" /\ made.link.id = made.id
    BY <1>1, <1>2, <2>2, LinkFields, OwnSpelling
  <2>4. target.id = made.id /\ target.origin = Origin(scheme, host) /\ made.id # BadID
    BY <1>1, <1>2, <2>3, ParseURLResult, OwnSpelling, BadIsNone DEF IsServer
  <2>5. made.server.host # "wide" => server = made.server
    BY <2>2, <2>4
  <2> HIDE DEF target, server
  <2>6. /\ later'.by = "receipt" /\ later'.server = server /\ later'.id = target.id
        /\ later'.option = s.option /\ later'.told = (s.option # Absent)
    BY <2>1
  <2>7. made.server.host # "wide" => FoundAgain'
    BY <1>3, <2>4, <2>5, <2>6 DEF FoundAgain
  <2> QED
    BY <1>3, <2>6, <2>7 DEF LeadsBack, NeverRedirectedSilently
<1>7. ASSUME BurnIdentifier PROVE (LeadsBack /\ NeverRedirectedSilently)'
  <2> DEFINE found == Normalize(held.id)
  <2>1. PICK s \in SelectionType :
          later' = [by |-> "identifier", option |-> s.option, env |-> s.env,
                    server |-> IF found = BadID THEN Refused
                               ELSE ParseBaseURL(resolveConfig(s.option, s.env)),
                    id |-> found, told |-> FALSE]
    BY <1>7 DEF BurnIdentifier, Address
  <2>2. (found = made.id) <=> IsSpelling(held.id, made.id)
    BY <1>1, NormalizeSpelling DEF IsText
  <2>3. made.id # BadID
    BY <1>2, BadIsNone
  <2> HIDE DEF found
  <2>4. /\ later'.by = "identifier" /\ later'.id = found /\ later'.option = s.option
        /\ later'.env = s.env
        /\ later'.server = IF found = BadID THEN Refused
                           ELSE ParseBaseURL(resolveConfig(s.option, s.env))
    BY <2>1
  <2>5. resolveConfig(s.option, s.env) = resolveConfig(selection.option, selection.env)
          => (FoundAgain' <=> IsSpelling(held.id, made.id))
    BY <1>1, <1>3, <2>2, <2>3, <2>4 DEF FoundAgain
  <2>6. LeadsBack'
    BY <1>3, <2>4, <2>5 DEF LeadsBack
  <2>7. NeverRedirectedSilently'
    BY <2>4, SelectedText DEF NeverRedirectedSilently
  <2> QED
    BY <2>6, <2>7
<1>8. (LeadsBack /\ NeverRedirectedSilently)'
  BY <1>5, <1>6, <1>7 DEF LaterCommand
<1>9. made' # NotMade
  BY <1>3 DEF NotMade, Absent, BadID, Text
<1> QED
  BY <1>4, <1>8, <1>9 DEF AddressInv

LEMMA StepKeepsAddressInv ==
  ASSUME AddressInv, [AddressNext]_addressVars
  PROVE  AddressInv'
<1>1. CASE UNCHANGED addressVars
  BY <1>1 DEF AddressInv, addressVars, Addressed, LeadsBack, NeverRedirectedSilently, FoundAgain,
              NotMade, NotYet, Absent, BadID, Refused, Text
<1> QED
  BY <1>1, CreateKeepsAddressInv, PassingKeepsAddressInv, LaterCommandKeepsAddressInv
     DEF AddressNext

THEOREM AlwaysAddressInv == AddressSpec => []AddressInv
<1>1. AddressInit => AddressInv
  BY InitAddressInv
<1>2. AddressInv /\ [AddressNext]_addressVars => AddressInv'
  BY StepKeepsAddressInv
<1> QED
  BY <1>1, <1>2, PTL DEF AddressSpec

\* However a link, an identifier or a receipt is spelled when it arrives, and
\* whatever options and environment say, reveal and burn find the server and
\* the secret that create made it for.
THEOREM LeadsBackAlways == AddressSpec => []LeadsBack
<1>1. AddressInv => LeadsBack
  BY DEF AddressInv
<1> QED
  BY <1>1, AlwaysAddressInv, PTL

\* A server named with --server is the one contacted, or the user is told.
THEOREM NeverRedirectedSilentlyAlways == AddressSpec => []NeverRedirectedSilently
<1>1. AddressInv => NeverRedirectedSilently
  BY DEF AddressInv
<1> QED
  BY <1>1, AlwaysAddressInv, PTL

\* Every state of the model is one the code can be in.
THEOREM AddressTypeCorrect == AddressSpec => []AddressTypeOK
<1>1. ASSUME AddressInit PROVE AddressTypeOK
  BY <1>1, IdsAssumption DEF AddressInit, AddressTypeOK, SelectionType, NotMade, NotYet
<1>2. ASSUME AddressTypeOK, [AddressNext]_addressVars PROVE AddressTypeOK'
  <2> USE IdsAssumption DEF AddressTypeOK
  <2>1. CASE Create
    BY <1>2, <2>1 DEF Create
  <2>2. CASE Passing
    <3>1. edits < MaxEdits
      BY <2>2 DEF Passing
    <3>2. edits' = edits + 1 /\ UNCHANGED <<selection, made, later>>
      BY <2>2 DEF Passing, RetypeHost, RetypeSymbol, AddSymbol, LoseSymbol, Edit
    <3> QED
      BY <1>2, <3>1, <3>2
  <2>3. CASE LaterCommand
    BY <1>2, <2>3 DEF LaterCommand, RevealLink, BurnLink, BurnReceipt, BurnIdentifier, Address
  <2>4. CASE UNCHANGED addressVars
    BY <1>2, <2>4 DEF addressVars
  <2> QED
    BY <1>2, <2>1, <2>2, <2>3, <2>4 DEF AddressNext
<1> QED
  BY <1>1, <1>2, PTL DEF AddressSpec
-----------------------------------------------------------------------------
(* Recursive functions. *)

\* A recursion whose values do not depend on others but those of lower rank,
\* with bounded ranks, has a solution.
IsRecursion(D, V, rank, top, body) ==
  /\ V # {}
  /\ rank \in [D -> Nat] /\ top \in Nat /\ \A i \in D : rank[i] <= top
  /\ body \in [[D -> V] -> [D -> V]]
  /\ \A f, g \in [D -> V] : \A i \in D :
       (\A j \in D : rank[j] < rank[i] => f[j] = g[j]) => body[f][i] = body[g][i]

\* Every such recursion has a solution.
LEMMA Recursion ==
  ASSUME NEW D, NEW V, NEW rank, NEW top, NEW body, IsRecursion(D, V, rank, top, body)
  PROVE  \E f \in [D -> V] : f = body[f]
<1> USE DEF IsRecursion
<1> PICK v : v \in V
  OBVIOUS
<1> DEFINE Solves(f, m) == \A i \in D : rank[i] < m => body[f][i] = f[i]
           S == {m \in Nat : \E f \in [D -> V] : Solves(f, m)}
<1>1. 0 \in S
  <2>1. [i \in D |-> v] \in [D -> V]
    OBVIOUS
  <2>2. Solves([i \in D |-> v], 0)
    OBVIOUS
  <2> HIDE DEF Solves
  <2> QED
    BY <2>1, <2>2
<1>2. ASSUME NEW m \in Nat, m \in S PROVE m + 1 \in S
  <2>1. PICK f \in [D -> V] : Solves(f, m)
    BY <1>2
  <2>2. body[f] \in [D -> V]
    OBVIOUS
  <2>3. Solves(body[f], m + 1)
    <3> SUFFICES ASSUME NEW i \in D, rank[i] < m + 1 PROVE body[body[f]][i] = body[f][i]
      OBVIOUS
    <3>1. \A j \in D : rank[j] < rank[i] => body[f][j] = f[j]
      <4>1. \A j \in D : rank[j] \in Nat /\ rank[i] \in Nat
        OBVIOUS
      <4>2. \A j \in D : rank[j] < rank[i] => rank[j] < m
        BY <4>1
      <4> QED
        BY <2>1, <4>2
    <3> QED
      BY <2>2, <3>1
  <2> HIDE DEF Solves
  <2> QED
    BY <2>2, <2>3
<1>3. Nat \subseteq S
  <2> HIDE DEF S
  <2> QED
    BY <1>1, <1>2, SetInduction
<1>4. PICK f \in [D -> V] : Solves(f, top + 1)
  BY <1>3
<1>5. \A i \in D : body[f][i] = f[i]
  <2>1. \A i \in D : rank[i] \in Nat /\ rank[i] < top + 1
    OBVIOUS
  <2> QED
    BY <1>4, <2>1
<1>6. body[f] \in [D -> V]
  OBVIOUS
<1> QED
  BY <1>5, <1>6
\* Induction over the ranks.
LEMMA RankInduction ==
  ASSUME NEW D, NEW rank \in [D -> Nat], NEW G,
         \A i \in D : (\A j \in D : rank[j] < rank[i] => j \in G) => i \in G
  PROVE  D \subseteq G
<1> DEFINE S == {rank[i] : i \in D \ G}
<1> SUFFICES ASSUME D \ G # {} PROVE FALSE
  OBVIOUS
<1>1. S \subseteq Nat /\ S # {}
  OBVIOUS
<1>2. PICK x \in S : \A y \in S : x <= y
  <2> HIDE DEF S
  <2> QED
    BY <1>1, LeastNumber
<1>3. PICK i \in D \ G : x = rank[i]
  BY <1>2
<1>4. ASSUME NEW j \in D, rank[j] < rank[i] PROVE j \in G
  <2> SUFFICES ASSUME j \notin G PROVE FALSE
    OBVIOUS
  <2>1. rank[i] <= rank[j] /\ rank[i] \in Nat /\ rank[j] \in Nat
    BY <1>2, <1>3
  <2> QED
    BY <1>4, <2>1
<1> QED
  BY <1>3, <1>4

-----------------------------------------------------------------------------
(* How a list of items is written. *)

WordRoles == {"option", "value", "positional", "terminator", "command"}

\* A literal is not known to the provers to be in STRING.
Texts == STRING \cup {NoValue, NoName, "true"} \cup DOMAIN commandSpecs

Words == [dashes : 0..2, name : Texts, value : Texts]

Pieces == Words \X WordRoles

\* Every item is written as words with their roles.
LEMMA WrittenPieces ==
  ASSUME NEW item \in ItemType, IsItem(item)
  PROVE  written(item) \in Seq(Pieces) /\ Len(written(item)) > 0
<1>0. NoValue \in Texts /\ NoName \in Texts /\ STRING \subseteq Texts
  BY DEF Texts
<1>1. Option(item.dashes, item.name, NoValue) \in Words
  BY <1>0 DEF ItemType, WordType, Words, Option
<1>2. Option(item.dashes, item.name, item.value.name) \in Words
  BY <1>0 DEF ItemType, WordType, Words, Option
<1>3. Terminator \in Words
  BY <1>0 DEF Terminator, Option, WordType, Words
<1>4. item.value \in Words
  BY <1>0 DEF ItemType, WordType, Words
<1>5. CASE item.kind = "option" /\ item.glue = "="
  BY <1>2, <1>5 DEF written, Pieces, WordRoles
<1>6. CASE item.kind = "option" /\ item.glue = " "
  <2>1. written(item) =
          <<<<Option(item.dashes, item.name, NoValue), "option">>, <<item.value, "value">>>>
    BY <1>6 DEF written
  <2> QED
    BY <1>1, <1>4, <2>1 DEF Pieces, WordRoles
<1>7. CASE item.kind = "option" /\ item.glue = "none"
  BY <1>1, <1>7 DEF written, Pieces, WordRoles
<1>8. CASE item.kind = "arg" /\ item.glue = "--"
  <2>1. written(item) = <<<<Terminator, "terminator">>, <<item.value, "positional">>>>
    BY <1>8 DEF written
  <2> QED
    BY <1>3, <1>4, <2>1 DEF Pieces, WordRoles
<1>9. CASE item.kind = "arg" /\ item.glue = "none"
  BY <1>4, <1>9 DEF written, Pieces, WordRoles
<1>10. item.kind = "arg" => item.glue \in {"--", "none"}
  <2>1. \A word : Arg(word).glue = "none" /\ ArgBehindTerminator(word).glue = "--"
    BY DEF Arg, ArgBehindTerminator
  <2> QED
    BY <2>1 DEF IsItem
<1>11. item.kind = "option" => item.glue \in {"=", " ", "none"}
  <2>1. \A name, dashes : Switch(name, dashes).glue = "none"
    BY DEF Switch, Opt
  <2> QED
    BY <2>1 DEF IsItem
<1> QED
  <2>1. item.kind \in {"option", "arg"}
    BY DEF ItemType
  <2> QED
    BY <1>5, <1>6, <1>7, <1>8, <1>9, <1>10, <1>11, <2>1

\* The words of the first n items of a list.
WordsTable(list, upto) ==
  /\ upto \in [0..Len(list) -> Seq(Pieces)]
  /\ upto[0] = <<>>
  /\ \A n \in 1..Len(list) : upto[n] = upto[n - 1] \o written(list[n])

\* Lists of items the user may write.
Items(list) == list \in Seq(ItemType) /\ \A i \in 1..Len(list) : IsItem(list[i])

\* wordsOf is the last entry of its table.
LEMMA WordsLoop ==
  ASSUME NEW list, Items(list)
  PROVE  \E upto : WordsTable(list, upto) /\ wordsOf(list) = upto[Len(list)]
<1>0. Len(list) \in Nat /\ \A i \in 1..Len(list) : written(list[i]) \in Seq(Pieces)
  BY WrittenPieces DEF Items
<1> DEFINE D == 0..Len(list)
           W == Seq(Pieces)
           E(f, n) == IF n = 0 THEN <<>> ELSE f[n - 1] \o written(list[n])
           body == [f \in [D -> W] |-> [n \in D |-> E(f, n)]]
           rank == [n \in D |-> n]
<1>1. \A f \in [D -> W] : \A n \in D : E(f, n) \in W
  <2> TAKE f \in [D -> W]
  <2> TAKE n \in D
  <2>1. n # 0 => n - 1 \in D /\ n \in 1..Len(list)
    OBVIOUS
  <2>2. n # 0 => f[n - 1] \in Seq(Pieces) /\ written(list[n]) \in Seq(Pieces)
    BY <1>0, <2>1
  <2>3. <<>> \in Seq(Pieces)
    OBVIOUS
  <2> HIDE DEF D
  <2> QED
    BY <2>2, <2>3
<1>2. body \in [[D -> W] -> [D -> W]]
  <2> HIDE DEF D, W, E
  <2> QED
    BY <1>1
<1>3. \A f, g \in [D -> W] : \A i \in D :
        (\A j \in D : rank[j] < rank[i] => f[j] = g[j]) => body[f][i] = body[g][i]
  <2> TAKE f, g \in [D -> W]
  <2> TAKE i \in D
  <2> HAVE \A j \in D : rank[j] < rank[i] => f[j] = g[j]
  <2>1. i # 0 => i - 1 \in D /\ rank[i - 1] < rank[i]
    OBVIOUS
  <2>2. E(f, i) = E(g, i)
    BY <2>1
  <2>3. body[f][i] = E(f, i) /\ body[g][i] = E(g, i)
    OBVIOUS
  <2> QED
    BY <2>2, <2>3
<1>4. rank \in [D -> Nat] /\ \A i \in D : rank[i] <= Len(list)
  BY <1>0
<1>5. \E f \in [D -> W] : f = body[f]
  <2>1. W # {} /\ Len(list) \in Nat
    <3>1. <<>> \in Seq(Pieces)
      OBVIOUS
    <3> QED
      BY <1>0, <3>1
  <2>2. IsRecursion(D, W, rank, Len(list), body)
    <3> HIDE DEF D, W, body, rank
    <3> QED
      BY <1>2, <1>3, <1>4, <2>1 DEF IsRecursion
  <2> HIDE DEF D, W, body, rank
  <2> QED
    BY <2>2, Recursion
<1>6. \E f : f = [n \in 0..Len(list) |-> IF n = 0 THEN <<>> ELSE f[n - 1] \o written(list[n])]
  <2>1. PICK f \in [D -> W] : f = body[f]
    BY <1>5
  <2>2. f = [n \in D |-> E(f, n)]
    BY <2>1
  <2> QED
    BY <2>2
<1>7. PICK u : u = CHOOSE f : f = [n \in 0..Len(list) |-> IF n = 0 THEN <<>> ELSE f[n - 1] \o written(list[n])]
  OBVIOUS
<1>8. u = [n \in 0..Len(list) |-> IF n = 0 THEN <<>> ELSE u[n - 1] \o written(list[n])]
  BY <1>6, <1>7
<1>9. wordsOf(list) = u[Len(list)]
  BY <1>7 DEF wordsOf
<1>10. \A n \in D : u[n] = E(u, n)
  BY <1>8
<1> DEFINE G == {n \in D : u[n] \in W}
<1>11. D \subseteq G
  <2>1. ASSUME NEW i \in D, \A j \in D : rank[j] < rank[i] => j \in G PROVE i \in G
    <3>1. i # 0 => i - 1 \in D /\ rank[i - 1] < rank[i] /\ i \in 1..Len(list)
      OBVIOUS
    <3>2. i # 0 => u[i - 1] \in Seq(Pieces) /\ written(list[i]) \in Seq(Pieces)
      BY <1>0, <2>1, <3>1
    <3>3. <<>> \in Seq(Pieces)
      OBVIOUS
    <3>4. u[i] = E(u, i)
      BY <1>10, <2>1
    <3>5. u[i] \in W
      BY <3>2, <3>3, <3>4
    <3> QED
      BY <2>1, <3>5
  <2> HIDE DEF D, G, rank
  <2> QED
    BY <1>4, <2>1, RankInduction
<1>12. u \in [D -> W]
  BY <1>8, <1>11
<1>13. WordsTable(list, u)
  <2>1. 0 \in D /\ \A n \in 1..Len(list) : n \in D /\ n # 0
    BY <1>0
  <2> QED
    BY <1>10, <1>12, <2>1 DEF WordsTable
<1> QED
  BY <1>9, <1>13

\* The documented way to spell an item.
Plainly(item) == item.glue # "--" /\ item.dashes # 1 /\ item.value.dashes = 0

WithValue(item) ==
  /\ item.kind = "option" /\ item.dashes = 2 /\ item.glue = "="
  /\ item.value.name # NoValue /\ item.value = Word(item.value.name)
  /\ written(item) = <<<<Option(2, item.name, item.value.name), "option">>>>

BeforeValue(item) ==
  /\ item.kind = "option" /\ item.dashes = 2 /\ item.glue = " "
  /\ written(item) = <<<<Option(2, item.name, NoValue), "option">>, <<item.value, "value">>>>

Alone(item) ==
  /\ item = Switch(item.name, 2)
  /\ item.kind = "option" /\ item.dashes = 2 /\ item.glue = "none" /\ item.value = Word("true")
  /\ written(item) = <<<<Option(2, item.name, NoValue), "option">>>>

Argument(item) ==
  item.kind = "arg" /\ written(item) = <<<<item.value, "positional">>>>

\* An item in the documented spelling is of one of the four forms.
LEMMA Spelling ==
  ASSUME NEW item \in ItemType, IsItem(item), Plainly(item)
  PROVE  WithValue(item) \/ BeforeValue(item) \/ Alone(item) \/ Argument(item)
<1>1. item.kind \in {"option", "arg"} /\ item.value \in WordType /\ item.dashes \in 0..2
  BY DEF ItemType
<1>2. CASE item.kind = "arg"
  <2>1. \A word : Arg(word).glue = "none" /\ ArgBehindTerminator(word).glue = "--"
    BY DEF Arg, ArgBehindTerminator
  <2>2. item.glue = "none"
    BY <1>2, <2>1 DEF IsItem, Plainly
  <2> QED
    BY <1>2, <2>2 DEF Argument, written
<1>3. CASE item.kind = "option"
  <2>1. item.dashes = 2
    <3>1. item.dashes > 0
      BY <1>3 DEF IsItem
    <3>2. item.dashes # 1
      BY DEF Plainly
    <3> QED
      BY <1>1, <3>1, <3>2
  <2>2. item.value = Word(item.value.name)
    <3>1. item.value = [dashes |-> item.value.dashes, name |-> item.value.name, value |-> item.value.value]
      BY <1>1 DEF WordType
    <3>2. item.value.dashes = 0 /\ item.value.value = NoValue
      BY DEF IsItem, Plainly
    <3> QED
      BY <3>1, <3>2 DEF Word
  <2>3. CASE item.glue = " "
    BY <1>3, <2>1, <2>3 DEF BeforeValue, written
  <2>4. CASE item.glue = "=" /\ item.value.name # NoValue
    BY <1>3, <2>1, <2>2, <2>4 DEF WithValue, written
  <2>5. CASE item = Switch(item.name, item.dashes)
    <3>1. Switch(item.name, 2).glue = "none" /\ Switch(item.name, 2).value = Word("true")
      BY DEF Switch, Opt
    <3>2. item.glue = "none" /\ item.value = Word("true")
      BY <2>1, <2>5, <3>1
    <3> QED
      BY <1>3, <2>1, <2>5, <3>2 DEF Alone, written
  <2> QED
    BY <1>3, <2>3, <2>4, <2>5 DEF IsItem
<1> QED
  BY <1>1, <1>2, <1>3

Grows(list, upto, n) ==
  /\ n - 1 \in 0..Len(list) /\ n \in 0..Len(list)
  /\ upto[n - 1] \in Seq(Pieces) /\ upto[n] \in Seq(Pieces)
  /\ written(list[n]) \in Seq(Pieces) /\ Len(written(list[n])) > 0
  /\ upto[n] = upto[n - 1] \o written(list[n])
  /\ Len(upto[n]) = Len(upto[n - 1]) + Len(written(list[n]))
  /\ \A k \in 1..Len(upto[n - 1]) : upto[n][k] = upto[n - 1][k]
  /\ \A k \in 1..Len(written(list[n])) : upto[n][Len(upto[n - 1]) + k] = written(list[n])[k]

\* Each entry of the table is the one before it and the words of an item.
LEMMA TableGrows ==
  ASSUME NEW list, NEW upto, Items(list), WordsTable(list, upto), NEW n \in 1..Len(list)
  PROVE  Grows(list, upto, n)
<1>1. n - 1 \in 0..Len(list) /\ n \in 0..Len(list)
  BY DEF Items
<1>2. upto[n - 1] \in Seq(Pieces) /\ upto[n] \in Seq(Pieces)
  BY <1>1 DEF WordsTable
<1>3. written(list[n]) \in Seq(Pieces) /\ Len(written(list[n])) > 0
  BY WrittenPieces DEF Items
<1>4. upto[n] = upto[n - 1] \o written(list[n])
  BY DEF WordsTable
<1> DEFINE w == written(list[n]) u == upto[n - 1]
<1> HIDE DEF w, u
<1>5. ASSUME u \in Seq(Pieces), w \in Seq(Pieces)
      PROVE  /\ Len(u \o w) = Len(u) + Len(w)
             /\ \A k \in 1..Len(u) : (u \o w)[k] = u[k]
             /\ \A k \in 1..Len(w) : (u \o w)[Len(u) + k] = w[k]
  BY <1>5
<1> QED
  BY <1>1, <1>2, <1>3, <1>4, <1>5 DEF u, w, Grows

\* What is written of the first items begins all that is written.
LEMMA WordsBegin ==
  ASSUME NEW list, NEW upto, Items(list), WordsTable(list, upto), NEW n \in 0..Len(list)
  PROVE  /\ Len(upto[n]) \in Nat /\ Len(upto[Len(list)]) \in Nat
         /\ Len(upto[n]) <= Len(upto[Len(list)])
         /\ \A k \in 1..Len(upto[n]) : upto[Len(list)][k] = upto[n][k]
<1> DEFINE N == Len(list)
           D == 0..N
           G == {i \in D : /\ Len(upto[i]) <= Len(upto[N])
                           /\ \A k \in 1..Len(upto[i]) : upto[N][k] = upto[i][k]}
           rank == [i \in D |-> N - i]
<1>1. N \in Nat /\ \A i \in D : Len(upto[i]) \in Nat
  BY DEF Items, WordsTable
<1>2. rank \in [D -> Nat]
  BY <1>1
<1>3. ASSUME NEW i \in D, \A j \in D : rank[j] < rank[i] => j \in G PROVE i \in G
  <2>1. CASE i = N
    BY <1>1, <2>1
  <2>2. CASE i # N
    <3>1. PICK j \in 1..N : j \in D /\ rank[j] < rank[i] /\ j - 1 = i
      <4>1. i + 1 \in 1..N /\ i + 1 \in D /\ rank[i + 1] < rank[i] /\ (i + 1) - 1 = i
        BY <1>1, <2>2
      <4> QED
        BY <4>1
    <3>2. Len(upto[j]) <= Len(upto[N]) /\ \A k \in 1..Len(upto[j]) : upto[N][k] = upto[j][k]
      BY <1>3, <3>1
    <3>3. Grows(list, upto, j)
      <4> HIDE DEF D, G, rank
      <4> QED
        BY <3>1, TableGrows
    <3> DEFINE w == Len(written(list[j]))
    <3>4. Len(upto[i]) \in Nat /\ Len(upto[j]) \in Nat /\ Len(upto[N]) \in Nat /\ w \in Nat
      <4>1. N \in D /\ j \in D
        BY <1>1, <3>1
      <4>2. w \in Nat
        BY <3>3 DEF Grows
      <4> HIDE DEF D, N, w
      <4> QED
        BY <1>1, <4>1, <4>2
    <3>4a. Len(upto[j]) = Len(upto[i]) + w
      BY <3>1, <3>3 DEF Grows
    <3>5. Len(upto[i]) <= Len(upto[j]) /\ Len(upto[i]) <= Len(upto[N])
      <4> HIDE DEF w, D, G, rank
      <4> QED
        BY <3>2, <3>4a, <3>4
    <3>6. 1..Len(upto[i]) \subseteq 1..Len(upto[j])
      BY <3>4, <3>5
    <3>7. \A k \in 1..Len(upto[i]) : upto[N][k] = upto[i][k]
      BY <3>1, <3>2, <3>3, <3>6 DEF Grows
    <3> QED
      BY <3>5, <3>7
  <2> QED
    BY <2>1, <2>2
<1>4. D \subseteq G
  <2> HIDE DEF D, G, rank
  <2> QED
    BY <1>2, <1>3, RankInduction
<1> QED
  BY <1>1, <1>4

\* Two lists of items, joined.
LEMMA ItemsOfBoth ==
  ASSUME NEW a, NEW b, Items(a), Items(b)
  PROVE  /\ Items(a \o b) /\ Len(a) \in Nat /\ Len(b) \in Nat /\ Len(a \o b) = Len(a) + Len(b)
         /\ \A i \in 1..Len(a) : (a \o b)[i] = a[i]
         /\ \A i \in 1..Len(b) : (a \o b)[Len(a) + i] = b[i]
<1>1. a \in Seq(ItemType) /\ b \in Seq(ItemType)
  BY DEF Items
<1>2. /\ a \o b \in Seq(ItemType) /\ Len(a) \in Nat /\ Len(b) \in Nat
      /\ Len(a \o b) = Len(a) + Len(b)
      /\ \A i \in 1..Len(a) : (a \o b)[i] = a[i]
      /\ \A i \in 1..Len(b) : (a \o b)[Len(a) + i] = b[i]
  BY <1>1
<1>3. \A i \in 1..Len(a \o b) : IsItem((a \o b)[i])
  <2> TAKE i \in 1..Len(a \o b)
  <2>1. CASE i <= Len(a)
    BY <1>2, <2>1 DEF Items
  <2>2. CASE ~(i <= Len(a))
    <3>1. i - Len(a) \in 1..Len(b) /\ Len(a) + (i - Len(a)) = i
      BY <1>2, <2>2
    <3>2. (a \o b)[Len(a) + (i - Len(a))] = b[i - Len(a)]
      BY <1>2, <3>1
    <3>3. IsItem(b[i - Len(a)])
      BY <3>1 DEF Items
    <3> QED
      BY <3>1, <3>2, <3>3
  <2> QED
    BY <2>1, <2>2
<1> QED
  BY <1>2, <1>3 DEF Items

\* Concatenation of pieces is associative.
LEMMA PiecesAssociate ==
  ASSUME NEW x \in Seq(Pieces), NEW y \in Seq(Pieces), NEW z \in Seq(Pieces)
  PROVE  (x \o y) \o z = x \o (y \o z)
<1> DEFINE S == Pieces
<1>1. x \in Seq(S) /\ y \in Seq(S) /\ z \in Seq(S)
  OBVIOUS
<1> HIDE DEF S
<1> QED
  BY ONLY <1>1, ConcatAssociative

\* Joined lists are written one behind the other.
LEMMA WordsOfBoth ==
  ASSUME NEW a, NEW b, Items(a), Items(b)
  PROVE  /\ wordsOf(a) \in Seq(Pieces) /\ wordsOf(b) \in Seq(Pieces)
         /\ wordsOf(a \o b) = wordsOf(a) \o wordsOf(b)
<1> DEFINE c == a \o b
           M == Len(a)
           N == Len(b)
<1>1. /\ Items(c) /\ M \in Nat /\ N \in Nat /\ Len(c) = M + N
      /\ \A i \in 1..M : c[i] = a[i]
      /\ \A i \in 1..N : c[M + i] = b[i]
  BY ItemsOfBoth
<1> HIDE DEF c
<1>2. PICK u : WordsTable(c, u) /\ wordsOf(c) = u[Len(c)]
  BY <1>1, WordsLoop
<1>3. PICK v : WordsTable(a, v) /\ wordsOf(a) = v[M]
  BY WordsLoop
<1>4. PICK w : WordsTable(b, w) /\ wordsOf(b) = w[N]
  BY WordsLoop
<1>5. v[M] \in Seq(Pieces) /\ w[N] \in Seq(Pieces)
  <2>1. M \in 0..M /\ N \in 0..N
    BY <1>1
  <2> QED
    BY <1>3, <1>4, <2>1 DEF WordsTable
<1>6. \A n \in 0..M : u[n] = v[n]
  <2> DEFINE D == 0..M
             G == {n \in D : u[n] = v[n]}
             rank == [n \in D |-> n]
  <2>1. rank \in [D -> Nat]
    BY <1>1
  <2>2. ASSUME NEW i \in D, \A j \in D : rank[j] < rank[i] => j \in G PROVE i \in G
    <3>1. CASE i = 0
      BY <1>2, <1>3, <3>1 DEF WordsTable
    <3>2. CASE i # 0
      <4>1. i \in 1..M /\ i \in 1..Len(c) /\ i - 1 \in D /\ rank[i - 1] < rank[i]
        BY <1>1, <3>2
      <4>2. u[i - 1] = v[i - 1] /\ c[i] = a[i]
        BY <1>1, <2>2, <4>1
      <4>3. u[i] = u[i - 1] \o written(c[i]) /\ v[i] = v[i - 1] \o written(a[i])
        BY <1>2, <1>3, <4>1 DEF WordsTable
      <4> QED
        BY <4>2, <4>3
    <3> QED
      BY <3>1, <3>2
  <2>3. D \subseteq G
    <3> HIDE DEF D, G, rank
    <3> QED
      BY <2>1, <2>2, RankInduction
  <2> QED
    BY <2>3
<1>7. \A n \in 0..N : u[M + n] = v[M] \o w[n]
  <2> DEFINE D == 0..N
             G == {n \in D : u[M + n] = v[M] \o w[n]}
             rank == [n \in D |-> n]
  <2>1. rank \in [D -> Nat]
    BY <1>1
  <2>2. ASSUME NEW i \in D, \A j \in D : rank[j] < rank[i] => j \in G PROVE i \in G
    <3>1. CASE i = 0
      <4>1. w[0] = <<>> /\ M + i = M /\ M \in 0..M
        BY <1>1, <1>4, <3>1 DEF WordsTable
      <4>2. u[M] = v[M]
        BY <1>6, <4>1
      <4>3. v[M] \o <<>> = v[M]
        BY <1>5
      <4> QED
        BY <3>1, <4>1, <4>2, <4>3
    <3>2. CASE i # 0
      <4>1. PICK j \in D : /\ j = i - 1 /\ rank[j] < rank[i] /\ i \in 1..N
                           /\ M + i \in 1..Len(c) /\ (M + i) - 1 = M + j
        <5>1. /\ i - 1 \in D /\ rank[i - 1] < rank[i] /\ i \in 1..N
              /\ M + i \in 1..Len(c) /\ (M + i) - 1 = M + (i - 1)
          BY <1>1, <3>2
        <5> QED
          BY <5>1
      <4>2. u[M + j] = v[M] \o w[j] /\ c[M + i] = b[i]
        BY <1>1, <2>2, <4>1
      <4>3. u[M + i] = u[M + j] \o written(c[M + i])
        <5>1. u[M + i] = u[(M + i) - 1] \o written(c[M + i])
          BY <1>2, <4>1 DEF WordsTable
        <5> QED
          BY <4>1, <5>1
      <4>4. w[i] = w[j] \o written(b[i])
        BY <1>4, <4>1 DEF WordsTable
      <4>5. w[j] \in Seq(Pieces)
        BY <1>4, <4>1 DEF WordsTable
      <4>6. b[i] \in ItemType /\ IsItem(b[i])
        BY <4>1 DEF Items
      <4>7. written(b[i]) \in Seq(Pieces)
        BY <4>6, WrittenPieces
      <4>8. (v[M] \o w[j]) \o written(b[i]) = v[M] \o (w[j] \o written(b[i]))
        <5> DEFINE x == v[M] y == w[j] z == written(b[i])
        <5>1. x \in Seq(Pieces) /\ y \in Seq(Pieces) /\ z \in Seq(Pieces)
          BY <1>5, <4>5, <4>7
        <5> HIDE DEF x, y, z
        <5>2. (x \o y) \o z = x \o (y \o z)
          BY <5>1, PiecesAssociate
        <5> QED
          BY <5>2 DEF x, y, z
      <4>9. u[M + i] = v[M] \o w[i]
        BY <4>2, <4>3, <4>4, <4>8
      <4> QED
        BY <4>9
    <3> QED
      BY <3>1, <3>2
  <2>3. D \subseteq G
    <3> HIDE DEF D, G, rank
    <3> QED
      BY <2>1, <2>2, RankInduction
  <2> QED
    BY <2>3
<1>8. N \in 0..N
  BY <1>1
<1>9. u[Len(c)] = v[M] \o w[N]
  BY <1>1, <1>7, <1>8
<1> QED
  BY <1>2, <1>3, <1>4, <1>5, <1>9 DEF c

-----------------------------------------------------------------------------
(* The schema. *)

AllFlags ==
  registerNetworkFlags \cup registerJSONFlag \cup registerTerminalPresentationFlags
  \cup passphraseFlags
  \cup {<<"ttl", "string">>, <<"input", "string">>, <<"keep-blob", "string">>, <<"out", "string">>,
        <<"token-file", "string">>, <<"token-fd", "int">>, <<"blob-file", "string">>}

\* A name has the same kind of value wherever it is registered.
LEMMA OneKind == \A f, g \in AllFlags : f[1] = g[1] => f[2] = g[2]
<1> QED
  BY DEF AllFlags, registerNetworkFlags, registerJSONFlag, registerTerminalPresentationFlags,
         passphraseFlags

\* A name has its kind in the flag set of its registrations.
LEMMA FlagSetKinds ==
  ASSUME NEW flags, flags \subseteq AllFlags
  PROVE  /\ DOMAIN flagSet(flags) = {f[1] : f \in flags}
         /\ \A f \in flags : flagSet(flags)[f[1]] = f[2]
<1>1. DOMAIN flagSet(flags) = {f[1] : f \in flags}
  BY DEF flagSet
<1>2. ASSUME NEW f \in flags PROVE flagSet(flags)[f[1]] = f[2]
  <2> DEFINE c == CHOOSE g \in flags : g[1] = f[1]
  <2>1. c \in flags /\ c[1] = f[1]
    OBVIOUS
  <2>2. c[2] = f[2]
    <3> HIDE DEF c
    <3> QED
      BY <2>1, OneKind
  <2>3. flagSet(flags)[f[1]] = c[2]
    BY DEF flagSet
  <2> QED
    BY <2>2, <2>3
<1> QED
  BY <1>1, <1>2

\* Every name of a flag set has the kind of one of its registrations.
LEMMA FlagSetHas ==
  ASSUME NEW flags, flags \subseteq AllFlags, NEW set, set = flagSet(flags), NEW name \in DOMAIN set
  PROVE  \E f \in flags : f[1] = name /\ set[name] = f[2]
<1>1. name \in DOMAIN flagSet(flags)
  OBVIOUS
<1>2. PICK f \in flags : f[1] = name
  BY <1>1 DEF flagSet
<1>3. flagSet(flags)[f[1]] = f[2]
  BY FlagSetKinds
<1> QED
  BY <1>2, <1>3

\* Each command's options are some of all flags.
LEMMA SpecFlags ==
  ASSUME NEW command \in DOMAIN commandSpecs
  PROVE  \E flags : flags \subseteq AllFlags /\ commandSpecs[command] = flagSet(flags)
<1>1. noFlags = flagSet({})
  BY DEF noFlags, flagSet
<1>2. /\ registerNetworkFlags \subseteq AllFlags /\ registerJSONFlag \subseteq AllFlags
      /\ registerTerminalPresentationFlags \subseteq AllFlags /\ passphraseFlags \subseteq AllFlags
      /\ {<<"ttl", "string">>, <<"input", "string">>} \subseteq AllFlags
      /\ {<<"keep-blob", "string">>, <<"out", "string">>} \subseteq AllFlags
      /\ {<<"token-file", "string">>, <<"token-fd", "int">>} \subseteq AllFlags
      /\ {<<"blob-file", "string">>, <<"out", "string">>} \subseteq AllFlags
  BY DEF AllFlags
<1> QED
  BY <1>1, <1>2 DEF commandSpecs

\* The leading options with values are the ones splitCommand knows.
LEMMA LeadingKinds ==
  /\ "server" \in DOMAIN leadingFlags /\ "timeout" \in DOMAIN leadingFlags
  /\ \A name \in DOMAIN leadingFlags : leadingFlags[name] # "bool" <=> name \in {"server", "timeout"}
<1> DEFINE flags == registerNetworkFlags \cup registerJSONFlag \cup registerTerminalPresentationFlags
<1>1. flags \subseteq AllFlags /\ leadingFlags = flagSet(flags)
  BY DEF AllFlags, leadingFlags
<1>2. /\ \A f \in flags : f[2] # "bool" <=> f[1] \in {"server", "timeout"}
      /\ <<"server", "string">> \in flags /\ <<"timeout", "duration">> \in flags
      /\ <<"server", "string">>[1] = "server" /\ <<"timeout", "duration">>[1] = "timeout"
  BY DEF registerNetworkFlags, registerJSONFlag, registerTerminalPresentationFlags
<1>3. DOMAIN leadingFlags = {f[1] : f \in flags} /\ \A f \in flags : leadingFlags[f[1]] = f[2]
  <2> HIDE DEF flags
  <2> QED
    BY <1>1, FlagSetKinds
<1>4. "server" \in DOMAIN leadingFlags /\ "timeout" \in DOMAIN leadingFlags
  <2> HIDE DEF flags
  <2> QED
    BY <1>2, <1>3
<1>5. ASSUME NEW name \in DOMAIN leadingFlags
      PROVE  leadingFlags[name] # "bool" <=> name \in {"server", "timeout"}
  <2>1. PICK f \in flags : name = f[1]
    <3> HIDE DEF flags
    <3> QED
      BY <1>3
  <2>2. leadingFlags[name] = f[2]
    <3> HIDE DEF flags
    <3> QED
      BY <1>3, <2>1
  <2> HIDE DEF flags
  <2> QED
    BY <1>2, <2>1, <2>2
<1> QED
  BY <1>4, <1>5

\* The same name has the same kind before and behind the command.
LEMMA SameKind ==
  ASSUME NEW command \in DOMAIN commandSpecs, NEW name \in DOMAIN leadingFlags,
         name \in DOMAIN commandSpecs[command]
  PROVE  commandSpecs[command][name] = leadingFlags[name]
<1> DEFINE leading == registerNetworkFlags \cup registerJSONFlag \cup registerTerminalPresentationFlags
<1>1. leading \subseteq AllFlags /\ leadingFlags = flagSet(leading)
  BY DEF AllFlags, leadingFlags
<1> HIDE DEF leading
<1>2. PICK flags : flags \subseteq AllFlags /\ commandSpecs[command] = flagSet(flags)
  BY SpecFlags
<1>3. PICK f \in leading : f[1] = name /\ leadingFlags[name] = f[2]
  BY <1>1, FlagSetHas
<1>4. PICK g \in flags : g[1] = name /\ commandSpecs[command][name] = g[2]
  BY <1>2, FlagSetHas
<1>5. f \in AllFlags /\ g \in AllFlags
  BY <1>1, <1>2, <1>3, <1>4
<1> QED
  BY <1>3, <1>4, <1>5, OneKind

Reserved == {"help", "version", "h", NoName}

\* No command registers --help, -h or --version, and no flag is nameless.
LEMMA ReservedNames ==
  /\ \A name \in Reserved : name \notin DOMAIN leadingFlags
  /\ \A command \in DOMAIN commandSpecs :
       \A name \in Reserved : name \notin DOMAIN commandSpecs[command]
<1>1. \A f \in AllFlags : f[1] \notin Reserved
  <2>1. \A f \in AllFlags : f[1] # "help" /\ f[1] # "version" /\ f[1] # "h"
    BY DEF AllFlags, registerNetworkFlags, registerJSONFlag, registerTerminalPresentationFlags,
           passphraseFlags
  <2>2. \A f \in AllFlags : f[1] # NoName
    <3>1. \A f \in AllFlags :
            f[1] \in {"server", "timeout", "json", "plain", "no-color", "ask", "passphrase-file",
                     "passphrase-fd", "ttl", "input", "keep-blob", "out", "token-file", "token-fd",
                     "blob-file"}
      BY DEF AllFlags, registerNetworkFlags, registerJSONFlag, registerTerminalPresentationFlags,
             passphraseFlags
    <3>2. NoName \notin {"server", "timeout", "json", "plain", "no-color", "ask", "passphrase-file",
                        "passphrase-fd", "ttl", "input", "keep-blob", "out", "token-file", "token-fd",
                        "blob-file"}
      BY DEF NoName
    <3> QED
      BY <3>1, <3>2
  <2> QED
    BY <2>1, <2>2 DEF Reserved
<1>2. \A name \in Reserved : name \notin DOMAIN leadingFlags
  <2> DEFINE leading == registerNetworkFlags \cup registerJSONFlag \cup registerTerminalPresentationFlags
  <2>1. leading \subseteq AllFlags /\ leadingFlags = flagSet(leading)
    BY DEF AllFlags, leadingFlags
  <2> HIDE DEF leading
  <2> QED
    BY <1>1, <2>1, FlagSetHas
<1>3. ASSUME NEW command \in DOMAIN commandSpecs
      PROVE  \A name \in Reserved : name \notin DOMAIN commandSpecs[command]
  <2>1. PICK flags : flags \subseteq AllFlags /\ commandSpecs[command] = flagSet(flags)
    BY SpecFlags
  <2> QED
    BY <1>1, <2>1, FlagSetHas
<1> QED
  BY <1>2, <1>3

\* help and version are commands, without options.
LEMMA CommandNames ==
  /\ "help" \in DOMAIN commandSpecs /\ "version" \in DOMAIN commandSpecs
  /\ commandSpecs["help"] = noFlags /\ commandSpecs["version"] = noFlags
  /\ NoName \notin DOMAIN commandSpecs
<1>1. /\ "help" \in DOMAIN commandSpecs /\ "version" \in DOMAIN commandSpecs
      /\ commandSpecs["help"] = noFlags /\ commandSpecs["version"] = noFlags
  BY DEF commandSpecs
<1>2. NoName \notin DOMAIN commandSpecs
  <2>1. DOMAIN commandSpecs = {"create", "reveal", "burn", "decrypt", "words", "completion",
                               "version", "licenses", "help"}
    BY DEF commandSpecs
  <2> QED
    BY <2>1 DEF NoName
<1> QED
  BY <1>1, <1>2

-----------------------------------------------------------------------------
(* How the options and arguments are parsed. *)

Parsed == [ok : BOOLEAN, sets : Seq(Texts \X Words), positionals : Seq(Words)]

SetTo(flags, name, value, rest) ==
  IF ~rest.ok \/ ~converts(flags[name], value) THEN NotParsed
  ELSE [rest EXCEPT !.sets = <<<<name, value>>>> \o @]

Positional(word, rest) == [rest EXCEPT !.positionals = <<word>> \o @]

ParseWord(flags, args, i, next, second) ==
  IF i > Len(args) THEN [ok |-> TRUE, sets |-> <<>>, positionals |-> <<>>]
  ELSE CASE args[i] = Terminator /\ i = Len(args) -> next
         [] args[i] = Terminator /\ i < Len(args) -> Positional(args[i + 1], second)
         [] args[i].dashes = 0 -> Positional(args[i], next)
         [] args[i].dashes > 0 /\ args[i] # Terminator ->
              CASE args[i].name \notin DOMAIN flags -> NotParsed
                [] args[i].name \in DOMAIN flags /\ args[i].value # NoValue ->
                     SetTo(flags, args[i].name, Word(args[i].value), next)
                [] args[i].name \in DOMAIN flags /\ args[i].value = NoValue ->
                     IF flags[args[i].name] = "bool"
                     THEN SetTo(flags, args[i].name, Word("true"), next)
                     ELSE IF i = Len(args) THEN NotParsed
                     ELSE SetTo(flags, args[i].name, args[i + 1], second)

ParseStep(flags, args, from, i) == ParseWord(flags, args, i, from[i + 1], from[i + 2])

\* What the parser returns is of its type.
LEMMA ParsedKinds ==
  /\ NotParsed \in Parsed /\ ~NotParsed.ok
  /\ [ok |-> TRUE, sets |-> <<>>, positionals |-> <<>>] \in Parsed
  /\ \A flags : \A name \in Texts, value \in Words, rest \in Parsed :
       SetTo(flags, name, value, rest) \in Parsed
  /\ \A word \in Words, rest \in Parsed : Positional(word, rest) \in Parsed
  /\ \A text \in Texts : Word(text) \in Words
<1>1. <<>> \in Seq(Texts \X Words) /\ <<>> \in Seq(Words)
  OBVIOUS
<1>2. NotParsed \in Parsed /\ [ok |-> TRUE, sets |-> <<>>, positionals |-> <<>>] \in Parsed
  BY <1>1 DEF NotParsed, Parsed
<1>3. ~NotParsed.ok
  BY DEF NotParsed
<1>4. ASSUME NEW flags, NEW name \in Texts, NEW value \in Words, NEW rest \in Parsed
      PROVE  SetTo(flags, name, value, rest) \in Parsed
  <2> DEFINE sets == <<<<name, value>>>> \o rest.sets
  <2>1. sets \in Seq(Texts \X Words)
    <3>1. <<<<name, value>>>> \in Seq(Texts \X Words) /\ rest.sets \in Seq(Texts \X Words)
      BY DEF Parsed
    <3> QED
      BY <3>1
  <2>2. [rest EXCEPT !.sets = sets] \in Parsed
    <3> HIDE DEF sets
    <3> QED
      BY <2>1 DEF Parsed
  <2> QED
    BY <1>2, <2>2 DEF SetTo
<1>5. ASSUME NEW word \in Words, NEW rest \in Parsed
      PROVE  Positional(word, rest) \in Parsed
  <2> DEFINE positionals == <<word>> \o rest.positionals
  <2>1. positionals \in Seq(Words)
    <3>1. <<word>> \in Seq(Words) /\ rest.positionals \in Seq(Words)
      BY DEF Parsed
    <3> QED
      BY <3>1
  <2>2. [rest EXCEPT !.positionals = positionals] \in Parsed
    <3> HIDE DEF positionals
    <3> QED
      BY <2>1 DEF Parsed
  <2> QED
    BY <2>2 DEF Positional
<1>6. \A text \in Texts : Word(text) \in Words
  <2>1. NoValue \in Texts
    BY DEF Texts
  <2> QED
    BY <2>1 DEF Word, Words
<1> QED
  BY <1>2, <1>3, <1>4, <1>5, <1>6

\* One step of the parser is typed if the later ones are.
LEMMA ParseStepIsParsed ==
  ASSUME NEW flags, NEW args \in Seq(Words), NEW from, NEW i \in 1..(Len(args) + 2),
         \A j \in 1..(Len(args) + 2) : j > i => from[j] \in Parsed
  PROVE  ParseStep(flags, args, from, i) \in Parsed
<1>1. CASE i > Len(args)
  BY <1>1, ParsedKinds DEF ParseStep, ParseWord
<1>2. CASE ~(i > Len(args))
  <2>1. /\ i \in 1..Len(args) /\ i + 1 \in 1..(Len(args) + 2) /\ i + 2 \in 1..(Len(args) + 2)
        /\ i + 1 > i /\ i + 2 > i
    BY <1>2
  <2>2. from[i + 1] \in Parsed /\ from[i + 2] \in Parsed /\ args[i] \in Words
    BY <2>1
  <2>3. args[i].name \in Texts /\ args[i].value \in Texts /\ args[i].dashes \in 0..2 /\ "true" \in Texts
    BY <2>2 DEF Words, Texts
  <2>4. i # Len(args) => i + 1 \in 1..Len(args) /\ args[i + 1] \in Words
    BY <2>1
  <2>5. /\ Positional(args[i], from[i + 1]) \in Parsed
        /\ SetTo(flags, args[i].name, Word(args[i].value), from[i + 1]) \in Parsed
        /\ SetTo(flags, args[i].name, Word("true"), from[i + 1]) \in Parsed
        /\ NotParsed \in Parsed
    BY <2>2, <2>3, ParsedKinds
  <2>6. i # Len(args) => /\ Positional(args[i + 1], from[i + 2]) \in Parsed
                         /\ SetTo(flags, args[i].name, args[i + 1], from[i + 2]) \in Parsed
    BY <2>2, <2>3, <2>4, ParsedKinds
  <2>7. \/ args[i] = Terminator /\ i = Len(args)
        \/ args[i] = Terminator /\ i < Len(args)
        \/ args[i].dashes = 0
        \/ args[i].dashes > 0 /\ args[i] # Terminator
    BY <2>1, <2>3
  <2> QED
    BY <1>2, <2>1, <2>2, <2>5, <2>6, <2>7 DEF ParseStep, ParseWord
<1> QED
  BY <1>1, <1>2

ParseTable(flags, args, from) ==
  /\ from \in [1..(Len(args) + 2) -> Parsed]
  /\ \A i \in 1..(Len(args) + 2) : from[i] = ParseStep(flags, args, from, i)

\* parseInterleaved is the first entry of its table.
LEMMA ParseLoop ==
  ASSUME NEW flags, NEW args \in Seq(Words)
  PROVE  \E from : ParseTable(flags, args, from) /\ parseInterleaved(flags, args) = from[1]
<1> DEFINE top == Len(args) + 2
           D == 1..top
           E(f, i) == ParseStep(flags, args, f, i)
           body == [f \in [D -> Parsed] |-> [i \in D |-> E(f, i)]]
           rank == [i \in D |-> top - i]
<1>0. Len(args) \in Nat /\ top \in Nat /\ 1 \in D
  OBVIOUS
<1>1. rank \in [D -> Nat] /\ (\A i \in D : rank[i] <= top)
      /\ \A i, j \in D : rank[j] < rank[i] <=> j > i
  BY <1>0
<1>2. \A f \in [D -> Parsed] : \A i \in D : E(f, i) \in Parsed
  <2> TAKE f \in [D -> Parsed]
  <2> TAKE i \in D
  <2>1. \A j \in D : j > i => f[j] \in Parsed
    OBVIOUS
  <2> QED
    BY <2>1, ParseStepIsParsed
<1>3. body \in [[D -> Parsed] -> [D -> Parsed]]
  <2> HIDE DEF D, E
  <2> QED
    BY <1>2
<1>4. \A f, g \in [D -> Parsed] : \A i \in D :
        (\A j \in D : rank[j] < rank[i] => f[j] = g[j]) => body[f][i] = body[g][i]
  <2> TAKE f, g \in [D -> Parsed]
  <2> TAKE i \in D
  <2> HAVE \A j \in D : rank[j] < rank[i] => f[j] = g[j]
  <2>1. i <= Len(args) => i + 1 \in D /\ i + 2 \in D /\ i + 1 > i /\ i + 2 > i
    BY <1>0
  <2>2. i <= Len(args) => f[i + 1] = g[i + 1] /\ f[i + 2] = g[i + 2]
    <3> HIDE DEF D, rank
    <3> QED
      BY <1>1, <2>1
  <2>3. E(f, i) = E(g, i)
    <3>1. CASE i <= Len(args)
      BY <2>2, <3>1 DEF ParseStep
    <3>2. CASE ~(i <= Len(args))
      <4>1. i > Len(args)
        BY <1>0, <3>2
      <4> QED
        BY <4>1 DEF ParseStep, ParseWord
    <3> QED
      BY <3>1, <3>2
  <2>4. body[f][i] = E(f, i) /\ body[g][i] = E(g, i)
    <3> HIDE DEF D, E
    <3> QED
      OBVIOUS
  <2> QED
    BY <2>3, <2>4
<1>5. \E f \in [D -> Parsed] : f = body[f]
  <2>1. Parsed # {}
    BY ParsedKinds
  <2> HIDE DEF D, body, rank, top
  <2>2. IsRecursion(D, Parsed, rank, top, body)
    BY <1>0, <1>1, <1>3, <1>4, <2>1 DEF IsRecursion
  <2> QED
    BY <2>2, Recursion
<1>6. \E f : f = [i \in D |-> E(f, i)]
  <2> HIDE DEF D, E
  <2> QED
    BY <1>5
<1>7. PICK u : u = CHOOSE f : f = [i \in D |-> E(f, i)]
  OBVIOUS
<1>8. u = [i \in D |-> E(u, i)]
  BY <1>6, <1>7
<1>9. parseInterleaved(flags, args) = u[1]
  BY <1>7 DEF parseInterleaved, ParseStep, ParseWord, SetTo, Positional
<1>10. \A i \in D : u[i] = E(u, i)
  <2> HIDE DEF D, E
  <2> QED
    BY <1>8
<1> DEFINE G == {i \in D : u[i] \in Parsed}
<1>11. D \subseteq G
  <2>1. ASSUME NEW i \in D, \A j \in D : rank[j] < rank[i] => j \in G PROVE i \in G
    <3>1. \A j \in D : j > i => u[j] \in Parsed
      <4> HIDE DEF D, rank
      <4> QED
        BY <1>1, <2>1
    <3>2. E(u, i) \in Parsed
      BY <3>1, ParseStepIsParsed
    <3> QED
      BY <1>10, <3>2
  <2> HIDE DEF D, G, rank
  <2> QED
    BY <1>1, <2>1, RankInduction
<1>12. u \in [D -> Parsed]
  <2>1. u = [i \in D |-> u[i]]
    <3> HIDE DEF D, E
    <3> QED
      BY <1>8
  <2> HIDE DEF D
  <2> QED
    BY <1>11, <2>1
<1>13. ParseTable(flags, args, u)
  BY <1>10, <1>12 DEF ParseTable
<1> QED
  BY <1>9, <1>13

Args(w) == [k \in 1..Len(w) |-> w[k][1]]

\* The words of pieces.
LEMMA ArgsOfWords ==
  ASSUME NEW w \in Seq(Pieces)
  PROVE  /\ Args(w) \in Seq(Words) /\ Len(Args(w)) = Len(w) /\ Len(w) \in Nat
         /\ \A k \in 1..Len(w) : Args(w)[k] = w[k][1] /\ w[k] \in Pieces /\ w[k][1] \in Words
<1>1. Len(w) \in Nat /\ \A k \in 1..Len(w) : w[k] \in Pieces
  OBVIOUS
<1>2. \A k \in 1..Len(w) : w[k][1] \in Words
  BY <1>1 DEF Pieces
<1> QED
  BY <1>1, <1>2 DEF Args

\* Items in the documented spelling, as a set of flags wants them.
Spelled(flags, list) ==
  Items(list) /\ \A i \in 1..Len(list) : Plainly(list[i]) /\ Fits(flags, list[i])

\* What the parser makes of an item and what follows it.
Took(flags, item, rest) ==
  IF item.kind = "arg" THEN Positional(item.value, rest)
  ELSE IF item.name \notin DOMAIN flags THEN NotParsed
  ELSE SetTo(flags, item.name, item.value, rest)

\* The words of an item, in their place among all words.
InPlace(list, u, n) ==
  /\ Len(u[n - 1]) \in Nat /\ Len(u[n]) \in Nat /\ Len(u[Len(list)]) \in Nat
  /\ u[Len(list)] \in Seq(Pieces)
  /\ Len(written(list[n])) \in Nat /\ Len(written(list[n])) > 0
  /\ Len(u[n]) = Len(u[n - 1]) + Len(written(list[n]))
  /\ Len(u[n]) <= Len(u[Len(list)])
  /\ \A k \in 1..Len(written(list[n])) :
       /\ Len(u[n - 1]) + k \in 1..Len(u[Len(list)])
       /\ u[Len(list)][Len(u[n - 1]) + k] = written(list[n])[k]

\* The words of every item are in place.
LEMMA WordsInPlace ==
  ASSUME NEW list, NEW u, Items(list), WordsTable(list, u), NEW n \in 1..Len(list)
  PROVE  InPlace(list, u, n)
<1>1. Grows(list, u, n)
  BY TableGrows
<1>2. n \in 0..Len(list) /\ Len(list) \in 0..Len(list)
  BY <1>1 DEF Grows, Items
<1>3. /\ Len(u[n]) \in Nat /\ Len(u[Len(list)]) \in Nat
      /\ Len(u[n]) <= Len(u[Len(list)])
      /\ \A k \in 1..Len(u[n]) : u[Len(list)][k] = u[n][k]
  BY <1>2, WordsBegin
<1> DEFINE p == Len(u[n - 1]) q == Len(written(list[n])) w == u[Len(list)] v == u[n]
<1>4. p \in Nat /\ q \in Nat /\ q > 0 /\ Len(v) = p + q
  BY <1>1 DEF Grows
<1>5. w \in Seq(Pieces)
  BY <1>2 DEF WordsTable
<1>6. \A k \in 1..q : v[p + k] = written(list[n])[k]
  BY <1>1 DEF Grows
<1>7. Len(v) \in Nat /\ Len(w) \in Nat /\ Len(v) <= Len(w) /\ \A k \in 1..Len(v) : w[k] = v[k]
  BY <1>3
<1> HIDE DEF p, q, w, v
<1>8. \A k \in 1..q : p + k \in 1..Len(v) /\ p + k \in 1..Len(w)
  BY <1>4, <1>7
<1>9. \A k \in 1..q : p + k \in 1..Len(w) /\ w[p + k] = written(list[n])[k]
  BY <1>6, <1>7, <1>8
<1> QED
  BY <1>4, <1>5, <1>7, <1>9 DEF p, q, w, v, InPlace

\* The fields of an option, and that it is no terminator.
LEMMA OptionFields ==
  ASSUME NEW name, NEW value
  PROVE  /\ Option(2, name, value).dashes = 2 /\ Option(2, name, value).name = name
         /\ Option(2, name, value).value = value
         /\ name # NoName => Option(2, name, value) # Terminator
<1>1. /\ Option(2, name, value).dashes = 2 /\ Option(2, name, value).name = name
      /\ Option(2, name, value).value = value
  BY DEF Option
<1>2. Terminator.name = NoName
  BY DEF Terminator, Option
<1> QED
  BY <1>1, <1>2

\* The parser, at the first word of an item, takes exactly this item.
LEMMA ItemParsed ==
  ASSUME NEW flags, NEW list, NEW u, Spelled(flags, list), WordsTable(list, u),
         NEW from, ParseTable(flags, Args(u[Len(list)]), from), NEW n \in 1..Len(list)
  PROVE  from[Len(u[n - 1]) + 1] = Took(flags, list[n], from[Len(u[n]) + 1])
<1> DEFINE item == list[n]
           w == u[Len(list)]
           args == Args(w)
           p == Len(u[n - 1])
           q == Len(u[n])
<1>1. item \in ItemType /\ IsItem(item) /\ Plainly(item) /\ Fits(flags, item) /\ Items(list)
  BY DEF Spelled, Items
<1>2. /\ p \in Nat /\ q \in Nat /\ Len(w) \in Nat /\ w \in Seq(Pieces)
      /\ q = p + Len(written(item)) /\ q <= Len(w)
      /\ \A k \in 1..Len(written(item)) : p + k \in 1..Len(w) /\ w[p + k] = written(item)[k]
  <2>1. InPlace(list, u, n)
    BY <1>1, WordsInPlace
  <2> QED
    BY <2>1 DEF InPlace
<1>3. args \in Seq(Words) /\ Len(args) = Len(w) /\ \A k \in 1..Len(w) : args[k] = w[k][1]
  BY <1>2, ArgsOfWords
<1>4. \A i \in 1..(Len(args) + 2) : from[i] = ParseWord(flags, args, i, from[i + 1], from[i + 2])
  BY DEF ParseTable, ParseStep
<1>5. item.value.dashes = 0
  BY <1>1 DEF Plainly
<1>6. item.kind = "option" => item.name # NoName
  BY <1>1 DEF IsItem
<1> HIDE DEF item, w, args, p, q
<1>6a. p + 1 \in 1..Len(args) =>
         from[p + 1] = ParseWord(flags, args, p + 1, from[(p + 1) + 1], from[(p + 1) + 2])
  <2>1. p + 1 \in 1..Len(args) => p + 1 \in 1..(Len(args) + 2)
    BY <1>2, <1>3
  <2> QED
    BY <1>4, <2>1
<1>7. CASE WithValue(item)
  <2>1. written(item) = <<<<Option(2, item.name, item.value.name), "option">>>> /\ Len(written(item)) = 1
    BY <1>7 DEF WithValue
  <2>2. args[p + 1] = Option(2, item.name, item.value.name) /\ p + 1 \in 1..Len(args) /\ q = p + 1
    BY <1>2, <1>3, <2>1
  <2>3. from[p + 1] = ParseWord(flags, args, p + 1, from[q + 1], from[q + 2])
    BY <1>6a, <2>2
  <2>4. /\ args[p + 1] # Terminator /\ args[p + 1].dashes = 2 /\ args[p + 1].name = item.name
        /\ args[p + 1].value = item.value.name /\ item.value.name # NoValue
    BY <1>6, <1>7, <2>2, OptionFields DEF WithValue
  <2>5. ~(p + 1 > Len(args))
    BY <1>2, <1>3, <2>2
  <2>6. ParseWord(flags, args, p + 1, from[q + 1], from[q + 2])
          = IF item.name \notin DOMAIN flags THEN NotParsed
            ELSE SetTo(flags, item.name, Word(item.value.name), from[q + 1])
    BY <2>4, <2>5 DEF ParseWord
  <2> QED
    BY <1>7, <2>3, <2>6 DEF Took, WithValue, item, p, q
<1>8. CASE BeforeValue(item)
  <2>1. /\ written(item) = <<<<Option(2, item.name, NoValue), "option">>, <<item.value, "value">>>>
        /\ Len(written(item)) = 2
    BY <1>8 DEF BeforeValue
  <2>2. /\ args[p + 1] = Option(2, item.name, NoValue) /\ args[p + 2] = item.value
        /\ p + 1 \in 1..Len(args) /\ p + 2 \in 1..Len(args) /\ q = p + 2
    BY <1>2, <1>3, <2>1
  <2>3. from[p + 1] = ParseWord(flags, args, p + 1, from[p + 2], from[q + 1])
    <3>1. from[p + 1] = ParseWord(flags, args, p + 1, from[(p + 1) + 1], from[(p + 1) + 2])
      BY <1>6a, <2>2
    <3>2. (p + 1) + 1 = p + 2 /\ (p + 1) + 2 = q + 1
      BY <1>2, <2>2
    <3> QED
      BY <3>1, <3>2
  <2>4. /\ args[p + 1] # Terminator /\ args[p + 1].dashes = 2 /\ args[p + 1].name = item.name
        /\ args[p + 1].value = NoValue
    <3>1. item.name # NoName
      BY <1>6, <1>8 DEF BeforeValue
    <3> QED
      BY <2>2, <3>1, OptionFields
  <2>5. ~(p + 1 > Len(args)) /\ p + 1 # Len(args) /\ (p + 1) + 1 = p + 2
    BY <1>2, <1>3, <2>2
  <2>6. item.name \in DOMAIN flags => flags[item.name] # "bool"
    BY <1>1, <1>8 DEF Fits, BeforeValue
  <2>7. ParseWord(flags, args, p + 1, from[p + 2], from[q + 1])
          = IF item.name \notin DOMAIN flags THEN NotParsed
            ELSE SetTo(flags, item.name, item.value, from[q + 1])
    BY <2>2, <2>4, <2>5, <2>6 DEF ParseWord
  <2> QED
    BY <1>8, <2>3, <2>7 DEF Took, BeforeValue, item, p, q
<1>9. CASE Alone(item)
  <2>1. written(item) = <<<<Option(2, item.name, NoValue), "option">>>> /\ Len(written(item)) = 1
    BY <1>9 DEF Alone
  <2>2. args[p + 1] = Option(2, item.name, NoValue) /\ p + 1 \in 1..Len(args) /\ q = p + 1
    BY <1>2, <1>3, <2>1
  <2>3. from[p + 1] = ParseWord(flags, args, p + 1, from[q + 1], from[q + 2])
    BY <1>6a, <2>2
  <2>4. /\ args[p + 1] # Terminator /\ args[p + 1].dashes = 2 /\ args[p + 1].name = item.name
        /\ args[p + 1].value = NoValue
    BY <1>6, <1>9, <2>2, OptionFields DEF Alone
  <2>5. ~(p + 1 > Len(args))
    BY <1>2, <1>3, <2>2
  <2>6. item.name \in DOMAIN flags => flags[item.name] = "bool"
    BY <1>1, <1>9 DEF Fits, Alone
  <2>7. ParseWord(flags, args, p + 1, from[q + 1], from[q + 2])
          = IF item.name \notin DOMAIN flags THEN NotParsed
            ELSE SetTo(flags, item.name, Word("true"), from[q + 1])
    BY <2>4, <2>5, <2>6 DEF ParseWord
  <2>8. item.kind = "option" /\ item.value = Word("true")
    BY <1>9 DEF Alone
  <2> QED
    BY <2>3, <2>7, <2>8 DEF Took, item, p, q
<1>10. CASE Argument(item)
  <2>1. written(item) = <<<<item.value, "positional">>>> /\ Len(written(item)) = 1
    BY <1>10 DEF Argument
  <2>2. args[p + 1] = item.value /\ p + 1 \in 1..Len(args) /\ q = p + 1
    BY <1>2, <1>3, <2>1
  <2>3. from[p + 1] = ParseWord(flags, args, p + 1, from[q + 1], from[q + 2])
    BY <1>6a, <2>2
  <2>4. args[p + 1].dashes = 0 /\ args[p + 1] # Terminator
    <3>1. Terminator.dashes = 2
      BY DEF Terminator, Option
    <3> QED
      BY <1>5, <2>2, <3>1
  <2>5. ~(p + 1 > Len(args))
    BY <1>2, <1>3, <2>2
  <2>6. ParseWord(flags, args, p + 1, from[q + 1], from[q + 2]) = Positional(item.value, from[q + 1])
    BY <2>2, <2>4, <2>5 DEF ParseWord
  <2> QED
    BY <1>10, <2>3, <2>6 DEF Took, Argument, item, p, q
<1> QED
  BY <1>1, <1>7, <1>8, <1>9, <1>10, Spelling

-----------------------------------------------------------------------------
(* The arguments among the items. *)

ArgumentsAt(list, from, i) ==
  IF i > Len(list) THEN <<>>
  ELSE (IF list[i].kind = "arg" THEN <<list[i].value>> ELSE <<>>) \o from[i + 1]

ArgumentsTable(list, from) ==
  /\ from \in [1..(Len(list) + 1) -> Seq(Words)]
  /\ \A i \in 1..(Len(list) + 1) : from[i] = ArgumentsAt(list, from, i)

\* Items in the documented spelling are items, with words for values.
LEMMA ItemValues ==
  ASSUME NEW list, Items(list)
  PROVE  Len(list) \in Nat /\ \A i \in 1..Len(list) : list[i].value \in Words /\ list[i].name \in Texts
<1>1. Len(list) \in Nat /\ \A i \in 1..Len(list) : list[i] \in ItemType
  BY DEF Items
<1>2. STRING \subseteq Texts
  BY DEF Texts
<1>3. \A item \in ItemType : item.value \in Words /\ item.name \in Texts
  BY <1>2 DEF ItemType, WordType, Words
<1> QED
  BY <1>1, <1>3

\* One step of argumentsOf is typed.
LEMMA ArgumentsTyped ==
  ASSUME NEW list, Items(list), NEW from, NEW i \in 1..(Len(list) + 1),
         \A j \in 1..(Len(list) + 1) : j > i => from[j] \in Seq(Words)
  PROVE  ArgumentsAt(list, from, i) \in Seq(Words)
<1>0. Len(list) \in Nat
  BY ItemValues
<1>1. CASE i > Len(list)
  <2>1. <<>> \in Seq(Words)
    OBVIOUS
  <2> QED
    BY <1>1, <2>1 DEF ArgumentsAt
<1>2. CASE ~(i > Len(list))
  <2>1. i \in 1..Len(list) /\ i + 1 \in 1..(Len(list) + 1) /\ i + 1 > i
    BY <1>0, <1>2
  <2>2. from[i + 1] \in Seq(Words) /\ list[i].value \in Words
    BY <2>1, ItemValues
  <2> DEFINE own == IF list[i].kind = "arg" THEN <<list[i].value>> ELSE <<>>
  <2>3. own \in Seq(Words)
    BY <2>2
  <2>4. own \o from[i + 1] \in Seq(Words)
    <3> HIDE DEF own
    <3> QED
      BY <2>2, <2>3
  <2> QED
    BY <1>2, <2>4 DEF ArgumentsAt
<1> QED
  BY <1>1, <1>2

\* argumentsOf is the first entry of its table.
LEMMA ArgumentsLoop ==
  ASSUME NEW list, Items(list)
  PROVE  \E from : ArgumentsTable(list, from) /\ argumentsOf(list) = from[1]
<1> DEFINE V == Seq(Words)
           top == Len(list) + 1
           D == 1..top
           E(f, i) == ArgumentsAt(list, f, i)
           body == [f \in [D -> V] |-> [i \in D |-> E(f, i)]]
           rank == [i \in D |-> top - i]
<1>0. Len(list) \in Nat /\ top \in Nat /\ 1 \in D
  BY ItemValues
<1>1. rank \in [D -> Nat] /\ (\A i \in D : rank[i] <= top)
      /\ \A i, j \in D : rank[j] < rank[i] <=> j > i
  BY <1>0
<1>2. \A f \in [D -> V] : \A i \in D : E(f, i) \in V
  <2> TAKE f \in [D -> V]
  <2> TAKE i \in D
  <2>1. \A j \in D : j > i => f[j] \in V
    OBVIOUS
  <2> QED
    BY <2>1, ArgumentsTyped
<1>3. body \in [[D -> V] -> [D -> V]]
  <2> HIDE DEF D, E, V
  <2> QED
    BY <1>2
<1>4. \A f, g \in [D -> V] : \A i \in D :
        (\A j \in D : rank[j] < rank[i] => f[j] = g[j]) => body[f][i] = body[g][i]
  <2> TAKE f, g \in [D -> V]
  <2> TAKE i \in D
  <2> HAVE \A j \in D : rank[j] < rank[i] => f[j] = g[j]
  <2>1. i <= Len(list) => i + 1 \in D /\ i + 1 > i
    BY <1>0
  <2>2. i <= Len(list) => f[i + 1] = g[i + 1]
    <3> HIDE DEF D, rank
    <3> QED
      BY <1>1, <2>1
  <2>3. E(f, i) = E(g, i)
    <3>1. CASE i <= Len(list)
      BY <2>2, <3>1 DEF ArgumentsAt
    <3>2. CASE ~(i <= Len(list))
      <4>1. i > Len(list)
        BY <1>0, <3>2
      <4> QED
        BY <4>1 DEF ArgumentsAt
    <3> QED
      BY <3>1, <3>2
  <2>4. body[f][i] = E(f, i) /\ body[g][i] = E(g, i)
    <3> HIDE DEF D, E, V
    <3> QED
      OBVIOUS
  <2> QED
    BY <2>3, <2>4
<1>5. \E f \in [D -> V] : f = body[f]
  <2>1. V # {}
    <3>1. <<>> \in V
      OBVIOUS
    <3> QED
      BY <3>1
  <2> HIDE DEF D, body, rank, top, V
  <2>2. IsRecursion(D, V, rank, top, body)
    BY <1>0, <1>1, <1>3, <1>4, <2>1 DEF IsRecursion
  <2> QED
    BY <2>2, Recursion
<1>6. \E f : f = [i \in D |-> E(f, i)]
  <2> HIDE DEF D, E, V
  <2> QED
    BY <1>5
<1>7. PICK u : u = CHOOSE f : f = [i \in D |-> E(f, i)]
  OBVIOUS
<1>8. u = [i \in D |-> E(u, i)]
  BY <1>6, <1>7
<1>9. argumentsOf(list) = u[1]
  BY <1>7 DEF argumentsOf, ArgumentsAt
<1>10. \A i \in D : u[i] = E(u, i)
  <2> HIDE DEF D, E
  <2> QED
    BY <1>8
<1> DEFINE G == {i \in D : u[i] \in V}
<1>11. D \subseteq G
  <2>1. ASSUME NEW i \in D, \A j \in D : rank[j] < rank[i] => j \in G PROVE i \in G
    <3>1. \A j \in D : j > i => u[j] \in V
      <4> HIDE DEF D, rank, V
      <4> QED
        BY <1>1, <2>1
    <3>2. E(u, i) \in V
      BY <3>1, ArgumentsTyped
    <3> QED
      BY <1>10, <3>2
  <2> HIDE DEF D, G, rank
  <2> QED
    BY <1>1, <2>1, RankInduction
<1>12. u \in [D -> V]
  <2>1. u = [i \in D |-> u[i]]
    <3> HIDE DEF D, E
    <3> QED
      BY <1>8
  <2> HIDE DEF D, V
  <2> QED
    BY <1>11, <2>1
<1>13. ArgumentsTable(list, u)
  BY <1>10, <1>12 DEF ArgumentsTable
<1> QED
  BY <1>9, <1>13

-----------------------------------------------------------------------------
(* What the parser makes of a list of items. *)

Takes(flags, item) ==
  item.kind = "option" => item.name \in DOMAIN flags /\ converts(flags[item.name], item.value)

Holds(sets, x) == \E j \in DOMAIN sets : sets[j] = x

\* What is parsed of an option in front of the rest.
OptionTaken(flags, name, value, rest, r) ==
  /\ r \in Parsed
  /\ r.ok <=> rest.ok /\ converts(flags[name], value)
  /\ r.ok => r.positionals = rest.positionals
  /\ r.ok => \A x : Holds(r.sets, x) <=> x = <<name, value>> \/ Holds(rest.sets, x)

\* What is parsed of an argument in front of the rest.
ArgumentTaken(word, rest, r) ==
  /\ r \in Parsed /\ r.ok = rest.ok /\ r.sets = rest.sets
  /\ r.positionals = <<word>> \o rest.positionals

\* SetTo, field by field.
LEMMA SetFields ==
  ASSUME NEW flags, NEW name \in Texts, NEW value \in Words, NEW rest \in Parsed
  PROVE  OptionTaken(flags, name, value, rest, SetTo(flags, name, value, rest))
<1> DEFINE r == SetTo(flags, name, value, rest)
<1> SUFFICES OptionTaken(flags, name, value, rest, r)
  OBVIOUS
<1>1. r \in Parsed
  BY ParsedKinds
<1>2. CASE ~(rest.ok /\ converts(flags[name], value))
  <2>1. r = NotParsed
    BY <1>2 DEF SetTo
  <2> QED
    BY <1>1, <1>2, <2>1, ParsedKinds DEF OptionTaken
<1>3. CASE rest.ok /\ converts(flags[name], value)
  <2> DEFINE old == rest.sets
             more == <<<<name, value>>>> \o old
  <2>1. r = [rest EXCEPT !.sets = more]
    BY <1>3 DEF SetTo
  <2>2. r.ok = rest.ok /\ r.positionals = rest.positionals /\ r.sets = more
    <3> HIDE DEF more, r
    <3> QED
      BY <2>1 DEF Parsed
  <2>3. \A x : Holds(more, x) <=> x = <<name, value>> \/ Holds(old, x)
    <3>1. old \in Seq(Texts \X Words) /\ <<name, value>> \in Texts \X Words
      BY DEF Parsed
    <3> DEFINE p == <<name, value>>
    <3> HIDE DEF old, p
    <3>2. /\ Len(old) \in Nat /\ DOMAIN old = 1..Len(old)
          /\ DOMAIN (<<p>> \o old) = 1..(Len(old) + 1)
          /\ (<<p>> \o old)[1] = p
          /\ \A j \in 1..Len(old) : (<<p>> \o old)[j + 1] = old[j]
      BY <3>1 DEF p
    <3>3. \A x : (\E j \in DOMAIN (<<p>> \o old) : (<<p>> \o old)[j] = x)
                 <=> x = p \/ \E j \in DOMAIN old : old[j] = x
      <4> TAKE x
      <4>1. ASSUME NEW j \in DOMAIN (<<p>> \o old), (<<p>> \o old)[j] = x
            PROVE  x = p \/ \E i \in DOMAIN old : old[i] = x
        <5>1. CASE j = 1
          BY <3>2, <4>1, <5>1
        <5>2. CASE j # 1
          <6>1. PICK i \in 1..Len(old) : i + 1 = j
            <7>1. j - 1 \in 1..Len(old) /\ (j - 1) + 1 = j
              BY <3>2, <4>1, <5>2
            <7> QED
              BY <7>1
          <6> QED
            BY <3>2, <4>1, <6>1
        <5> QED
          BY <5>1, <5>2
      <4>2. ASSUME x = p PROVE \E j \in DOMAIN (<<p>> \o old) : (<<p>> \o old)[j] = x
        <5>1. 1 \in DOMAIN (<<p>> \o old)
          BY <3>2
        <5> QED
          BY <3>2, <4>2, <5>1
      <4>3. ASSUME NEW i \in DOMAIN old, old[i] = x
            PROVE  \E j \in DOMAIN (<<p>> \o old) : (<<p>> \o old)[j] = x
        <5>1. i + 1 \in DOMAIN (<<p>> \o old) /\ (<<p>> \o old)[i + 1] = x
          BY <3>2, <4>3
        <5> QED
          BY <5>1
      <4> QED
        BY <4>1, <4>2, <4>3
    <3> QED
      BY <3>3 DEF p, Holds
  <2> HIDE DEF more, r
  <2> QED
    BY <1>1, <1>3, <2>2, <2>3 DEF OptionTaken
<1> QED
  BY <1>2, <1>3

\* Positional, field by field.
LEMMA PositionalFields ==
  ASSUME NEW word \in Words, NEW rest \in Parsed
  PROVE  ArgumentTaken(word, rest, Positional(word, rest))
<1>1. Positional(word, rest) \in Parsed
  BY ParsedKinds
<1> DEFINE more == <<word>> \o rest.positionals
<1>2. Positional(word, rest) = [rest EXCEPT !.positionals = more]
  BY DEF Positional
<1> HIDE DEF more
<1>3. /\ [rest EXCEPT !.positionals = more].ok = rest.ok
      /\ [rest EXCEPT !.positionals = more].sets = rest.sets
      /\ [rest EXCEPT !.positionals = more].positionals = more
  BY DEF Parsed
<1> QED
  BY <1>1, <1>2, <1>3 DEF more, ArgumentTaken

\* The words behind the first n items are parsed as the items behind them mean.
Parses(flags, list, arguments, n, r) ==
  /\ r \in Parsed
  /\ r.ok <=> \A k \in (n + 1)..Len(list) : Takes(flags, list[k])
  /\ r.ok => r.positionals = arguments[n + 1]
  /\ r.ok => \A x : Holds(r.sets, x)
                    <=> \E k \in (n + 1)..Len(list) :
                          list[k].kind = "option" /\ x = <<list[k].name, list[k].value>>

\* One more item in front keeps Parses.
LEMMA TookParses ==
  ASSUME NEW flags, NEW list, Items(list), NEW arguments, ArgumentsTable(list, arguments),
         NEW n \in 1..Len(list), NEW rest, Parses(flags, list, arguments, n, rest)
  PROVE  Parses(flags, list, arguments, n - 1, Took(flags, list[n], rest))
<1> DEFINE item == list[n]
           N == Len(list)
           r == Took(flags, item, rest)
<1>0. N \in Nat /\ item.value \in Words /\ item.name \in Texts
  BY ItemValues
<1>1. PICK m \in 0..N : m + 1 = n /\ m = n - 1
  <2>1. n - 1 \in 0..N /\ (n - 1) + 1 = n
    BY <1>0
  <2> QED
    BY <2>1
<1>2. \A k : k \in n..N <=> k = n \/ k \in (n + 1)..N
  BY <1>0
<1>3. item.kind \in {"option", "arg"}
  <2>1. item \in ItemType
    BY DEF Items
  <2> QED
    BY <2>1 DEF ItemType
<1>4. arguments[n] = (IF item.kind = "arg" THEN <<item.value>> ELSE <<>>) \o arguments[n + 1]
  <2>1. n \in 1..(N + 1) /\ ~(n > N)
    BY <1>0
  <2> QED
    BY <2>1 DEF ArgumentsTable, ArgumentsAt
<1>5. arguments[n + 1] \in Seq(Words)
  <2>1. n + 1 \in 1..(N + 1)
    BY <1>0
  <2> QED
    BY <2>1 DEF ArgumentsTable
<1> DEFINE Want(x, k) == list[k].kind = "option" /\ x = <<list[k].name, list[k].value>>
<1>6. /\ rest \in Parsed
      /\ rest.ok <=> \A k \in (n + 1)..N : Takes(flags, list[k])
      /\ rest.ok => rest.positionals = arguments[n + 1]
      /\ rest.ok => \A x : Holds(rest.sets, x) <=> \E k \in (n + 1)..N : Want(x, k)
  BY DEF Parses
<1> SUFFICES /\ r \in Parsed
             /\ r.ok <=> \A k \in n..N : Takes(flags, list[k])
             /\ r.ok => r.positionals = arguments[n]
             /\ r.ok => \A x : Holds(r.sets, x) <=> \E k \in n..N : Want(x, k)
  BY <1>1 DEF Parses
<1>7. CASE item.kind = "arg"
  <2>1. ArgumentTaken(item.value, rest, Positional(item.value, rest))
    BY <1>0, <1>6, PositionalFields
  <2>2. r = Positional(item.value, rest)
    BY <1>7 DEF Took
  <2>3. r \in Parsed /\ r.ok = rest.ok /\ r.sets = rest.sets
        /\ r.positionals = <<item.value>> \o rest.positionals
    BY <2>1, <2>2 DEF ArgumentTaken
  <2>4. Takes(flags, list[n]) /\ \A x : ~Want(x, n)
    BY <1>7 DEF Takes
  <2>5. rest.ok => r.positionals = arguments[n]
    BY <1>4, <1>6, <1>7, <2>3
  <2> HIDE DEF r, Want, N
  <2> QED
    BY <1>2, <1>6, <2>3, <2>4, <2>5
<1>8. CASE item.kind = "option" /\ item.name \notin DOMAIN flags
  <2>1. r = NotParsed
    BY <1>8 DEF Took
  <2>2. ~Takes(flags, list[n])
    BY <1>8 DEF Takes
  <2> HIDE DEF r, Want, N
  <2> QED
    BY <1>2, <2>1, <2>2, ParsedKinds
<1>9. CASE item.kind = "option" /\ item.name \in DOMAIN flags
  <2>1. OptionTaken(flags, item.name, item.value, rest, SetTo(flags, item.name, item.value, rest))
    BY <1>0, <1>6, SetFields
  <2>2. r = SetTo(flags, item.name, item.value, rest)
    BY <1>9 DEF Took
  <2>3. OptionTaken(flags, item.name, item.value, rest, r)
    BY <2>1, <2>2
  <2>4. Takes(flags, list[n]) <=> converts(flags[item.name], item.value)
    BY <1>9 DEF Takes
  <2>5. \A x : Want(x, n) <=> x = <<item.name, item.value>>
    BY <1>9
  <2>6. arguments[n] = arguments[n + 1]
    BY <1>4, <1>5, <1>9
  <2>7. /\ r \in Parsed
        /\ r.ok <=> rest.ok /\ Takes(flags, list[n])
        /\ r.ok => r.positionals = rest.positionals
        /\ r.ok => \A x : Holds(r.sets, x) <=> Want(x, n) \/ Holds(rest.sets, x)
    <3> HIDE DEF r, Want
    <3> QED
      BY <2>3, <2>4, <2>5 DEF OptionTaken
  <2> HIDE DEF r, Want, N
  <2>8. r.ok <=> \A k \in n..N : Takes(flags, list[k])
    BY <1>2, <1>6, <2>7
  <2>9. r.ok => rest.ok
    BY <2>7
  <2>10. r.ok => \A x : Holds(r.sets, x) <=> \E k \in n..N : Want(x, k)
    BY <1>2, <1>6, <2>7, <2>9
  <2> QED
    BY <1>6, <2>6, <2>7, <2>8, <2>9, <2>10
<1> QED
  BY <1>3, <1>7, <1>8, <1>9

\* What an item list is parsed as: the reading of Meaning.
LEMMA ParseResult ==
  ASSUME NEW flags, NEW list, Spelled(flags, list)
  PROVE  LET r == parseInterleaved(flags, Args(wordsOf(list))) IN
         /\ r \in Parsed
         /\ r.ok <=> \A k \in 1..Len(list) : Takes(flags, list[k])
         /\ r.ok => r.positionals = argumentsOf(list)
         /\ r.ok => \A x : Holds(r.sets, x)
                           <=> \E k \in 1..Len(list) :
                                 list[k].kind = "option" /\ x = <<list[k].name, list[k].value>>
<1> DEFINE N == Len(list)
<1>0. Items(list) /\ N \in Nat
  BY ItemValues DEF Spelled
<1>1. PICK u : WordsTable(list, u) /\ wordsOf(list) = u[N]
  BY <1>0, WordsLoop
<1>2. u[N] \in Seq(Pieces) /\ Len(u[0]) = 0
  <2>1. N \in 0..N
    BY <1>0
  <2>2. Len(<<>>) = 0
    OBVIOUS
  <2> QED
    BY <1>1, <2>1, <2>2 DEF WordsTable
<1> DEFINE args == Args(u[N])
<1>3. args \in Seq(Words) /\ Len(args) = Len(u[N]) /\ Len(args) \in Nat
  BY <1>2, ArgsOfWords
<1>4. PICK from : ParseTable(flags, args, from) /\ parseInterleaved(flags, args) = from[1]
  <2> HIDE DEF args
  <2> QED
    BY <1>3, ParseLoop
<1>5. PICK arguments : ArgumentsTable(list, arguments) /\ argumentsOf(list) = arguments[1]
  BY <1>0, ArgumentsLoop
<1> DEFINE D == 0..N
           G == {n \in D : Parses(flags, list, arguments, n, from[Len(u[n]) + 1])}
           rank == [n \in D |-> N - n]
<1>6. rank \in [D -> Nat]
  BY <1>0
<1>7. N \in G
  <2>1. from[Len(u[N]) + 1] = [ok |-> TRUE, sets |-> <<>>, positionals |-> <<>>]
    <3>1. Len(args) + 1 \in 1..(Len(args) + 2) /\ Len(args) + 1 > Len(args)
      BY <1>3
    <3>2. from[Len(args) + 1] = ParseStep(flags, args, from, Len(args) + 1)
      BY <1>4, <3>1 DEF ParseTable
    <3> HIDE DEF args
    <3> QED
      BY <1>3, <3>1, <3>2 DEF ParseStep, ParseWord
  <2>2. arguments[N + 1] = <<>>
    <3>1. N + 1 \in 1..(N + 1) /\ N + 1 > N
      BY <1>0
    <3> QED
      BY <1>5, <3>1 DEF ArgumentsTable, ArgumentsAt
  <2>3. \A k : k \notin (N + 1)..N
    BY <1>0
  <2>4. \A x : ~Holds(<<>>, x)
    BY DEF Holds
  <2> DEFINE r == from[Len(u[N]) + 1]
  <2>5. r \in Parsed /\ r.ok /\ r.sets = <<>> /\ r.positionals = <<>>
    <3> HIDE DEF N
    <3> QED
      BY <2>1, ParsedKinds
  <2>6. Parses(flags, list, arguments, N, r)
    <3> HIDE DEF r
    <3> QED
      BY <2>2, <2>3, <2>4, <2>5 DEF Parses
  <2> QED
    BY <1>0, <2>6
<1>8. ASSUME NEW i \in D, \A j \in D : rank[j] < rank[i] => j \in G PROVE i \in G
  <2>1. CASE i = N
    BY <1>7, <2>1
  <2>2. CASE i # N
    <3>1. PICK j \in 1..N : j \in D /\ rank[j] < rank[i] /\ j - 1 = i
      <4>1. i + 1 \in 1..N /\ i + 1 \in D /\ rank[i + 1] < rank[i] /\ (i + 1) - 1 = i
        BY <1>0, <2>2
      <4> QED
        BY <4>1
    <3>2. Parses(flags, list, arguments, j, from[Len(u[j]) + 1])
      BY <1>8, <3>1
    <3>3. from[Len(u[i]) + 1] = Took(flags, list[j], from[Len(u[j]) + 1])
      BY <1>1, <1>4, <3>1, ItemParsed
    <3>4. Parses(flags, list, arguments, i, from[Len(u[i]) + 1])
      BY <1>0, <1>5, <3>1, <3>2, <3>3, TookParses
    <3> QED
      BY <3>4
  <2> QED
    BY <2>1, <2>2
<1>9. D \subseteq G
  <2> HIDE DEF D, G, rank
  <2> QED
    BY <1>6, <1>8, RankInduction
<1>10. Parses(flags, list, arguments, 0, from[1])
  <2>1. 0 \in D /\ Len(u[0]) + 1 = 1
    BY <1>0, <1>2
  <2> QED
    BY <1>9, <2>1
<1> DEFINE r == parseInterleaved(flags, Args(wordsOf(list)))
<1>11. Parses(flags, list, arguments, 0, r) /\ argumentsOf(list) = arguments[1]
  BY <1>1, <1>4, <1>5, <1>10
<1> HIDE DEF r
<1>12. 0 + 1 = 1
  OBVIOUS
<1> QED
  BY <1>11, <1>12 DEF Parses, r

-----------------------------------------------------------------------------
(* The options that stay, and the ones that are given twice. *)

OptionsIn(list) == {i \in 1..Len(list) : list[i].kind = "option"}

Once(list) == \A i, j \in OptionsIn(list) : i # j => list[i].name # list[j].name

ValueIn(list, name) == list[CHOOSE i \in OptionsIn(list) : list[i].name = name].value

\* Of options given once, the last value is the value.
LEMMA LastOfOnce ==
  ASSUME NEW list, Once(list), NEW sets \in Seq(Texts \X Words),
         \A x : Holds(sets, x) <=> \E k \in 1..Len(list) :
                                     list[k].kind = "option" /\ x = <<list[k].name, list[k].value>>
  PROVE  lastOf(sets) = [name \in {list[i].name : i \in OptionsIn(list)} |-> ValueIn(list, name)]
<1> DEFINE at(name) == {i \in DOMAIN sets : sets[i][1] = name}
           O == OptionsIn(list)
<1>0. Len(sets) \in Nat /\ DOMAIN sets = 1..Len(sets)
  OBVIOUS
<1>1. ASSUME NEW i \in DOMAIN sets
      PROVE  \E k \in O : sets[i] = <<list[k].name, list[k].value>>
  <2>1. Holds(sets, sets[i])
    BY DEF Holds
  <2> QED
    BY <2>1 DEF OptionsIn
<1>2. ASSUME NEW k \in O
      PROVE  \E i \in DOMAIN sets : sets[i] = <<list[k].name, list[k].value>>
  <2>1. Holds(sets, <<list[k].name, list[k].value>>)
    BY DEF OptionsIn
  <2> QED
    BY <2>1 DEF Holds
<1> HIDE DEF O
<1>3. {sets[i][1] : i \in DOMAIN sets} = {list[k].name : k \in O}
  <2>1. \A i \in DOMAIN sets : \E k \in O : sets[i][1] = list[k].name
    <3> TAKE i \in DOMAIN sets
    <3>1. PICK k \in O : sets[i] = <<list[k].name, list[k].value>>
      BY <1>1
    <3> QED
      BY <3>1
  <2>2. \A k \in O : \E i \in DOMAIN sets : sets[i][1] = list[k].name
    <3> TAKE k \in O
    <3>1. PICK i \in DOMAIN sets : sets[i] = <<list[k].name, list[k].value>>
      BY <1>2
    <3> QED
      BY <3>1
  <2>3. {sets[i][1] : i \in DOMAIN sets} \subseteq {list[k].name : k \in O}
    BY <2>1
  <2>4. {list[k].name : k \in O} \subseteq {sets[i][1] : i \in DOMAIN sets}
    BY <2>2
  <2> QED
    BY <2>3, <2>4
<1>4. ASSUME NEW name \in {list[k].name : k \in O}
      PROVE  sets[CHOOSE i \in at(name) : \A j \in at(name) : j <= i][2] = ValueIn(list, name)
  <2>1. PICK k \in O : list[k].name = name
    OBVIOUS
  <2>2. PICK a \in DOMAIN sets : sets[a] = <<list[k].name, list[k].value>>
    BY <1>2
  <2>3. a \in at(name)
    BY <2>1, <2>2
  <2>4. \E i \in at(name) : \A j \in at(name) : j <= i
    <3> DEFINE S == {Len(sets) - i : i \in at(name)}
    <3>1. S \subseteq Nat /\ S # {}
      BY <1>0, <2>3
    <3>2. PICK x \in S : \A y \in S : x <= y
      <4> HIDE DEF S
      <4> QED
        BY <3>1, LeastNumber
    <3>3. PICK i \in at(name) : x = Len(sets) - i
      BY <3>2
    <3>4. \A j \in at(name) : j <= i
      <4> TAKE j \in at(name)
      <4>1. Len(sets) - i <= Len(sets) - j
        BY <3>2, <3>3
      <4>2. i \in Nat /\ j \in Nat
        BY <1>0, <3>3
      <4> HIDE DEF at, S
      <4> QED
        BY <1>0, <4>1, <4>2
    <3> QED
      BY <3>4
  <2> DEFINE c == CHOOSE i \in at(name) : \A j \in at(name) : j <= i
             d == CHOOSE i \in O : list[i].name = name
  <2>5. c \in at(name)
    <3> HIDE DEF at
    <3> QED
      BY <2>4
  <2>6. c \in DOMAIN sets /\ sets[c][1] = name
    <3> HIDE DEF c
    <3> QED
      BY <2>5
  <2> HIDE DEF c
  <2>7. PICK l \in O : sets[c] = <<list[l].name, list[l].value>>
    BY <1>1, <2>6
  <2>8. list[l].name = name /\ sets[c][2] = list[l].value
    BY <2>6, <2>7
  <2>9. d \in O /\ list[d].name = name
    BY <2>1
  <2>10. d = l
    <3> HIDE DEF d
    <3> QED
      BY <2>7, <2>8, <2>9 DEF Once, O
  <2>11. ValueIn(list, name) = list[d].value
    BY DEF ValueIn, O
  <2> QED
    BY <2>8, <2>10, <2>11 DEF c
<1> QED
  BY <1>3, <1>4 DEF lastOf, O

\* Later items are written behind earlier ones.
LEMMA WordsInOrder ==
  ASSUME NEW list, NEW u, Items(list), WordsTable(list, u), NEW n \in 0..Len(list)
  PROVE  \A k \in 0..n : Len(u[k]) <= Len(u[n])
<1> DEFINE D == 0..Len(list)
           G == {i \in D : \A k \in 0..i : Len(u[k]) <= Len(u[i])}
           rank == [i \in D |-> i]
<1>0. Len(list) \in Nat /\ \A i \in D : Len(u[i]) \in Nat
  BY ItemValues DEF WordsTable
<1>1. rank \in [D -> Nat]
  BY <1>0
<1>2. ASSUME NEW i \in D, \A j \in D : rank[j] < rank[i] => j \in G PROVE i \in G
  <2>1. CASE i = 0
    BY <1>0, <2>1
  <2>2. CASE i # 0
    <3>1. PICK j \in D : rank[j] < rank[i] /\ j = i - 1
      <4>1. i - 1 \in D /\ rank[i - 1] < rank[i]
        BY <1>0, <2>2
      <4> QED
        BY <4>1
    <3>2. \A k \in 0..j : Len(u[k]) <= Len(u[j])
      BY <1>2, <3>1
    <3>3. i \in 1..Len(list)
      BY <1>0, <2>2
    <3>4. InPlace(list, u, i)
      BY <3>3, WordsInPlace
    <3>5. Len(u[j]) <= Len(u[i])
      <4> DEFINE a == Len(u[i - 1]) b == Len(u[i]) w == Len(written(list[i]))
      <4>1. a \in Nat /\ w \in Nat /\ b = a + w
        BY <3>4 DEF InPlace
      <4> HIDE DEF a, b, w
      <4>2. a <= b
        BY <4>1
      <4> QED
        BY <3>1, <4>2 DEF a, b
    <3>6. \A k \in 0..i : k \in 0..j \/ k = i
      BY <1>0, <3>1
    <3>7. \A k \in 0..i : Len(u[k]) <= Len(u[i])
      <4> TAKE k \in 0..i
      <4>1. k \in D
        BY <1>0
      <4>2. Len(u[k]) \in Nat /\ Len(u[j]) \in Nat /\ Len(u[i]) \in Nat
        BY <1>0, <3>1, <4>1
      <4>3. CASE k = i
        BY <4>2, <4>3
      <4>4. CASE k \in 0..j
        <5> DEFINE x == Len(u[k]) y == Len(u[j]) z == Len(u[i])
        <5>1. x \in Nat /\ y \in Nat /\ z \in Nat /\ x <= y /\ y <= z
          BY <3>2, <3>5, <4>2, <4>4
        <5> HIDE DEF x, y, z
        <5>2. x <= z
          BY ONLY <5>1
        <5> QED
          BY <5>2 DEF x, z
      <4> QED
        BY <3>6, <4>3, <4>4
    <3> QED
      BY <3>7
  <2> QED
    BY <2>1, <2>2
<1>3. D \subseteq G
  <2> HIDE DEF D, G, rank
  <2> QED
    BY <1>1, <1>2, RankInduction
<1> QED
  BY <1>3

\* A word of an item in its documented spelling.
WordOf(item, k, piece) ==
  \/ /\ k = 1 /\ item.kind = "option" /\ item.name # NoName
     /\ piece[2] = "option" /\ piece[1] # Terminator
     /\ piece[1].dashes = 2 /\ piece[1].name = item.name
     /\ piece[1].value = NoValue <=> ~WithValue(item)
  \/ k = 2 /\ BeforeValue(item) /\ piece[2] = "value" /\ piece[1] = item.value
  \/ k = 1 /\ Argument(item) /\ piece[2] = "positional" /\ piece[1] = item.value

\* The words of an item are WordOf it.
LEMMA WrittenWords ==
  ASSUME NEW item \in ItemType, IsItem(item), Plainly(item), NEW k \in 1..Len(written(item))
  PROVE  WordOf(item, k, written(item)[k])
<1>1. item.kind = "option" => item.name # NoName
  BY DEF IsItem
<1>2. CASE WithValue(item)
  <2>1. written(item) = <<<<Option(2, item.name, item.value.name), "option">>>> /\ Len(written(item)) = 1
    BY <1>2 DEF WithValue
  <2>2. k = 1 /\ written(item)[k] = <<Option(2, item.name, item.value.name), "option">>
    BY <2>1
  <2>3. item.kind = "option" /\ item.value.name # NoValue
    BY <1>2 DEF WithValue
  <2>4. /\ written(item)[k][1] # Terminator /\ written(item)[k][1].dashes = 2
        /\ written(item)[k][1].name = item.name /\ written(item)[k][1].value = item.value.name
        /\ written(item)[k][2] = "option"
    BY <1>1, <2>2, <2>3, OptionFields
  <2> QED
    BY <1>1, <1>2, <2>2, <2>3, <2>4 DEF WordOf
<1>3. CASE BeforeValue(item)
  <2>1. /\ written(item) = <<<<Option(2, item.name, NoValue), "option">>, <<item.value, "value">>>>
        /\ Len(written(item)) = 2
    BY <1>3 DEF BeforeValue
  <2>2. item.kind = "option" /\ ~WithValue(item)
    BY <1>3 DEF BeforeValue, WithValue
  <2>3. CASE k = 1
    <3>1. /\ written(item)[k][1] # Terminator /\ written(item)[k][1].dashes = 2
          /\ written(item)[k][1].name = item.name /\ written(item)[k][1].value = NoValue
          /\ written(item)[k][2] = "option"
      BY <1>1, <2>1, <2>2, <2>3, OptionFields
    <3> QED
      BY <1>1, <2>2, <2>3, <3>1 DEF WordOf
  <2>4. CASE k = 2
    <3>1. written(item)[k][2] = "value" /\ written(item)[k][1] = item.value
      BY <2>1, <2>4
    <3> QED
      BY <1>3, <2>4, <3>1 DEF WordOf
  <2> QED
    BY <2>1, <2>3, <2>4
<1>4. CASE Alone(item)
  <2>1. written(item) = <<<<Option(2, item.name, NoValue), "option">>>> /\ Len(written(item)) = 1
    BY <1>4 DEF Alone
  <2>2. item.kind = "option" /\ ~WithValue(item)
    BY <1>4 DEF Alone, WithValue
  <2>3. k = 1 /\ written(item)[k] = <<Option(2, item.name, NoValue), "option">>
    BY <2>1
  <2>4. /\ written(item)[k][1] # Terminator /\ written(item)[k][1].dashes = 2
        /\ written(item)[k][1].name = item.name /\ written(item)[k][1].value = NoValue
        /\ written(item)[k][2] = "option"
    BY <1>1, <2>2, <2>3, OptionFields
  <2> QED
    BY <1>1, <2>2, <2>3, <2>4 DEF WordOf
<1>5. CASE Argument(item)
  <2>1. written(item) = <<<<item.value, "positional">>>> /\ Len(written(item)) = 1
    BY <1>5 DEF Argument
  <2>2. k = 1 /\ written(item)[k][1] = item.value /\ written(item)[k][2] = "positional"
    BY <2>1
  <2> QED
    BY <1>5, <2>2 DEF WordOf
<1> QED
  BY <1>2, <1>3, <1>4, <1>5, Spelling

\* Every word is a word of one of the items.
LEMMA WordOfSome ==
  ASSUME NEW flags, NEW list, NEW u, Spelled(flags, list), WordsTable(list, u),
         NEW p \in 1..Len(u[Len(list)])
  PROVE  \E n \in 1..Len(list) : \E k \in 1..Len(written(list[n])) :
           p = Len(u[n - 1]) + k /\ WordOf(list[n], k, u[Len(list)][p])
<1> DEFINE N == Len(list)
           S == {n \in 0..N : p <= Len(u[n])}
<1>0. Items(list) /\ N \in Nat
  BY ItemValues DEF Spelled
<1>1. Len(u[0]) = 0
  <2>1. Len(<<>>) = 0
    OBVIOUS
  <2> QED
    BY <2>1 DEF WordsTable
<1>1a. Len(u[N]) \in Nat
  <2>1. N \in 0..N
    BY <1>0
  <2>2. u[N] \in Seq(Pieces)
    BY <2>1 DEF WordsTable
  <2> HIDE DEF N
  <2> QED
    BY <2>2
<1>1b. p \in Nat /\ p > 0
  BY <1>1a
<1>2. S \subseteq Nat /\ N \in S
  BY <1>0, <1>1a
<1>3. PICK n \in S : \A j \in S : n <= j
  <2> HIDE DEF S
  <2> QED
    BY <1>2, LeastNumber
<1>4. n # 0 /\ n \in 1..N
  <2>1. ~(p <= Len(u[0]))
    BY <1>1, <1>1b
  <2> QED
    BY <1>0, <1>3, <2>1
<1>5. ~(p <= Len(u[n - 1]))
  <2>1. n - 1 \in 0..N /\ ~(n <= n - 1)
    BY <1>0, <1>4
  <2> QED
    BY <1>3, <2>1
<1>6. InPlace(list, u, n)
  BY <1>0, <1>4, WordsInPlace
<1> DEFINE w == Len(written(list[n]))
           before == Len(u[n - 1])
<1>7. /\ before \in Nat /\ w \in Nat /\ p <= before + w
      /\ \A k \in 1..w : u[N][before + k] = written(list[n])[k]
  <2>1. Len(u[n]) = before + w
    BY <1>6 DEF InPlace
  <2> QED
    BY <1>3, <1>6, <2>1 DEF InPlace
<1>8. PICK k \in 1..w : p = before + k
  <2> HIDE DEF w, before
  <2>1. p - before \in 1..w /\ p = before + (p - before)
    BY <1>1b, <1>5, <1>7 DEF before
  <2> QED
    BY <2>1
<1>9. list[n] \in ItemType /\ IsItem(list[n]) /\ Plainly(list[n])
  BY <1>0, <1>4 DEF Items, Spelled
<1>10. WordOf(list[n], k, u[N][p])
  <2>1. WordOf(list[n], k, written(list[n])[k])
    BY <1>8, <1>9, WrittenWords
  <2> QED
    BY <1>7, <1>8, <2>1
<1> QED
  BY <1>4, <1>8, <1>10

\* Where an option is written.
LEMMA OptionPlaces ==
  ASSUME NEW flags, NEW list, NEW u, Spelled(flags, list), WordsTable(list, u),
         NEW i \in OptionsIn(list)
  PROVE  /\ Len(u[i - 1]) + 1 \in 1..Len(u[Len(list)])
         /\ u[Len(list)][Len(u[i - 1]) + 1][1].dashes = 2
         /\ u[Len(list)][Len(u[i - 1]) + 1][1].name = list[i].name
<1>1. /\ i \in 1..Len(list) /\ list[i].kind = "option" /\ Items(list)
      /\ list[i] \in ItemType /\ IsItem(list[i]) /\ Plainly(list[i])
  BY DEF OptionsIn, Spelled, Items
<1>2. InPlace(list, u, i)
  BY <1>1, WordsInPlace
<1> DEFINE w == written(list[i])
<1>3. 1 \in 1..Len(w)
  BY <1>2 DEF InPlace
<1>4. WordOf(list[i], 1, w[1])
  BY <1>1, <1>3, WrittenWords
<1>5. w[1][1].dashes = 2 /\ w[1][1].name = list[i].name
  <2>1. ~Argument(list[i]) /\ 1 # 2
    BY <1>1 DEF Argument
  <2> QED
    BY <1>4, <2>1 DEF WordOf
<1>6. /\ Len(u[i - 1]) + 1 \in 1..Len(u[Len(list)])
      /\ u[Len(list)][Len(u[i - 1]) + 1] = w[1]
  BY <1>2, <1>3 DEF InPlace
<1> QED
  BY <1>5, <1>6

\* A name is counted twice if it is given twice.
LEMMA DuplicatesFound ==
  ASSUME NEW flags, NEW list, Spelled(flags, list)
  PROVE  duplicateOption(Args(wordsOf(list))) <=> ~Once(list)
<1> DEFINE N == Len(list)
<1>0. Items(list) /\ N \in Nat
  BY ItemValues DEF Spelled
<1>1. PICK u : WordsTable(list, u) /\ wordsOf(list) = u[N]
  BY <1>0, WordsLoop
<1>2. u[N] \in Seq(Pieces)
  <2>1. N \in 0..N
    BY <1>0
  <2> QED
    BY <1>1, <2>1 DEF WordsTable
<1> DEFINE args == Args(u[N])
           place(i) == Len(u[i - 1]) + 1
<1>3. /\ args \in Seq(Words) /\ Len(args) = Len(u[N]) /\ DOMAIN args = 1..Len(u[N])
      /\ \A p \in 1..Len(u[N]) : args[p] = u[N][p][1]
  BY <1>2, ArgsOfWords
<1>4. \A p \in DOMAIN args :
        \E n \in 1..N : \E k \in 1..Len(written(list[n])) :
          p = Len(u[n - 1]) + k /\ WordOf(list[n], k, u[N][p])
  BY <1>1, <1>3, WordOfSome
<1>5. \A i \in 1..N : list[i].value.dashes = 0
  BY DEF Spelled, Plainly
<1>6. Terminator.dashes = 2
  BY DEF Terminator, Option
<1>7. \A p \in DOMAIN args : args[p] # Terminator
  <2> TAKE p \in DOMAIN args
  <2>1. PICK n \in 1..N : \E k : WordOf(list[n], k, u[N][p])
    BY <1>4
  <2>2. u[N][p][1] # Terminator
    BY <1>5, <1>6, <2>1 DEF WordOf
  <2> QED
    BY <1>3, <2>2
<1>8. \A p \in DOMAIN args : args[p].dashes = 2 =>
        \E i \in OptionsIn(list) : p = place(i) /\ args[p].name = list[i].name
  <2> TAKE p \in DOMAIN args
  <2> HAVE args[p].dashes = 2
  <2>0. PICK n \in 1..N : \E k : p = Len(u[n - 1]) + k /\ WordOf(list[n], k, u[N][p])
    BY <1>4
  <2>1. PICK k : p = Len(u[n - 1]) + k /\ WordOf(list[n], k, u[N][p])
    BY <2>0
  <2>2. args[p] = u[N][p][1]
    BY <1>3
  <2>3. k = 1 /\ list[n].kind = "option" /\ u[N][p][1].name = list[n].name
    BY <1>5, <2>1, <2>2 DEF WordOf
  <2> QED
    BY <2>1, <2>2, <2>3 DEF OptionsIn
<1>9. \A i \in OptionsIn(list) :
        place(i) \in DOMAIN args /\ args[place(i)].dashes = 2 /\ args[place(i)].name = list[i].name
  BY <1>1, <1>3, OptionPlaces
<1>10. \A i, j \in OptionsIn(list) : i # j => place(i) # place(j)
  <2>1. ASSUME NEW i \in OptionsIn(list), NEW j \in OptionsIn(list), i < j PROVE place(i) # place(j)
    <3>1. i \in 1..N /\ j \in 1..N /\ i \in 0..N /\ j - 1 \in 0..N /\ i \in 0..(j - 1)
      BY <1>0, <2>1 DEF OptionsIn
    <3>2. Len(u[i]) <= Len(u[j - 1])
      BY <1>0, <1>1, <3>1, WordsInOrder
    <3>3. InPlace(list, u, i) /\ InPlace(list, u, j)
      BY <1>0, <1>1, <3>1, WordsInPlace
    <3> DEFINE a == Len(u[i - 1]) b == Len(u[i]) w == Len(written(list[i])) c == Len(u[j - 1])
    <3>4. a \in Nat /\ b \in Nat /\ c \in Nat /\ w \in Nat /\ w > 0 /\ b = a + w /\ b <= c
      BY <3>2, <3>3 DEF InPlace
    <3> HIDE DEF a, b, c, w
    <3>5. a + 1 # c + 1
      BY <3>4
    <3> QED
      BY <3>5 DEF a, c
  <2>2. \A i, j \in OptionsIn(list) : i # j => i < j \/ j < i
    BY <1>0 DEF OptionsIn
  <2> HIDE DEF place
  <2> QED
    BY <2>1, <2>2
<1> HIDE DEF args, place
<1>11. duplicateOption(args) <=>
         \E p, q \in {r \in DOMAIN args : args[r].dashes = 2} : p # q /\ args[p].name = args[q].name
  BY <1>7 DEF duplicateOption
<1>12. ASSUME duplicateOption(args) PROVE ~Once(list)
  <2>1. PICK p \in DOMAIN args, q \in DOMAIN args :
          args[p].dashes = 2 /\ args[q].dashes = 2 /\ p # q /\ args[p].name = args[q].name
    BY <1>11, <1>12
  <2>2. PICK i \in OptionsIn(list) : p = place(i) /\ args[p].name = list[i].name
    BY <1>8, <2>1
  <2>3. PICK j \in OptionsIn(list) : q = place(j) /\ args[q].name = list[j].name
    BY <1>8, <2>1
  <2> QED
    BY <2>1, <2>2, <2>3 DEF Once
<1>13. ASSUME ~Once(list) PROVE duplicateOption(args)
  <2>1. PICK i \in OptionsIn(list), j \in OptionsIn(list) : i # j /\ list[i].name = list[j].name
    BY <1>13 DEF Once
  <2> QED
    BY <1>9, <1>10, <1>11, <2>1
<1> QED
  BY <1>1, <1>12, <1>13 DEF args

-----------------------------------------------------------------------------
(* How the command is found. *)

SplitWord(args, i, next, second) ==
  IF i > Len(args) THEN Found(NoName, <<>>)
  ELSE CASE args[i] \in {Option(2, "server", NoValue), Option(2, "timeout", NoValue)} -> second
         [] isCommand(args[i]) -> Found(args[i].name, RemoveAt(args, i))
         [] args[i] = Option(2, "version", NoValue) -> Found("version", SubSeq(args, 1, i - 1))
         [] args[i] \in {Option(2, "help", NoValue), Option(1, "h", NoValue)} -> Found("help", <<>>)
         [] args[i].dashes > 0 /\ args[i] \notin Recognised -> next
         [] OTHER -> Found(NoName, <<>>)

\* All that splitCommand may answer.
Founds(args) ==
  {Found(NoName, <<>>), Found("help", <<>>)}
  \cup {Found(args[i].name, RemoveAt(args, i)) : i \in 1..Len(args)}
  \cup {Found("version", SubSeq(args, 1, i - 1)) : i \in 1..Len(args)}

SplitTable(args, at) ==
  \A i \in 1..(Len(args) + 2) : at[i] = SplitWord(args, i, at[i + 1], at[i + 2])

\* splitCommand is the first entry of its table.
LEMMA SplitLoop ==
  ASSUME NEW args \in Seq(Words)
  PROVE  \E at : SplitTable(args, at) /\ splitCommand(args) = at[1]
<1> DEFINE V == Founds(args)
           top == Len(args) + 2
           D == 1..top
           E(f, i) == SplitWord(args, i, f[i + 1], f[i + 2])
           body == [f \in [D -> V] |-> [i \in D |-> E(f, i)]]
           rank == [i \in D |-> top - i]
<1>0. Len(args) \in Nat /\ top \in Nat /\ 1 \in D
  OBVIOUS
<1>1. rank \in [D -> Nat] /\ (\A i \in D : rank[i] <= top)
      /\ \A i, j \in D : rank[j] < rank[i] <=> j > i
  BY <1>0
<1>2. \A i \in D, next \in V, second \in V : SplitWord(args, i, next, second) \in V
  <2> TAKE i \in D, next \in V, second \in V
  <2>1. Found(NoName, <<>>) \in V /\ Found("help", <<>>) \in V
    BY DEF Founds
  <2>2. CASE i > Len(args)
    <3> HIDE DEF V
    <3> QED
      BY <2>1, <2>2 DEF SplitWord
  <2>3. CASE ~(i > Len(args))
    <3>1. i \in 1..Len(args)
      BY <1>0, <2>3
    <3>2. Found(args[i].name, RemoveAt(args, i)) \in V /\ Found("version", SubSeq(args, 1, i - 1)) \in V
      BY <3>1 DEF Founds
    <3> HIDE DEF V, D
    <3> QED
      BY <2>1, <2>3, <3>2 DEF SplitWord
  <2> QED
    BY <2>2, <2>3
<1>3. \A f \in [D -> V] : \A i \in D : E(f, i) \in V
  <2> TAKE f \in [D -> V]
  <2> TAKE i \in D
  <2>1. CASE i > Len(args)
    <3>1. Found(NoName, <<>>) \in V
      BY DEF Founds
    <3> HIDE DEF V
    <3> QED
      BY <2>1, <3>1 DEF SplitWord
  <2>2. CASE ~(i > Len(args))
    <3>1. i + 1 \in D /\ i + 2 \in D
      BY <1>0, <2>2
    <3>2. f[i + 1] \in V /\ f[i + 2] \in V
      <4> HIDE DEF D, V
      <4> QED
        BY <3>1
    <3> HIDE DEF V
    <3> QED
      BY <1>2, <3>2
  <2> QED
    BY <2>1, <2>2
<1>4. body \in [[D -> V] -> [D -> V]]
  <2> HIDE DEF D, E, V
  <2> QED
    BY <1>3
<1>5. \A f, g \in [D -> V] : \A i \in D :
        (\A j \in D : rank[j] < rank[i] => f[j] = g[j]) => body[f][i] = body[g][i]
  <2> TAKE f, g \in [D -> V]
  <2> TAKE i \in D
  <2> HAVE \A j \in D : rank[j] < rank[i] => f[j] = g[j]
  <2>1. i <= Len(args) => i + 1 \in D /\ i + 2 \in D /\ i + 1 > i /\ i + 2 > i
    BY <1>0
  <2>2. i <= Len(args) => f[i + 1] = g[i + 1] /\ f[i + 2] = g[i + 2]
    <3> HIDE DEF D, rank, V
    <3> QED
      BY <1>1, <2>1
  <2>3. E(f, i) = E(g, i)
    <3>1. CASE i <= Len(args)
      BY <2>2, <3>1
    <3>2. CASE ~(i <= Len(args))
      <4>1. i > Len(args)
        BY <1>0, <3>2
      <4> QED
        BY <4>1 DEF SplitWord
    <3> QED
      BY <3>1, <3>2
  <2>4. body[f][i] = E(f, i) /\ body[g][i] = E(g, i)
    <3> HIDE DEF D, E, V
    <3> QED
      OBVIOUS
  <2> QED
    BY <2>3, <2>4
<1>6. \E f \in [D -> V] : f = body[f]
  <2>1. V # {}
    BY DEF Founds
  <2> HIDE DEF D, body, rank, top, V
  <2>2. IsRecursion(D, V, rank, top, body)
    BY <1>0, <1>1, <1>4, <1>5, <2>1 DEF IsRecursion
  <2> QED
    BY <2>2, Recursion
<1>7. \E f : f = [i \in D |-> E(f, i)]
  <2> HIDE DEF D, E, V
  <2> QED
    BY <1>6
<1>8. PICK u : u = CHOOSE f : f = [i \in D |-> E(f, i)]
  OBVIOUS
<1>9. u = [i \in D |-> E(u, i)]
  BY <1>7, <1>8
<1>10. splitCommand(args) = u[1]
  BY <1>8 DEF splitCommand, SplitWord
<1>11. \A i \in D : u[i] = E(u, i)
  <2> HIDE DEF D, E
  <2> QED
    BY <1>9
<1> QED
  BY <1>10, <1>11 DEF SplitTable

\* What may stand before the command, in the documented spelling.
Leading(list) ==
  /\ Spelled(leadingFlags, list)
  /\ \A i \in 1..Len(list) : list[i].kind = "option" /\ list[i].name \in DOMAIN leadingFlags

\* A leading option is passed over with its value.
LEMMA LeadingPassed ==
  ASSUME NEW list, Leading(list), NEW u, WordsTable(list, u),
         NEW args \in Seq(Words), Len(u[Len(list)]) <= Len(args),
         \A p \in 1..Len(u[Len(list)]) : args[p] = u[Len(list)][p][1],
         NEW at, SplitTable(args, at), NEW n \in 1..Len(list)
  PROVE  at[Len(u[n - 1]) + 1] = at[Len(u[n]) + 1]
<1> DEFINE item == list[n]
           w == u[Len(list)]
           p == Len(u[n - 1])
           q == Len(u[n])
<1>1. /\ item \in ItemType /\ IsItem(item) /\ Plainly(item) /\ Fits(leadingFlags, item)
      /\ Items(list) /\ item.kind = "option" /\ item.name \in DOMAIN leadingFlags
  BY DEF Leading, Spelled, Items
<1>2. /\ p \in Nat /\ q \in Nat /\ Len(w) \in Nat
      /\ q = p + Len(written(item)) /\ q <= Len(w)
      /\ \A k \in 1..Len(written(item)) : p + k \in 1..Len(w) /\ w[p + k] = written(item)[k]
  <2>1. InPlace(list, u, n)
    BY <1>1, WordsInPlace
  <2> QED
    BY <2>1 DEF InPlace
<1>3. Len(args) \in Nat /\ Len(w) <= Len(args) /\ \A k \in 1..Len(w) : args[k] = w[k][1]
  OBVIOUS
<1>4. \A i \in 1..(Len(args) + 2) : at[i] = SplitWord(args, i, at[i + 1], at[i + 2])
  BY DEF SplitTable
<1>5. item.name \notin {"version", "help", "h"} /\ item.name # NoName
  BY <1>1, ReservedNames DEF Reserved
<1>6. /\ \A i : args[i].dashes = 2 => ~isCommand(args[i])
      /\ \A word \in Recognised : word.value = NoValue /\ word.name \in {"server", "timeout", "version", "help", "h"}
      /\ Option(2, "server", NoValue) \in Recognised /\ Option(2, "timeout", NoValue) \in Recognised
  BY DEF isCommand, Recognised, Option
<1>7. /\ Option(2, "version", NoValue).name = "version" /\ Option(2, "help", NoValue).name = "help"
      /\ Option(1, "h", NoValue).name = "h"
      /\ Option(2, "server", NoValue).name = "server" /\ Option(2, "timeout", NoValue).name = "timeout"
      /\ Option(2, "server", NoValue).value = NoValue /\ Option(2, "timeout", NoValue).value = NoValue
  BY DEF Option
<1> HIDE DEF item, w, p, q
<1>8. CASE WithValue(item)
  <2>1. written(item) = <<<<Option(2, item.name, item.value.name), "option">>>> /\ Len(written(item)) = 1
    BY <1>8 DEF WithValue
  <2>2. args[p + 1] = Option(2, item.name, item.value.name) /\ p + 1 \in 1..Len(args) /\ q = p + 1
    BY <1>2, <1>3, <2>1
  <2>3. at[p + 1] = SplitWord(args, p + 1, at[q + 1], at[q + 2])
    BY <1>2, <1>3, <1>4, <2>2
  <2>4. /\ args[p + 1].dashes = 2 /\ args[p + 1].name = item.name
        /\ args[p + 1].value = item.value.name /\ item.value.name # NoValue
    BY <1>8, <2>2, OptionFields DEF WithValue
  <2>5. ~(p + 1 > Len(args))
    BY <1>2, <1>3, <2>2
  <2>5a. args[p + 1] \notin Recognised
    BY <1>6, <2>4
  <2>6. SplitWord(args, p + 1, at[q + 1], at[q + 2]) = at[q + 1]
    BY <1>5, <1>6, <1>7, <2>4, <2>5, <2>5a DEF SplitWord
  <2> QED
    BY <2>3, <2>6 DEF p, q
<1>9. CASE BeforeValue(item)
  <2>1. /\ written(item) = <<<<Option(2, item.name, NoValue), "option">>, <<item.value, "value">>>>
        /\ Len(written(item)) = 2
    BY <1>9 DEF BeforeValue
  <2>2. args[p + 1] = Option(2, item.name, NoValue) /\ p + 1 \in 1..Len(args) /\ q = p + 2
    BY <1>2, <1>3, <2>1
  <2>3. at[p + 1] = SplitWord(args, p + 1, at[p + 2], at[q + 1])
    <3>1. at[p + 1] = SplitWord(args, p + 1, at[(p + 1) + 1], at[(p + 1) + 2])
      BY <1>2, <1>3, <1>4, <2>2
    <3>2. (p + 1) + 1 = p + 2 /\ (p + 1) + 2 = q + 1
      BY <1>2, <2>2
    <3> QED
      BY <3>1, <3>2
  <2>4. /\ args[p + 1].dashes = 2 /\ args[p + 1].name = item.name /\ args[p + 1].value = NoValue
    BY <2>2, OptionFields
  <2>5. ~(p + 1 > Len(args))
    BY <1>2, <1>3, <2>2
  <2>6. item.name \in {"server", "timeout"}
    BY <1>1, <1>9, LeadingKinds DEF Fits, BeforeValue
  <2>7. args[p + 1] \in {Option(2, "server", NoValue), Option(2, "timeout", NoValue)}
    BY <2>2, <2>6
  <2>7a. args[p + 1] \in Recognised
    BY <1>6, <2>7
  <2>8. SplitWord(args, p + 1, at[p + 2], at[q + 1]) = at[q + 1]
    BY <1>5, <1>6, <1>7, <2>4, <2>5, <2>6, <2>7, <2>7a DEF SplitWord
  <2> QED
    BY <2>3, <2>8 DEF p, q
<1>10. CASE Alone(item)
  <2>1. written(item) = <<<<Option(2, item.name, NoValue), "option">>>> /\ Len(written(item)) = 1
    BY <1>10 DEF Alone
  <2>2. args[p + 1] = Option(2, item.name, NoValue) /\ p + 1 \in 1..Len(args) /\ q = p + 1
    BY <1>2, <1>3, <2>1
  <2>3. at[p + 1] = SplitWord(args, p + 1, at[q + 1], at[q + 2])
    BY <1>2, <1>3, <1>4, <2>2
  <2>4. args[p + 1].dashes = 2 /\ args[p + 1].name = item.name /\ args[p + 1].value = NoValue
    BY <2>2, OptionFields
  <2>5. ~(p + 1 > Len(args))
    BY <1>2, <1>3, <2>2
  <2>6. item.name \notin {"server", "timeout"}
    BY <1>1, <1>10, LeadingKinds DEF Fits, Alone
  <2>6a. args[p + 1] \notin Recognised
    BY <1>5, <1>6, <2>4, <2>6
  <2>7. SplitWord(args, p + 1, at[q + 1], at[q + 2]) = at[q + 1]
    BY <1>5, <1>6, <1>7, <2>4, <2>5, <2>6, <2>6a DEF SplitWord
  <2> QED
    BY <2>3, <2>7 DEF p, q
<1> QED
  <2>1. ~Argument(item)
    BY <1>1 DEF Argument
  <2> QED
    BY <1>1, <1>8, <1>9, <1>10, <2>1, Spelling

WithMiddle(a, x, b, s) ==
  a \in Seq(Words) /\ b \in Seq(Words) /\ x \in Words /\ s \in Seq(Words) /\ s = (a \o <<x>>) \o b

WithoutMiddle(a, x, b, s) ==
  /\ Len(a) \in Nat /\ Len(s) = Len(a) + 1 + Len(b) /\ s[Len(a) + 1] = x
  /\ \A i \in 1..Len(a) : s[i] = a[i]
  /\ RemoveAt(s, Len(a) + 1) = a \o b

\* RemoveAt and SubSeq around the middle of a sequence.
LEMMA RemoveMiddle ==
  ASSUME NEW a, NEW b, NEW x, NEW s, WithMiddle(a, x, b, s)
  PROVE  WithoutMiddle(a, x, b, s)
<1> USE DEF WithMiddle
<1> DEFINE m == Len(a)
           n == Len(b)
           ax == a \o <<x>>
<1>1. /\ m \in Nat /\ n \in Nat /\ ax \in Seq(Words) /\ Len(ax) = m + 1 /\ ax[m + 1] = x
      /\ \A i \in 1..m : ax[i] = a[i]
  OBVIOUS
<1> HIDE DEF ax
<1>2. /\ Len(s) = m + 1 + n
      /\ \A i \in 1..(m + 1) : s[i] = ax[i]
      /\ \A i \in 1..n : s[(m + 1) + i] = b[i]
  BY <1>1 DEF ax
<1>3. s[m + 1] = x /\ \A i \in 1..m : s[i] = a[i]
  <2>1. m + 1 \in 1..(m + 1) /\ \A i \in 1..m : i \in 1..(m + 1)
    BY <1>1
  <2> QED
    BY <1>1, <1>2, <2>1
<1>4. SubSeq(s, 1, (m + 1) - 1) = a
  <2>1. (m + 1) - 1 = m
    BY <1>1
  <2>2. \A i \in 1..m : s[i] \in Words
    BY <1>3
  <2>3. /\ SubSeq(s, 1, m) \in Seq(Words)
        /\ Len(SubSeq(s, 1, m)) = IF 1 <= m THEN m - 1 + 1 ELSE 0
        /\ \A i \in 1..(m - 1 + 1) : SubSeq(s, 1, m)[i] = s[1 + i - 1]
    BY <1>1, <2>2, SubSeqProperties
  <2> DEFINE t == SubSeq(s, 1, m)
  <2>4. t \in Seq(Words) /\ Len(t) = m
    BY <1>1, <2>3
  <2>5. \A i \in 1..m : t[i] = a[i]
    <3> TAKE i \in 1..m
    <3>1. i \in 1..(m - 1 + 1) /\ 1 + i - 1 = i
      BY <1>1
    <3> QED
      BY <1>3, <2>3, <3>1
  <2> HIDE DEF t
  <2>6. t = a
    BY <1>1, <2>4, <2>5, SeqEqual
  <2> QED
    BY <2>1, <2>6 DEF t
<1>5. SubSeq(s, (m + 1) + 1, Len(s)) = b
  <2> DEFINE l == (m + 1) + 1
             r == Len(s)
             t == SubSeq(s, l, r)
  <2>1. l \in Int /\ r \in Int /\ (r - l) + 1 = n
    BY <1>1, <1>2
  <2>2. \A i \in l..r : s[i] \in Words
    BY <1>1
  <2> HIDE DEF l, r, t
  <2>0. l \in Int /\ r \in Int
    BY <2>1
  <2>3. t \in Seq(Words)
    BY <2>0, <2>2, SubSeqProperties DEF t
  <2>3a. Len(t) = IF l <= r THEN r - l + 1 ELSE 0
    BY <2>0, <2>2, SubSeqProperties DEF t
  <2>3b. \A i \in 1..(r - l + 1) : t[i] = s[l + i - 1]
    <3>1. ASSUME l \in Int, r \in Int, \A i \in l..r : s[i] \in Words
          PROVE  \A i \in 1..(r - l + 1) : SubSeq(s, l, r)[i] = s[l + i - 1]
      BY ONLY <3>1, SubSeqProperties
    <3> QED
      BY <2>0, <2>2, <3>1 DEF t
  <2>4. t \in Seq(Words) /\ Len(t) = n
    BY <1>1, <2>1, <2>3, <2>3a
  <2>5. \A i \in 1..n : t[i] = b[i]
    <3> TAKE i \in 1..n
    <3>1. i \in 1..(r - l + 1) /\ l + i - 1 = (m + 1) + i
      BY <1>1, <2>1 DEF l
    <3> QED
      BY <1>2, <2>3b, <3>1
  <2>6. t = b
    BY <1>1, <2>4, <2>5, SeqEqual
  <2> QED
    BY <2>6 DEF l, r, t
<1> QED
  BY <1>1, <1>2, <1>3, <1>4, <1>5 DEF RemoveAt, WithoutMiddle

\* Args of joined pieces.
LEMMA ArgsOfBoth ==
  ASSUME NEW v \in Seq(Pieces), NEW w \in Seq(Pieces)
  PROVE  Args(v \o w) = Args(v) \o Args(w)
<1> DEFINE m == Len(v)
           n == Len(w)
           x == v \o w
<1>1. /\ m \in Nat /\ n \in Nat /\ x \in Seq(Pieces) /\ Len(x) = m + n
      /\ \A i \in 1..m : x[i] = v[i]
      /\ \A i \in 1..n : x[m + i] = w[i]
  OBVIOUS
<1> HIDE DEF x
<1>2. Args(x) \in Seq(Words) /\ Len(Args(x)) = m + n /\ \A k \in 1..(m + n) : Args(x)[k] = x[k][1]
  BY <1>1, ArgsOfWords
<1>3. Args(v) \in Seq(Words) /\ Len(Args(v)) = m /\ \A k \in 1..m : Args(v)[k] = v[k][1]
  BY ArgsOfWords
<1>4. Args(w) \in Seq(Words) /\ Len(Args(w)) = n /\ \A k \in 1..n : Args(w)[k] = w[k][1]
  BY ArgsOfWords
<1> DEFINE a == Args(v) b == Args(w) c == Args(x)
<1> HIDE DEF a, b, c
<1>5. a \in Seq(Words) /\ b \in Seq(Words) /\ c \in Seq(Words) /\ Len(a) = m /\ Len(b) = n /\ Len(c) = m + n
  BY <1>2, <1>3, <1>4 DEF a, b, c
<1>6. /\ a \o b \in Seq(Words) /\ Len(a \o b) = m + n
      /\ \A i \in 1..m : (a \o b)[i] = a[i]
      /\ \A i \in 1..n : (a \o b)[m + i] = b[i]
  BY <1>1, <1>5
<1>7. \A i \in 1..(m + n) : c[i] = (a \o b)[i]
  <2> TAKE i \in 1..(m + n)
  <2>1. CASE i <= m
    <3>1. i \in 1..m
      BY <1>1, <2>1
    <3>2. c[i] = x[i][1] /\ x[i] = v[i]
      BY <1>1, <1>2, <3>1 DEF c
    <3>3. (a \o b)[i] = a[i] /\ a[i] = v[i][1]
      BY <1>3, <1>6, <3>1 DEF a
    <3> QED
      BY <3>2, <3>3
  <2>2. CASE ~(i <= m)
    <3>1. PICK j \in 1..n : m + j = i
      <4>1. i - m \in 1..n /\ m + (i - m) = i
        BY <1>1, <2>2
      <4> QED
        BY <4>1
    <3>2. c[i] = x[i][1] /\ x[i] = w[j]
      BY <1>1, <1>2, <3>1 DEF c
    <3>3. (a \o b)[i] = b[j] /\ b[j] = w[j][1]
      BY <1>4, <1>6, <3>1 DEF b
    <3> QED
      BY <3>2, <3>3
  <2> QED
    BY <2>1, <2>2
<1>8. c = a \o b
  <2> DEFINE d == a \o b
  <2>1. d \in Seq(Words) /\ Len(d) = Len(c) /\ c \in Seq(Words) /\ \A i \in 1..Len(c) : c[i] = d[i]
    BY <1>5, <1>6, <1>7
  <2> HIDE DEF d
  <2>2. c = d
    BY <2>1, SeqEqual
  <2> QED
    BY <2>2 DEF d
<1> QED
  BY <1>8 DEF a, b, c, x

\* A command line whose leading items are options of every command.
Commanded(before, command, after) ==
  /\ Leading(before) /\ command \in DOMAIN commandSpecs
  /\ Spelled(commandSpecs[command], after)

Line(before, command, after) ==
  wordsOf(before) \o <<<<Word(command), "command">>>> \o wordsOf(after)

\* The words of a command line, in three parts.
LineParts(before, command, after, line) ==
  /\ wordsOf(before) \in Seq(Pieces) /\ wordsOf(after) \in Seq(Pieces)
  /\ Len(wordsOf(before)) \in Nat
  /\ line \in Seq(Words)
  /\ Len(line) = Len(wordsOf(before)) + 1 + Len(wordsOf(after))
  /\ line[Len(wordsOf(before)) + 1] = Word(command)
  /\ \A i \in 1..Len(wordsOf(before)) : line[i] = wordsOf(before)[i][1]
  /\ RemoveAt(line, Len(wordsOf(before)) + 1) = Args(wordsOf(before \o after))

\* A command line has its three parts.
LEMMA LinesHaveParts ==
  ASSUME NEW before, NEW command \in DOMAIN commandSpecs, NEW after, Items(before), Items(after)
  PROVE  LineParts(before, command, after, Args(Line(before, command, after)))
<1> DEFINE v == wordsOf(before)
           w == wordsOf(after)
           mid == <<Word(command), "command">>
<1>1. v \in Seq(Pieces) /\ w \in Seq(Pieces) /\ wordsOf(before \o after) = v \o w
  BY WordsOfBoth
<1>2. mid \in Pieces /\ mid[1] = Word(command) /\ Word(command) \in Words
  <2>1. command \in Texts
    BY DEF Texts
  <2>2. Word(command) \in Words
    BY <2>1, ParsedKinds
  <2> QED
    BY <2>2 DEF Pieces, WordRoles
<1> HIDE DEF v, w, mid
<1>3. <<mid>> \in Seq(Pieces) /\ Len(<<mid>>) = 1 /\ v \o <<mid>> \in Seq(Pieces)
      /\ (v \o <<mid>>) \o w \in Seq(Pieces)
  BY <1>1, <1>2
<1>4. Args(<<mid>>) = <<Word(command)>>
  <2>1. <<mid>>[1] = mid
    OBVIOUS
  <2> QED
    BY <1>2, <1>3, <2>1 DEF Args
<1> DEFINE a == Args(v) b == Args(w) s == Args((v \o <<mid>>) \o w)
<1>5. s = (a \o <<Word(command)>>) \o b /\ Args(wordsOf(before \o after)) = a \o b
  <2>1. Args(v \o <<mid>>) = Args(v) \o Args(<<mid>>)
    BY <1>1, <1>3, ArgsOfBoth
  <2>2. Args((v \o <<mid>>) \o w) = Args(v \o <<mid>>) \o Args(w)
    BY <1>1, <1>3, ArgsOfBoth
  <2>3. Args(wordsOf(before \o after)) = Args(v) \o Args(w)
    BY <1>1, ArgsOfBoth
  <2> QED
    BY <1>4, <2>1, <2>2, <2>3
<1>6. a \in Seq(Words) /\ b \in Seq(Words) /\ s \in Seq(Words) /\ Len(a) = Len(v) /\ Len(b) = Len(w)
  BY <1>1, <1>3, ArgsOfWords
<1>7. \A i \in 1..Len(v) : a[i] = v[i][1]
  BY <1>1, ArgsOfWords
<1> HIDE DEF a, b, s
<1>8. WithoutMiddle(a, Word(command), b, s)
  <2>1. WithMiddle(a, Word(command), b, s)
    BY <1>2, <1>5, <1>6 DEF WithMiddle
  <2> QED
    BY <2>1, RemoveMiddle
<1>9. s = Args(Line(before, command, after))
  BY <1>1 DEF s, v, w, mid, Line
<1>10. v = wordsOf(before) /\ w = wordsOf(after)
  BY DEF v, w
<1> QED
  BY <1>1, <1>5, <1>6, <1>7, <1>8, <1>9, <1>10 DEF LineParts, WithoutMiddle

\* The command behind its leading options is found, and what is left are the
\* words of all items.
LEMMA CommandFound ==
  ASSUME NEW before, NEW command, NEW after, Commanded(before, command, after)
  PROVE  splitCommand(Args(Line(before, command, after)))
           = Found(command, Args(wordsOf(before \o after)))
<1> DEFINE args == Args(Line(before, command, after))
           N == Len(before)
<1>0. /\ Leading(before) /\ Items(before) /\ Items(after) /\ command \in DOMAIN commandSpecs
      /\ N \in Nat
  BY ItemValues DEF Commanded, Leading, Spelled
<1>1. LineParts(before, command, after, args)
  BY <1>0, LinesHaveParts
<1> HIDE DEF args
<1>2. PICK u : WordsTable(before, u) /\ wordsOf(before) = u[N]
  BY <1>0, WordsLoop
<1>3. Len(u[0]) = 0
  <2>1. Len(<<>>) = 0
    OBVIOUS
  <2> QED
    BY <1>2, <2>1 DEF WordsTable
<1> DEFINE c == Len(u[N]) + 1
<1>4. /\ args \in Seq(Words) /\ Len(args) \in Nat /\ Len(u[N]) \in Nat
      /\ c \in 1..Len(args) /\ Len(u[N]) <= Len(args)
      /\ args[c] = Word(command) /\ RemoveAt(args, c) = Args(wordsOf(before \o after))
      /\ \A p \in 1..Len(u[N]) : args[p] = u[N][p][1]
  <2> DEFINE a == wordsOf(before) b == wordsOf(after)
  <2>1. /\ args \in Seq(Words) /\ Len(a) \in Nat /\ Len(b) \in Nat /\ Len(args) = Len(a) + 1 + Len(b)
        /\ args[Len(a) + 1] = Word(command)
        /\ RemoveAt(args, Len(a) + 1) = Args(wordsOf(before \o after))
        /\ \A p \in 1..Len(a) : args[p] = a[p][1]
    <3>1. b \in Seq(Pieces)
      BY <1>1 DEF LineParts
    <3>2. Len(b) \in Nat
      BY <3>1
    <3> QED
      BY <1>1, <3>2 DEF LineParts
  <2>2. a = u[N]
    BY <1>2
  <2> HIDE DEF a, b
  <2> QED
    BY <2>1, <2>2
<1>5. PICK at : SplitTable(args, at) /\ splitCommand(args) = at[1]
  BY <1>4, SplitLoop
<1>6. at[c] = Found(command, RemoveAt(args, c))
  <2>1. at[c] = SplitWord(args, c, at[c + 1], at[c + 2])
    <3>1. c \in 1..(Len(args) + 2)
      BY <1>4
    <3> QED
      BY <1>5, <3>1 DEF SplitTable
  <2>2. /\ isCommand(args[c]) /\ args[c].name = command /\ ~(c > Len(args))
        /\ args[c] \notin {Option(2, "server", NoValue), Option(2, "timeout", NoValue)}
    <3>1. \A text : Word(text).dashes = 0 /\ Word(text).name = text
      BY DEF Word
    <3>2. Option(2, "server", NoValue).dashes = 2 /\ Option(2, "timeout", NoValue).dashes = 2
      BY DEF Option
    <3> HIDE DEF c
    <3>3. ~(c > Len(args))
      BY <1>4
    <3> QED
      BY <1>0, <1>4, <3>1, <3>2, <3>3 DEF isCommand
  <2>3. /\ args[c] # Option(2, "version", NoValue)
        /\ args[c] \notin {Option(2, "help", NoValue), Option(1, "h", NoValue)}
        /\ ~(args[c].dashes > 0)
    <3>1. args[c].dashes = 0
      BY <2>2 DEF isCommand
    <3>2. /\ Option(2, "version", NoValue).dashes = 2 /\ Option(2, "help", NoValue).dashes = 2
          /\ Option(1, "h", NoValue).dashes = 1
      BY DEF Option
    <3> HIDE DEF c
    <3> QED
      BY <3>1, <3>2
  <2> HIDE DEF c
  <2> QED
    BY <2>1, <2>2, <2>3 DEF SplitWord
<1> DEFINE D == 0..N
           G == {n \in D : at[Len(u[n]) + 1] = at[c]}
           rank == [n \in D |-> N - n]
<1>7. rank \in [D -> Nat]
  BY <1>0
<1>8. ASSUME NEW i \in D, \A j \in D : rank[j] < rank[i] => j \in G PROVE i \in G
  <2>1. CASE i = N
    BY <2>1
  <2>2. CASE i # N
    <3>1. PICK j \in 1..N : j \in D /\ rank[j] < rank[i] /\ j - 1 = i
      <4>1. i + 1 \in 1..N /\ i + 1 \in D /\ rank[i + 1] < rank[i] /\ (i + 1) - 1 = i
        BY <1>0, <2>2
      <4> QED
        BY <4>1
    <3>2. at[Len(u[j]) + 1] = at[c]
      BY <1>8, <3>1
    <3>3. at[Len(u[j - 1]) + 1] = at[Len(u[j]) + 1]
      BY <1>0, <1>2, <1>4, <1>5, LeadingPassed
    <3> QED
      BY <3>1, <3>2, <3>3
  <2> QED
    BY <2>1, <2>2
<1>9. D \subseteq G
  <2> HIDE DEF D, G, rank
  <2> QED
    BY <1>7, <1>8, RankInduction
<1>10. at[1] = at[c]
  <2>1. 0 \in D /\ Len(u[0]) + 1 = 1
    BY <1>0, <1>3
  <2> QED
    BY <1>9, <2>1
<1> QED
  BY <1>4, <1>5, <1>6, <1>10 DEF args

\* A word that ends the search at once.
LEMMA SplitAtOnce ==
  ASSUME NEW args \in Seq(Words), Len(args) > 0,
         args[1] \in {Option(2, "help", NoValue), Option(2, "version", NoValue)}
  PROVE  splitCommand(args)
           = Found(IF args[1] = Option(2, "help", NoValue) THEN "help" ELSE "version", <<>>)
<1>1. PICK at : SplitTable(args, at) /\ splitCommand(args) = at[1]
  BY SplitLoop
<1>2. at[1] = SplitWord(args, 1, at[2], at[3])
  <2>1. 1 \in 1..(Len(args) + 2) /\ 1 + 1 = 2 /\ 1 + 2 = 3
    OBVIOUS
  <2> QED
    BY <1>1, <2>1 DEF SplitTable
<1>3. /\ Option(2, "version", NoValue).dashes = 2 /\ Option(2, "help", NoValue).dashes = 2
      /\ Option(2, "version", NoValue).name = "version" /\ Option(2, "help", NoValue).name = "help"
      /\ Option(2, "server", NoValue).name = "server" /\ Option(2, "timeout", NoValue).name = "timeout"
      /\ Option(1, "h", NoValue).name = "h"
      /\ Option(2, "version", NoValue) \in Recognised /\ Option(2, "help", NoValue) \in Recognised
  BY DEF Option, Recognised
<1>4. ~isCommand(args[1]) /\ ~(1 > Len(args))
  BY <1>3 DEF isCommand
<1>5. SubSeq(args, 1, 1 - 1) = <<>>
  <2>1. SubSeq(args, 1, 0) = <<>>
    BY SubSeqEmpty
  <2> QED
    BY <2>1
<1> DEFINE s == SubSeq(args, 1, 1 - 1)
<1> HIDE DEF s
<1>6. CASE args[1] = Option(2, "help", NoValue)
  <2>1. /\ args[1] \notin {Option(2, "server", NoValue), Option(2, "timeout", NoValue)}
        /\ args[1] # Option(2, "version", NoValue) /\ args[1] \in Recognised
    BY <1>3, <1>6
  <2> QED
    <3>1. \A next, second : SplitWord(args, 1, next, second) = Found("help", <<>>)
      BY <1>4, <1>6, <2>1 DEF SplitWord
    <3> QED
      BY <1>1, <1>2, <1>6, <3>1
<1>7. CASE args[1] = Option(2, "version", NoValue)
  <2>1. /\ args[1] \notin {Option(2, "server", NoValue), Option(2, "timeout", NoValue)}
        /\ args[1] \notin {Option(2, "help", NoValue), Option(1, "h", NoValue)}
        /\ args[1] \in Recognised
    BY <1>3, <1>7
  <2> QED
    <3>1. \A next, second : SplitWord(args, 1, next, second) = Found("version", SubSeq(args, 1, 1 - 1))
      BY <1>4, <1>7, <2>1 DEF SplitWord
    <3>2. args[1] # Option(2, "help", NoValue)
      BY <2>1
    <3> QED
      BY <1>1, <1>2, <1>5, <3>1, <3>2
<1> QED
  BY <1>6, <1>7

-----------------------------------------------------------------------------
(* A documented command line is understood as it is meant. *)

\* The options before the command are read as the command reads them.
LEMMA SpelledItems ==
  ASSUME NEW before, NEW command, NEW after, Commanded(before, command, after)
  PROVE  Spelled(commandSpecs[command], before \o after)
<1> DEFINE flags == commandSpecs[command]
           list == before \o after
           M == Len(before)
           N == Len(after)
<1>1. /\ Leading(before) /\ Spelled(leadingFlags, before) /\ Spelled(flags, after)
      /\ command \in DOMAIN commandSpecs
  BY DEF Commanded, Leading
<1>2. Items(before) /\ Items(after)
  BY <1>1 DEF Spelled
<1>3. /\ Items(list) /\ M \in Nat /\ N \in Nat /\ Len(list) = M + N
      /\ \A i \in 1..M : list[i] = before[i]
      /\ \A i \in 1..N : list[M + i] = after[i]
  BY <1>2, ItemsOfBoth
<1>4. \A i \in 1..M : Plainly(before[i]) /\ Fits(flags, before[i])
  <2> TAKE i \in 1..M
  <2> DEFINE item == before[i]
  <2>1. /\ Plainly(item) /\ Fits(leadingFlags, item) /\ item.kind = "option"
        /\ item.name \in DOMAIN leadingFlags
    BY <1>1 DEF Leading, Spelled
  <2> HIDE DEF item
  <2>2. item.name \in DOMAIN flags => flags[item.name] = leadingFlags[item.name]
    BY <1>1, <2>1, SameKind
  <2>3. Fits(flags, item)
    BY <2>1, <2>2 DEF Fits
  <2> QED
    BY <2>1, <2>3 DEF item
<1>5. \A i \in 1..N : Plainly(after[i]) /\ Fits(flags, after[i])
  BY <1>1 DEF Spelled
<1> HIDE DEF list, flags
<1>6. \A i \in 1..Len(list) : Plainly(list[i]) /\ Fits(flags, list[i])
  <2> TAKE i \in 1..Len(list)
  <2>1. CASE i <= M
    <3>1. i \in 1..M
      BY <1>3, <2>1
    <3> QED
      BY <1>3, <1>4, <3>1
  <2>2. CASE ~(i <= M)
    <3>1. PICK j \in 1..N : M + j = i
      <4>1. i - M \in 1..N /\ M + (i - M) = i
        BY <1>3, <2>2
      <4> QED
        BY <4>1
    <3> QED
      BY <1>3, <1>5, <3>1
  <2> QED
    BY <2>1, <2>2
<1> QED
  BY <1>3, <1>6 DEF Spelled, list, flags

HelpItem == Switch("help", 2)

HelpWord == Option(2, "help", NoValue)

\* --help is one word.
LEMMA HelpIsWritten ==
  /\ HelpItem \in ItemType => IsItem(HelpItem)
  /\ HelpItem.kind = "option" /\ HelpItem.name = "help"
  /\ written(HelpItem) = <<<<HelpWord, "option">>>>
<1>1. /\ HelpItem.kind = "option" /\ HelpItem.name = "help" /\ HelpItem.glue = "none"
      /\ HelpItem.dashes = 2
  BY DEF HelpItem, Switch, Opt
<1>2. written(HelpItem) = <<<<HelpWord, "option">>>>
  BY <1>1 DEF written, HelpWord
<1>3. IsItem(HelpItem)
  <2>1. HelpItem.value.value = NoValue
    BY DEF HelpItem, Switch, Opt, Word
  <2>2. HelpItem.name # NoName
    BY <1>1 DEF NoName
  <2>3. HelpItem = Switch(HelpItem.name, HelpItem.dashes)
    BY <1>1 DEF HelpItem
  <2>4. HelpItem.kind # "arg" /\ HelpItem.dashes > 0
    BY <1>1
  <2> QED
    BY <2>1, <2>2, <2>3, <2>4 DEF IsItem
<1> QED
  BY <1>1, <1>2, <1>3

\* Only --help alone is written as --help alone.
LEMMA HelpAlone ==
  ASSUME NEW flags, NEW list, Spelled(flags, list)
  PROVE  /\ Args(wordsOf(list)) = <<HelpWord>> <=> list = <<HelpItem>>
         /\ Args(wordsOf(list)) # <<Option(1, "h", NoValue)>>
<1> DEFINE N == Len(list)
<1>0. Items(list) /\ N \in Nat /\ list \in Seq(ItemType)
  BY ItemValues DEF Spelled, Items
<1>1. PICK u : WordsTable(list, u) /\ wordsOf(list) = u[N]
  BY <1>0, WordsLoop
<1>2. u[N] \in Seq(Pieces) /\ u[0] = <<>> /\ Len(u[0]) = 0
  <2>1. N \in 0..N
    BY <1>0
  <2>2. Len(<<>>) = 0
    OBVIOUS
  <2> QED
    BY <1>1, <2>1, <2>2 DEF WordsTable
<1> DEFINE args == Args(u[N])
<1>3. /\ args \in Seq(Words) /\ Len(args) = Len(u[N]) /\ Len(args) \in Nat
      /\ \A p \in 1..Len(u[N]) : args[p] = u[N][p][1]
  BY <1>2, ArgsOfWords
<1> HIDE DEF args
<1>4. \A x : args = <<x>> => Len(args) = 1 /\ args[1] = x
  OBVIOUS
<1>5. \A i \in 1..N : list[i].value.dashes = 0 /\ list[i] \in ItemType /\ IsItem(list[i]) /\ Plainly(list[i])
  BY <1>0 DEF Spelled, Plainly, Items
<1>6. ASSUME Len(args) = 1
      PROVE  N = 1 /\ WordOf(list[1], 1, u[N][1]) /\ Len(written(list[1])) = 1
  <2>1. 1 \in 1..Len(u[N])
    BY <1>3, <1>6
  <2>2. PICK n \in 1..N : \E k \in 1..Len(written(list[n])) :
          1 = Len(u[n - 1]) + k /\ WordOf(list[n], k, u[N][1])
    BY <1>1, <2>1, WordOfSome
  <2>3. PICK k \in 1..Len(written(list[n])) : 1 = Len(u[n - 1]) + k /\ WordOf(list[n], k, u[N][1])
    BY <2>2
  <2>4. \A j \in 1..N : InPlace(list, u, j)
    BY <1>0, <1>1, WordsInPlace
  <2>5. \A j \in 1..N : Len(u[j - 1]) = 0 /\ Len(u[j]) = 1 /\ Len(written(list[j])) = 1
    <3> TAKE j \in 1..N
    <3> DEFINE a == Len(u[j - 1]) b == Len(u[j]) w == Len(written(list[j])) l == Len(u[N])
    <3>1. a \in Nat /\ b \in Nat /\ w \in Nat /\ w > 0 /\ b = a + w /\ b <= l
      BY <2>4 DEF InPlace
    <3>2. l = 1
      BY <1>3, <1>6
    <3> HIDE DEF a, b, w, l
    <3>3. a = 0 /\ b = 1 /\ w = 1
      BY <3>1, <3>2
    <3> QED
      BY <3>3 DEF a, b, w
  <2>6. k = 1
    <3> DEFINE a == Len(u[n - 1]) w == Len(written(list[n]))
    <3>1. a = 0 /\ w = 1
      BY <2>5
    <3>2. k \in 1..w
      OBVIOUS
    <3> HIDE DEF a, w
    <3> QED
      BY <3>1, <3>2
  <2>7. N = 1
    <3> SUFFICES ASSUME N # 1 PROVE FALSE
      OBVIOUS
    <3>0. N \in Nat /\ n \in 1..N /\ N # 1
      BY <1>0, <2>2
    <3>1. 2 \in 1..N /\ 1 \in 1..N /\ 2 - 1 = 1
      <4> HIDE DEF N
      <4> QED
        BY <3>0
    <3>2. Len(u[1]) = 1 /\ Len(u[2 - 1]) = 0
      BY <2>5, <3>1
    <3> QED
      BY <3>1, <3>2
  <2>8. n = 1
    BY <2>7
  <2> QED
    BY <2>3, <2>5, <2>6, <2>7, <2>8
<1>7. ASSUME args = <<HelpWord>> PROVE list = <<HelpItem>>
  <2>1. N = 1 /\ WordOf(list[1], 1, u[N][1]) /\ Len(written(list[1])) = 1 /\ args[1] = HelpWord
    BY <1>4, <1>6, <1>7
  <2>2. 1 \in 1..N /\ u[N][1][1] = HelpWord
    BY <1>3, <1>4, <1>7, <2>1
  <2>3. HelpWord.dashes = 2 /\ HelpWord.name = "help" /\ HelpWord.value = NoValue
    BY OptionFields DEF HelpWord
  <2>4. list[1].value.dashes = 0
    BY <1>5, <2>2
  <2>5. list[1].kind = "option" /\ list[1].name = "help" /\ ~WithValue(list[1])
    BY <2>1, <2>2, <2>3, <2>4 DEF WordOf
  <2>6. ~BeforeValue(list[1])
    <3> DEFINE w == <<<<Option(2, list[1].name, NoValue), "option">>, <<list[1].value, "value">>>>
    <3>1. Len(w) = 2
      OBVIOUS
    <3>2. BeforeValue(list[1]) => written(list[1]) = w
      BY DEF BeforeValue
    <3> HIDE DEF w
    <3> QED
      BY <2>1, <3>1, <3>2
  <2>7. Alone(list[1])
    BY <1>5, <2>2, <2>5, <2>6, Spelling DEF Argument
  <2>8. list[1] = HelpItem
    BY <2>5, <2>7 DEF Alone, HelpItem
  <2> DEFINE one == <<HelpItem>>
  <2>9. one \in Seq(ItemType) /\ Len(one) = 1 /\ one[1] = HelpItem
    <3>1. HelpItem \in ItemType
      BY <1>5, <2>2, <2>8
    <3> QED
      BY <3>1
  <2> HIDE DEF one
  <2>10. list = one
    <3>1. \A i \in 1..Len(list) : list[i] = one[i]
      BY <2>1, <2>8, <2>9
    <3> QED
      BY <1>0, <2>1, <2>9, <3>1, SeqEqual
  <2> QED
    BY <2>10 DEF one
<1>8. ASSUME list = <<HelpItem>> PROVE args = <<HelpWord>>
  <2>1. N = 1 /\ list[1] = HelpItem
    BY <1>8
  <2>2. u[1] = u[0] \o written(HelpItem)
    <3>1. 1 \in 1..N /\ 1 - 1 = 0
      BY <2>1
    <3> QED
      BY <1>1, <2>1, <3>1 DEF WordsTable
  <2>3. u[N] = <<<<HelpWord, "option">>>>
    <3> DEFINE w == written(HelpItem)
    <3>1. w \in Seq(Pieces)
      BY <1>5, <2>1, WrittenPieces
    <3> HIDE DEF w
    <3>2. <<>> \o w = w
      BY <3>1
    <3> QED
      BY <1>2, <2>1, <2>2, <3>2, HelpIsWritten DEF w
  <2>4. Len(args) = 1 /\ args[1] = HelpWord
    <3>1. Len(u[N]) = 1 /\ u[N][1] = <<HelpWord, "option">>
      BY <2>3
    <3> QED
      BY <1>3, <3>1
  <2> DEFINE one == <<HelpWord>>
  <2>5. one \in Seq(Words) /\ Len(one) = 1 /\ one[1] = HelpWord
    <3>1. HelpWord \in Words
      BY <1>3, <2>4
    <3> QED
      BY <3>1
  <2> HIDE DEF one
  <2>6. args = one
    <3>1. \A i \in 1..Len(args) : args[i] = one[i]
      BY <2>4, <2>5
    <3> QED
      BY <1>3, <2>4, <2>5, <3>1, SeqEqual
  <2> QED
    BY <2>6 DEF one
<1>9. args # <<Option(1, "h", NoValue)>>
  <2> SUFFICES ASSUME args = <<Option(1, "h", NoValue)>> PROVE FALSE
    OBVIOUS
  <2>1. N = 1 /\ WordOf(list[1], 1, u[N][1]) /\ args[1] = Option(1, "h", NoValue)
    BY <1>4, <1>6
  <2>2. 1 \in 1..N /\ u[N][1][1] = Option(1, "h", NoValue)
    BY <1>3, <1>4, <2>1
  <2>3. Option(1, "h", NoValue).dashes = 1
    BY DEF Option
  <2>4. list[1].value.dashes = 0
    BY <1>5, <2>2
  <2> QED
    BY <2>1, <2>2, <2>3, <2>4 DEF WordOf
<1> QED
  BY <1>1, <1>7, <1>8, <1>9 DEF args

\* What Valid and Understood say of the items.
ValidItems(flags, list) ==
  /\ Once(list)
  /\ \A i \in OptionsIn(list) :
       /\ list[i].name \in DOMAIN flags
       /\ converts(flags[list[i].name], list[i].value)
       /\ list[i].name = "timeout" => list[i].value # Word("0s")

Reads(command, list) ==
  Run(command, [name \in {list[i].name : i \in OptionsIn(list)} |-> ValueIn(list, name)],
      argumentsOf(list))

\* What is parsed of all items.
ParsedItems(flags, list, r) ==
  /\ r \in Parsed
  /\ r.ok <=> \A k \in 1..Len(list) : Takes(flags, list[k])
  /\ r.ok => r.positionals = argumentsOf(list)
  /\ r.ok => \A x : Holds(r.sets, x)
                    <=> \E k \in 1..Len(list) :
                          list[k].kind = "option" /\ x = <<list[k].name, list[k].value>>

\* Options and arguments are taken, or refused, as they are meant.
LEMMA ItemsDispatched ==
  ASSUME NEW command, NEW flags, NEW list, NEW r, ParsedItems(flags, list, r)
  PROVE  (IF ~Once(list) \/ ~r.ok
             \/ ("timeout" \in DOMAIN lastOf(r.sets) /\ lastOf(r.sets)["timeout"] = Word("0s"))
          THEN Usage
          ELSE Run(command, lastOf(r.sets), r.positionals))
         = (IF ValidItems(flags, list) THEN Reads(command, list) ELSE Usage)
<1> DEFINE O == OptionsIn(list)
           options == lastOf(r.sets)
<1>1. r.ok <=> \A i \in O : list[i].name \in DOMAIN flags /\ converts(flags[list[i].name], list[i].value)
  BY DEF ParsedItems, Takes, OptionsIn
<1>2. CASE ~Once(list) \/ ~r.ok
  <2>1. ~ValidItems(flags, list)
    BY <1>1, <1>2 DEF ValidItems
  <2> QED
    BY <1>2, <2>1
<1>3. CASE Once(list) /\ r.ok
  <2>1. r.sets \in Seq(Texts \X Words) /\ r.positionals = argumentsOf(list)
    BY <1>3 DEF ParsedItems, Parsed
  <2>2. options = [name \in {list[i].name : i \in O} |-> ValueIn(list, name)]
    <3> DEFINE sets == r.sets
    <3>1. \A x : Holds(sets, x) <=> \E k \in 1..Len(list) :
                                     list[k].kind = "option" /\ x = <<list[k].name, list[k].value>>
      BY <1>3 DEF ParsedItems
    <3>2. sets \in Seq(Texts \X Words)
      BY <2>1
    <3> HIDE DEF sets
    <3>3. lastOf(sets) = [name \in {list[i].name : i \in OptionsIn(list)} |-> ValueIn(list, name)]
      BY <1>3, <3>1, <3>2, LastOfOnce
    <3> QED
      BY <3>3 DEF sets
  <2> HIDE DEF options
  <2>3. ASSUME NEW i \in O, list[i].name = "timeout" PROVE ValueIn(list, "timeout") = list[i].value
    <3> DEFINE d == CHOOSE j \in O : list[j].name = "timeout"
    <3>1. d \in O /\ list[d].name = "timeout"
      BY <2>3
    <3> HIDE DEF d
    <3>2. d = i
      BY <1>3, <2>3, <3>1 DEF Once
    <3> QED
      BY <3>2 DEF d, ValueIn
  <2>4. "timeout" \in DOMAIN options <=> \E i \in O : list[i].name = "timeout"
    BY <2>2
  <2>5. "timeout" \in DOMAIN options => options["timeout"] = ValueIn(list, "timeout")
    BY <2>2
  <2>6. ("timeout" \in DOMAIN options /\ options["timeout"] = Word("0s"))
          <=> \E i \in O : list[i].name = "timeout" /\ list[i].value = Word("0s")
    BY <2>3, <2>4, <2>5
  <2>7. ValidItems(flags, list)
          <=> ~("timeout" \in DOMAIN options /\ options["timeout"] = Word("0s"))
    BY <1>1, <1>3, <2>6 DEF ValidItems
  <2>8. Run(command, options, r.positionals) = Reads(command, list)
    BY <2>1, <2>2 DEF Reads
  <2>9. options = lastOf(r.sets)
    BY DEF options
  <2> QED
    BY <1>3, <2>7, <2>8, <2>9
<1> QED
  BY <1>2, <1>3

\* What dispatch makes of a command behind leading options.
LEMMA DispatchedCommand ==
  ASSUME NEW before, NEW command, NEW after, Commanded(before, command, after)
  PROVE  dispatch(Args(Line(before, command, after)))
           = IF before \o after = <<HelpItem>> THEN Run("help", noFlags, <<Word(command)>>)
             ELSE IF ValidItems(commandSpecs[command], before \o after)
             THEN Reads(command, before \o after) ELSE Usage
<1> DEFINE list == before \o after
           flags == commandSpecs[command]
           args == Args(wordsOf(list))
           line == Args(Line(before, command, after))
           r == parseInterleaved(flags, args)
<1>1. splitCommand(line) = Found(command, args)
  BY CommandFound
<1>2. Spelled(flags, list)
  BY SpelledItems
<1> HIDE DEF list, flags
<1>3. duplicateOption(args) <=> ~Once(list)
  BY <1>2, DuplicatesFound
<1>4. /\ args = <<HelpWord>> <=> list = <<HelpItem>>
      /\ args # <<Option(1, "h", NoValue)>>
  BY <1>2, HelpAlone
<1>5. ParsedItems(flags, list, r)
  BY <1>2, ParseResult DEF ParsedItems
<1>6. command # NoName
  BY CommandNames DEF Commanded
<1>7. Found(command, args).command = command /\ Found(command, args).args = args
  BY DEF Found
<1> DEFINE s == splitCommand(line)
<1>8. s.command = command /\ s.args = args
  BY <1>1, <1>7
<1> DEFINE says == IF ~Once(list) \/ ~r.ok
                      \/ ("timeout" \in DOMAIN lastOf(r.sets) /\ lastOf(r.sets)["timeout"] = Word("0s"))
                   THEN Usage ELSE Run(command, lastOf(r.sets), r.positionals)
<1>9. says = IF ValidItems(flags, list) THEN Reads(command, list) ELSE Usage
  <2> HIDE DEF r
  <2> QED
    BY <1>5, ItemsDispatched
<1> HIDE DEF line, args
<1>10. dispatch(line) = IF args \in {<<HelpWord>>, <<Option(1, "h", NoValue)>>}
                        THEN Run("help", noFlags, <<Word(command)>>) ELSE says
  <2>1. r = parseInterleaved(commandSpecs[s.command], s.args)
    BY <1>8 DEF flags
  <2> HIDE DEF r, s
  <2>2. CASE args \in {<<HelpWord>>, <<Option(1, "h", NoValue)>>}
    BY <1>6, <1>8, <2>2 DEF dispatch, HelpWord, s
  <2>3. CASE args \notin {<<HelpWord>>, <<Option(1, "h", NoValue)>>}
    BY <1>3, <1>6, <1>8, <2>1, <2>3 DEF dispatch, HelpWord, s
  <2> QED
    BY <2>2, <2>3
<1> HIDE DEF says
<1>11. dispatch(line) = IF list = <<HelpItem>> THEN Run("help", noFlags, <<Word(command)>>)
                        ELSE IF ValidItems(flags, list) THEN Reads(command, list) ELSE Usage
  BY <1>4, <1>9, <1>10
<1> QED
  BY <1>11 DEF line, list, flags

\* --help or --version alone, whatever follows it.
LEMMA DispatchedAlone ==
  ASSUME NEW command \in DOMAIN commandSpecs, NEW before, NEW after, Items(before), Items(after),
         NEW name \in {"help", "version"}, before = <<Switch(name, 2)>>
  PROVE  dispatch(Args(Line(before, command, after))) = Run(name, noFlags, <<>>)
<1> DEFINE line == Args(Line(before, command, after))
           item == Switch(name, 2)
           word == Option(2, name, NoValue)
<1>1. LineParts(before, command, after, line)
  BY LinesHaveParts
<1>2. Len(before) = 1 /\ before[1] = item /\ item \in ItemType
  <2>1. Len(before) = 1 /\ before[1] = item
    OBVIOUS
  <2> HIDE DEF item
  <2>2. item \in ItemType
    BY <2>1 DEF Items
  <2> QED
    BY <2>1, <2>2
<1>3. written(item) = <<<<word, "option">>>>
  <2>1. item.kind = "option" /\ item.name = name /\ item.glue = "none" /\ item.dashes = 2
    BY DEF Switch, Opt
  <2> HIDE DEF item
  <2> QED
    BY <2>1 DEF written
<1> HIDE DEF item
<1>4. wordsOf(before) = written(item)
  <2>1. PICK u : WordsTable(before, u) /\ wordsOf(before) = u[Len(before)]
    BY WordsLoop
  <2>2. u[0] = <<>> /\ u[1] = u[0] \o written(item)
    <3>1. 1 \in 1..Len(before) /\ 1 - 1 = 0
      BY <1>2
    <3> QED
      BY <1>2, <2>1, <3>1 DEF WordsTable
  <2> DEFINE w == written(item)
  <2>3. w \in Seq(Pieces)
    <3>1. IsItem(item)
      BY <1>2 DEF Items
    <3> QED
      BY <1>2, <3>1, WrittenPieces
  <2> HIDE DEF w
  <2>4. <<>> \o w = w
    BY <2>3
  <2> QED
    BY <1>2, <2>1, <2>2, <2>4 DEF w
<1> HIDE DEF word, line
<1>5. /\ line \in Seq(Words) /\ Len(line) > 0 /\ line[1] = word
  <2>1. Len(wordsOf(before)) = 1 /\ wordsOf(before)[1] = <<word, "option">>
    BY <1>3, <1>4
  <2> DEFINE n == Len(wordsOf(after))
  <2>2. n \in Nat
    <3>1. wordsOf(after) \in Seq(Pieces)
      BY <1>1 DEF LineParts
    <3> QED
      BY <3>1
  <2>3. Len(line) = 1 + 1 + n
    BY <1>1, <2>1 DEF LineParts
  <2> HIDE DEF n
  <2>4. Len(line) > 0
    BY <2>2, <2>3
  <2>5. 1 \in 1..Len(wordsOf(before))
    BY <2>1
  <2>6. line \in Seq(Words) /\ line[1] = wordsOf(before)[1][1]
    BY <1>1, <2>5 DEF LineParts
  <2> QED
    BY <2>1, <2>4, <2>6
<1>6. splitCommand(line) = Found(name, <<>>)
  <2>1. word \in {Option(2, "help", NoValue), Option(2, "version", NoValue)}
    BY DEF word
  <2>2. word = Option(2, "help", NoValue) <=> name = "help"
    BY OptionFields DEF word
  <2>3. splitCommand(line)
          = Found(IF line[1] = Option(2, "help", NoValue) THEN "help" ELSE "version", <<>>)
    BY <1>5, <2>1, SplitAtOnce
  <2> QED
    BY <1>5, <2>2, <2>3
<1> DEFINE s == splitCommand(line)
           r == parseInterleaved(noFlags, <<>>)
<1>7. s.command = name /\ s.args = <<>>
  BY <1>6 DEF Found
<1> HIDE DEF s
<1>8. name # NoName /\ commandSpecs[name] = noFlags
  BY CommandNames
<1>9. r.ok /\ r.sets = <<>> /\ r.positionals = <<>>
  <2> DEFINE args == <<>>
  <2>1. args \in Seq(Words) /\ Len(args) = 0
    OBVIOUS
  <2> HIDE DEF args
  <2>2. PICK from : ParseTable(noFlags, args, from) /\ parseInterleaved(noFlags, args) = from[1]
    BY <2>1, ParseLoop
  <2>3. from[1] = ParseStep(noFlags, args, from, 1)
    <3>1. 1 \in 1..(Len(args) + 2)
      BY <2>1
    <3> QED
      BY <2>2, <3>1 DEF ParseTable
  <2>4. from[1] = [ok |-> TRUE, sets |-> <<>>, positionals |-> <<>>]
    <3>1. 1 > Len(args)
      BY <2>1
    <3> QED
      BY <2>3, <3>1 DEF ParseStep, ParseWord
  <2> QED
    BY <2>2, <2>4 DEF args
<1> HIDE DEF r
<1>10. ~duplicateOption(<<>>)
  BY DEF duplicateOption
<1>11. lastOf(<<>>) = noFlags
  BY DEF lastOf, noFlags
<1>12. "timeout" \notin DOMAIN noFlags
  BY DEF noFlags
<1>13. <<>> \notin {<<Option(2, "help", NoValue)>>, <<Option(1, "h", NoValue)>>}
  OBVIOUS
<1>14. dispatch(line) = Run(name, noFlags, <<>>)
  BY <1>7, <1>8, <1>9, <1>10, <1>11, <1>12, <1>13 DEF dispatch, s, r
<1> QED
  BY <1>14 DEF line

\* A switch is an item the user may write.
LEMMA SwitchIsItem ==
  ASSUME NEW name, name # NoName
  PROVE  IsItem(Switch(name, 2))
<1> DEFINE item == Switch(name, 2)
<1>1. item.kind = "option" /\ item.name = name /\ item.dashes = 2 /\ item.value = Word("true")
  BY DEF Switch, Opt
<1>2. Word("true").value = NoValue
  BY DEF Word
<1>3. item = Switch(item.name, item.dashes)
  BY <1>1
<1> HIDE DEF item
<1>4. IsItem(item)
  <2>1. item.kind # "arg" /\ item.dashes > 0 /\ item.name # NoName
    BY <1>1
  <2> QED
    BY <1>1, <1>2, <1>3, <2>1 DEF IsItem
<1> QED
  BY <1>4 DEF item

\* What MeaningsAssumption says of one meaning.
LEMMA MeaningParts ==
  ASSUME NEW m \in Meanings
  PROVE  /\ m.command \in DOMAIN commandSpecs /\ Items(m.before) /\ Items(m.after)
         /\ argv(m) = Args(Line(m.before, m.command, m.after))
         /\ \A i \in 1..Len(m.after) : Fits(commandSpecs[m.command], m.after[i])
         /\ \/ m.before \in {<<Switch("help", 2)>>, <<Switch("version", 2)>>}
            \/ \A i \in 1..Len(m.before) :
                 /\ Fits(leadingFlags, m.before[i])
                 /\ m.before[i].kind = "option" /\ m.before[i].name \in DOMAIN leadingFlags
<1> DEFINE before == m.before
           after == m.after
           command == m.command
<1>1. /\ command \in DOMAIN commandSpecs
      /\ before \in Seq(ItemType) /\ after \in Seq(ItemType)
      /\ \A i \in DOMAIN after : IsItem(after[i]) /\ Fits(commandSpecs[command], after[i])
      /\ \/ before \in {<<Switch("help", 2)>>, <<Switch("version", 2)>>}
         \/ \A i \in DOMAIN before :
              /\ IsItem(before[i]) /\ Fits(leadingFlags, before[i])
              /\ before[i].kind = "option" /\ before[i].name \in DOMAIN leadingFlags
  BY MeaningsAssumption
<1>2. argv(m) = [k \in DOMAIN Line(before, command, after) |-> Line(before, command, after)[k][1]]
  BY DEF argv, writtenAll, Line
<1> HIDE DEF before, after, command
<1>3. DOMAIN before = 1..Len(before) /\ DOMAIN after = 1..Len(after)
  BY <1>1
<1>4. Items(after)
  BY <1>1, <1>3 DEF Items
<1>5. Items(before)
  <2>1. CASE before \in {<<Switch("help", 2)>>, <<Switch("version", 2)>>}
    <3>1. "help" # NoName /\ "version" # NoName
      BY CommandNames
    <3>2. \A i \in 1..Len(before) : IsItem(before[i])
      <4>1. IsItem(Switch("help", 2)) /\ IsItem(Switch("version", 2))
        BY <3>1, SwitchIsItem
      <4> DEFINE h == Switch("help", 2) v == Switch("version", 2)
      <4> HIDE DEF h, v
      <4>2. before \in {<<h>>, <<v>>}
        BY <2>1 DEF h, v
      <4>3. Len(before) = 1 /\ before[1] \in {h, v}
        BY <4>2
      <4>4. \A i \in 1..Len(before) : i = 1
        BY <4>3
      <4> QED
        BY <4>1, <4>3, <4>4 DEF h, v
    <3> QED
      BY <1>1, <3>2 DEF Items
  <2> QED
    BY <1>1, <1>3, <2>1 DEF Items
<1>6. argv(m) = Args(Line(before, command, after))
  <2> DEFINE line == Line(before, command, after)
  <2>1. line \in Seq(Pieces)
    <3> DEFINE v == wordsOf(before) w == wordsOf(after) mid == <<Word(command), "command">>
    <3>1. v \in Seq(Pieces) /\ w \in Seq(Pieces)
      BY <1>4, <1>5, WordsOfBoth
    <3>2. mid \in Pieces
      <4>1. command \in Texts
        BY <1>1 DEF Texts
      <4>2. Word(command) \in Words
        BY <4>1, ParsedKinds
      <4> QED
        BY <4>2 DEF Pieces, WordRoles
    <3> HIDE DEF v, w, mid
    <3>3. v \o <<mid>> \o w \in Seq(Pieces)
      BY <3>1, <3>2
    <3> QED
      BY <3>3 DEF v, w, mid, Line
  <2> HIDE DEF line
  <2>2. DOMAIN line = 1..Len(line)
    BY <2>1
  <2>3. [k \in DOMAIN line |-> line[k][1]] = Args(line)
    BY <2>2 DEF Args
  <2> QED
    BY <1>2, <2>3 DEF line
<1> QED
  BY <1>1, <1>3, <1>4, <1>5, <1>6 DEF before, after, command

\* A documented command line of a command, unless it only asks for help or the
\* version.
LEMMA DocumentedParts ==
  ASSUME NEW m \in Meanings, Documented(m)
  PROVE  \/ m.before \in {<<Switch("help", 2)>>, <<Switch("version", 2)>>}
         \/ Commanded(m.before, m.command, m.after)
<1> DEFINE before == m.before
           after == m.after
           list == before \o after
           M == Len(before)
           N == Len(after)
<1>1. /\ m.command \in DOMAIN commandSpecs /\ Items(before) /\ Items(after)
      /\ \A i \in 1..N : Fits(commandSpecs[m.command], after[i])
      /\ \/ before \in {<<Switch("help", 2)>>, <<Switch("version", 2)>>}
         \/ \A i \in 1..M :
              /\ Fits(leadingFlags, before[i])
              /\ before[i].kind = "option" /\ before[i].name \in DOMAIN leadingFlags
  BY MeaningParts
<1> HIDE DEF before, after
<1>2. /\ Items(list) /\ M \in Nat /\ N \in Nat /\ Len(list) = M + N
      /\ \A i \in 1..M : list[i] = before[i]
      /\ \A i \in 1..N : list[M + i] = after[i]
  BY <1>1, ItemsOfBoth
<1>3. \A i \in DOMAIN list : Plainly(list[i])
  BY DEF Documented, items, Plainly, before, after
<1> HIDE DEF list
<1>4. DOMAIN list = 1..(M + N)
  <2>1. list \in Seq(ItemType)
    BY <1>2 DEF Items
  <2>2. DOMAIN list = 1..Len(list)
    BY <2>1
  <2> QED
    BY <1>2, <2>2
<1>5. \A i \in 1..M : Plainly(before[i])
  <2> TAKE i \in 1..M
  <2>1. i \in 1..(M + N)
    BY <1>2
  <2>2. Plainly(list[i])
    BY <1>3, <1>4, <2>1
  <2> QED
    BY <1>2, <2>2
<1>6. \A i \in 1..N : Plainly(after[i])
  <2> TAKE i \in 1..N
  <2>1. M + i \in 1..(M + N)
    BY <1>2
  <2>2. Plainly(list[M + i])
    BY <1>3, <1>4, <2>1
  <2> QED
    BY <1>2, <2>2
<1>7. Spelled(commandSpecs[m.command], after)
  BY <1>1, <1>6 DEF Spelled
<1>8. (\A i \in 1..M : Fits(leadingFlags, before[i]) /\ before[i].kind = "option"
                       /\ before[i].name \in DOMAIN leadingFlags) => Leading(before)
  BY <1>1, <1>5 DEF Leading, Spelled
<1>9. \/ before \in {<<Switch("help", 2)>>, <<Switch("version", 2)>>}
      \/ Commanded(before, m.command, after)
  BY <1>1, <1>7, <1>8 DEF Commanded
<1> QED
  BY <1>9 DEF before, after

\* Valid and Understood, as ValidItems and Reads.
LEMMA ItemsMean ==
  ASSUME NEW m, items(m) \in Seq(ItemType)
  PROVE  /\ Valid(m) <=> ValidItems(commandSpecs[m.command], items(m))
         /\ Understood(m) = Reads(m.command, items(m))
<1> DEFINE list == items(m)
<1>1. DOMAIN list = 1..Len(list)
  OBVIOUS
<1>2. optionsAt(m) = OptionsIn(list)
  BY <1>1 DEF optionsAt, OptionsIn
<1>3. Repeats(m) <=> ~Once(list)
  BY <1>2 DEF Repeats, Once
<1>4. Valid(m) <=> ValidItems(commandSpecs[m.command], list)
  BY <1>2, <1>3 DEF Valid, ValidItems
<1>5. Understood(m) = Reads(m.command, list)
  BY <1>2 DEF Understood, Reads, ValueIn
<1> QED
  BY <1>4, <1>5

\* dispatch decides what was meant, for every documented meaning.
LEMMA DispatchMeans ==
  ASSUME NEW m \in Meanings, Documented(m)
  PROVE  dispatch(argv(m)) = Meaning(m)
<1> DEFINE before == m.before
           after == m.after
           command == m.command
           list == items(m)
           h == Switch("help", 2)
           v == Switch("version", 2)
<1>1. /\ command \in DOMAIN commandSpecs /\ Items(before) /\ Items(after)
      /\ argv(m) = Args(Line(before, command, after))
      /\ list = before \o after
  BY MeaningParts DEF items
<1>2. before \in {<<h>>, <<v>>} \/ Commanded(before, command, after)
  BY DocumentedParts
<1>3. h.name = "help" /\ v.name = "version" /\ HelpItem = h
  BY DEF Switch, Opt, HelpItem
<1>4. Items(list) /\ list \in Seq(ItemType)
  <2> HIDE DEF before, after, list
  <2>1. Items(before \o after)
    BY <1>1, ItemsOfBoth
  <2> QED
    BY <1>1, <2>1 DEF Items
<1>5. /\ Valid(m) <=> ValidItems(commandSpecs[command], list)
      /\ Understood(m) = Reads(command, list)
  BY <1>4, ItemsMean
<1>6. Meaning(m) = CASE before = <<h>> -> Run("help", noFlags, <<>>)
                     [] before = <<v>> -> Run("version", noFlags, <<>>)
                     [] before = <<>> /\ after = <<h>> -> Run("help", noFlags, <<Word(command)>>)
                     [] OTHER -> IF Valid(m) THEN Understood(m) ELSE Usage
  BY DEF Meaning
<1> HIDE DEF h, v, before, after, command, list
<1>7. \A x, y : /\ <<x>> # <<>> /\ Len(<<x>>) = 1 /\ <<x>>[1] = x
                /\ x # y => <<x>> # <<y>>
  OBVIOUS
<1>8. CASE before = <<h>>
  <2>1. before # <<v>> /\ before # <<>>
    BY <1>3, <1>7, <1>8
  <2>2. Meaning(m) = Run("help", noFlags, <<>>)
    BY <1>6, <1>8, <2>1
  <2>3. dispatch(argv(m)) = Run("help", noFlags, <<>>)
    BY <1>1, <1>8, DispatchedAlone DEF h
  <2> QED
    BY <2>2, <2>3
<1>9. CASE before = <<v>>
  <2>1. before # <<h>> /\ before # <<>>
    BY <1>3, <1>7, <1>9
  <2>2. Meaning(m) = Run("version", noFlags, <<>>)
    BY <1>6, <1>9, <2>1
  <2>3. dispatch(argv(m)) = Run("version", noFlags, <<>>)
    BY <1>1, <1>9, DispatchedAlone DEF v
  <2> QED
    BY <2>2, <2>3
<1>10. CASE Commanded(before, command, after)
  <2>1. dispatch(argv(m))
          = IF list = <<h>> THEN Run("help", noFlags, <<Word(command)>>)
            ELSE IF Valid(m) THEN Understood(m) ELSE Usage
    BY <1>1, <1>3, <1>5, <1>10, DispatchedCommand
  <2>2. ASSUME NEW x, Len(before) > 0, before[1] = x PROVE x.name \in DOMAIN leadingFlags
    <3>1. 1 \in 1..Len(before)
      <4>1. Len(before) \in Nat
        BY <1>1, ItemValues
      <4> QED
        BY <2>2, <4>1
    <3> QED
      BY <1>10, <2>2, <3>1 DEF Commanded, Leading
  <2>3. h.name \notin DOMAIN leadingFlags /\ v.name \notin DOMAIN leadingFlags
    BY <1>3, ReservedNames DEF Reserved
  <2>4. before # <<h>> /\ before # <<v>>
    <3>1. Len(<<h>>) > 0 /\ Len(<<v>>) > 0 /\ <<h>>[1] = h /\ <<v>>[1] = v
      OBVIOUS
    <3> QED
      BY <2>2, <2>3, <3>1
  <2>5. list = <<h>> <=> before = <<>> /\ after = <<h>>
    <3>1. ASSUME list = <<h>> PROVE before = <<>> /\ after = <<h>>
      <4>1. before = <<>>
        <5> SUFFICES ASSUME before # <<>> PROVE FALSE
          OBVIOUS
        <5>1. before \in Seq(ItemType) /\ after \in Seq(ItemType)
          BY <1>1 DEF Items
        <5>2. Len(before) > 0 /\ (before \o after)[1] = before[1]
          BY <5>1
        <5>3. before[1] = h
          BY <1>1, <1>7, <3>1, <5>2
        <5> QED
          BY <2>2, <2>3, <5>2, <5>3
      <4>2. <<>> \o after = after
        <5>1. after \in Seq(ItemType)
          BY <1>1 DEF Items
        <5> QED
          BY <5>1
      <4> QED
        BY <1>1, <3>1, <4>1, <4>2
    <3>2. ASSUME before = <<>>, after = <<h>> PROVE list = <<h>>
      <4>1. after \in Seq(ItemType)
        BY <1>1 DEF Items
      <4>2. <<>> \o after = after
        BY <4>1
      <4> QED
        BY <1>1, <3>2, <4>2
    <3> QED
      BY <3>1, <3>2
  <2> DEFINE other == IF Valid(m) THEN Understood(m) ELSE Usage
  <2>6. CASE list = <<h>>
    <3>1. Meaning(m) = Run("help", noFlags, <<Word(command)>>)
      BY <1>6, <2>4, <2>5, <2>6
    <3> QED
      BY <2>1, <2>6, <3>1
  <2>7. CASE list # <<h>>
    <3>1. Meaning(m) = IF Valid(m) THEN Understood(m) ELSE Usage
      BY <1>6, <2>4, <2>5, <2>7
    <3> QED
      BY <2>1, <2>7, <3>1
  <2> QED
    BY <2>6, <2>7
<1> QED
  BY <1>2, <1>8, <1>9, <1>10

\* What dispatch has decided is what it makes of the words that were meant.
LineInv ==
  meant \in Meanings /\ (result = Pending \/ result = dispatch(argv(meant)))

\* The invariant implies the property.
LEMMA LineInvMeans == LineInv => UnderstoodAsMeant
<1> SUFFICES ASSUME LineInv, result # Pending, Documented(meant) PROVE result = Meaning(meant)
  BY DEF UnderstoodAsMeant
<1>1. meant \in Meanings /\ result = dispatch(argv(meant))
  BY DEF LineInv
<1> QED
  BY <1>1, DispatchMeans

-----------------------------------------------------------------------------
(* The roles of words, as the completions have to find them. *)

\* The word behind each option that takes a value, and only that, is a value.
ListRoles(flags, list, w) ==
  /\ \A p \in 1..Len(w) :
       (p < Len(w) /\ w[p + 1][2] = "value") <=> valueOption(flags, w[p][1])
  /\ \A p \in 1..Len(w) :
       /\ w[p][2] \in {"option", "value", "positional"}
       /\ w[p][2] = "value" => w[p][1].dashes = 0 /\ p # 1
       /\ (w[p][1].dashes = 0 /\ \A i \in 1..Len(list) : list[i].kind = "option") => w[p][2] = "value"

\* The roles of the words of an item.
LEMMA RolesOfItem ==
  ASSUME NEW flags, NEW item \in ItemType, IsItem(item), Plainly(item), Fits(flags, item),
         item.kind = "option" => item.name \in DOMAIN flags,
         NEW k \in 1..Len(written(item)), NEW piece, WordOf(item, k, piece)
  PROVE  /\ valueOption(flags, piece[1]) <=> k = 1 /\ BeforeValue(item)
         /\ BeforeValue(item) => Len(written(item)) = 2 /\ written(item)[2][2] = "value"
         /\ ~BeforeValue(item) => Len(written(item)) = 1
         /\ k = 1 => piece[2] # "value"
         /\ piece[2] \in {"option", "value", "positional"}
         /\ piece[2] = "value" => piece[1].dashes = 0 /\ k = 2
         /\ piece[1].dashes = 0 /\ item.kind = "option" => piece[2] = "value"
<1>1. item.value.dashes = 0
  BY DEF Plainly
<1>2. BeforeValue(item) => Len(written(item)) = 2 /\ written(item)[2][2] = "value"
  <2> DEFINE w == <<<<Option(2, item.name, NoValue), "option">>, <<item.value, "value">>>>
  <2>1. Len(w) = 2 /\ w[2][2] = "value"
    OBVIOUS
  <2>2. BeforeValue(item) => written(item) = w
    BY DEF BeforeValue
  <2> HIDE DEF w
  <2> QED
    BY <2>1, <2>2
<1>3. ~BeforeValue(item) => Len(written(item)) = 1
  <2>1. WithValue(item) => Len(written(item)) = 1
    BY DEF WithValue
  <2>2. Alone(item) => Len(written(item)) = 1
    BY DEF Alone
  <2>3. Argument(item) => Len(written(item)) = 1
    BY DEF Argument
  <2> QED
    BY <2>1, <2>2, <2>3, Spelling
<1>4. WithValue(item) => ~BeforeValue(item)
  BY DEF WithValue, BeforeValue
<1>5. BeforeValue(item) => item.kind = "option" /\ flags[item.name] # "bool"
  BY DEF BeforeValue, Fits
<1>6. Alone(item) => flags[item.name] = "bool"
  BY DEF Alone, Fits
<1>7. Argument(item) => item.kind # "option"
  BY DEF Argument
<1>8. CASE k = 1 /\ item.kind = "option" /\ piece[2] = "option" /\ piece[1].dashes = 2
           /\ piece[1].name = item.name /\ (piece[1].value = NoValue <=> ~WithValue(item))
  <2>1. valueOption(flags, piece[1]) <=> ~WithValue(item) /\ flags[item.name] # "bool"
    BY <1>8 DEF valueOption
  <2>2. ~WithValue(item) /\ flags[item.name] # "bool" <=> BeforeValue(item)
    BY <1>4, <1>5, <1>6, <1>7, <1>8, Spelling
  <2> QED
    BY <1>2, <1>3, <1>8, <2>1, <2>2
<1>9. CASE k = 2 /\ BeforeValue(item) /\ piece[2] = "value" /\ piece[1] = item.value
  <2>1. ~valueOption(flags, piece[1])
    BY <1>1, <1>9 DEF valueOption
  <2> QED
    BY <1>1, <1>2, <1>9, <2>1
<1>10. CASE k = 1 /\ Argument(item) /\ piece[2] = "positional" /\ piece[1] = item.value
  <2>1. ~valueOption(flags, piece[1]) /\ ~BeforeValue(item)
    BY <1>1, <1>5, <1>7, <1>10 DEF valueOption
  <2> QED
    BY <1>2, <1>3, <1>7, <1>10, <2>1
<1> QED
  BY <1>8, <1>9, <1>10 DEF WordOf

\* The roles of the words of a list: the value of an option is behind it.
LEMMA RolesOfList ==
  ASSUME NEW flags, NEW list, Spelled(flags, list),
         \A i \in OptionsIn(list) : list[i].name \in DOMAIN flags
  PROVE  ListRoles(flags, list, wordsOf(list))
<1> DEFINE N == Len(list)
<1>0. Items(list) /\ N \in Nat
  BY ItemValues DEF Spelled
<1>1. PICK u : WordsTable(list, u) /\ wordsOf(list) = u[N]
  BY <1>0, WordsLoop
<1> DEFINE w == u[N]
           L == Len(w)
<1>2. L \in Nat
  <2>1. N \in 0..N
    BY <1>0
  <2>2. u[N] \in Seq(Pieces)
    BY <1>1, <2>1 DEF WordsTable
  <2> HIDE DEF N
  <2> QED
    BY <2>2
<1>3. \A j \in 1..N : /\ list[j] \in ItemType /\ IsItem(list[j]) /\ Plainly(list[j])
                      /\ Fits(flags, list[j])
                      /\ list[j].kind = "option" => list[j].name \in DOMAIN flags
  BY <1>0 DEF Spelled, Items, OptionsIn
<1>4. \A j \in 1..N : InPlace(list, u, j)
  BY <1>0, <1>1, WordsInPlace
<1>5. \A j \in 1..N : w[Len(u[j - 1]) + 1][2] # "value"
  <2> TAKE j \in 1..N
  <2>1. InPlace(list, u, j)
    BY <1>4
  <2>2. 1 \in 1..Len(written(list[j])) /\ w[Len(u[j - 1]) + 1] = written(list[j])[1]
    BY <2>1 DEF InPlace
  <2>3. WordOf(list[j], 1, written(list[j])[1])
    BY <1>3, <2>2, WrittenWords
  <2>4. written(list[j])[1][2] # "value"
    BY <1>3, <2>2, <2>3, RolesOfItem
  <2> QED
    BY <2>2, <2>4
<1>6. ASSUME NEW p \in 1..L
      PROVE  /\ (p < L /\ w[p + 1][2] = "value") <=> valueOption(flags, w[p][1])
             /\ w[p][2] \in {"option", "value", "positional"}
             /\ w[p][2] = "value" => w[p][1].dashes = 0 /\ p # 1
             /\ (w[p][1].dashes = 0 /\ \A i \in 1..Len(list) : list[i].kind = "option") => w[p][2] = "value"
  <2>1. PICK n \in 1..N : \E k \in 1..Len(written(list[n])) :
          p = Len(u[n - 1]) + k /\ WordOf(list[n], k, w[p])
    BY <1>1, WordOfSome
  <2>2. PICK k \in 1..Len(written(list[n])) : p = Len(u[n - 1]) + k /\ WordOf(list[n], k, w[p])
    BY <2>1
  <2> DEFINE item == list[n]
             a == Len(u[n - 1])
             b == Len(u[n])
             l == Len(written(item))
             piece == w[p]
  <2>3. /\ a \in Nat /\ b \in Nat /\ l \in Nat /\ b = a + l /\ b <= L
        /\ \A j \in 1..l : w[a + j] = written(item)[j]
    <3>1. InPlace(list, u, n)
      BY <1>4
    <3> QED
      BY <3>1 DEF InPlace
  <2>4. /\ valueOption(flags, piece[1]) <=> k = 1 /\ BeforeValue(item)
        /\ BeforeValue(item) => l = 2 /\ written(item)[2][2] = "value"
        /\ ~BeforeValue(item) => l = 1
        /\ k = 1 => piece[2] # "value"
        /\ piece[2] \in {"option", "value", "positional"}
        /\ piece[2] = "value" => piece[1].dashes = 0 /\ k = 2
        /\ piece[1].dashes = 0 /\ item.kind = "option" => piece[2] = "value"
    BY <1>3, <2>2, RolesOfItem
  <2>5. n # N => w[b + 1][2] # "value"
    <3>1. n # N => n + 1 \in 1..N /\ (n + 1) - 1 = n
      BY <1>0
    <3> QED
      BY <1>5, <3>1
  <2>6. n = N => b = L
    OBVIOUS
  <2>7. k \in 1..l /\ p = a + k
    BY <2>2
  <2> HIDE DEF item, a, b, l, piece, L, w
  <2>8. (p < L /\ w[p + 1][2] = "value") <=> k = 1 /\ BeforeValue(item)
    <3>1. CASE k = 1 /\ BeforeValue(item)
      <4>1. p < L /\ p + 1 = a + 2 /\ 2 \in 1..l
        BY <1>2, <2>3, <2>4, <2>7, <3>1
      <4>2. w[a + 2] = written(item)[2]
        BY <2>3, <4>1
      <4> QED
        BY <2>4, <3>1, <4>1, <4>2
    <3>2. CASE ~(k = 1 /\ BeforeValue(item))
      <4>1. p = b
        BY <2>3, <2>4, <2>7, <3>2
      <4>2. n = N => ~(p < L)
        BY <1>2, <2>3, <2>6, <4>1
      <4> QED
        BY <2>5, <3>2, <4>1, <4>2
    <3> QED
      BY <3>1, <3>2
  <2>9. piece[2] = "value" => p # 1
    BY <2>3, <2>4, <2>7
  <2>10. (\A i \in 1..Len(list) : list[i].kind = "option") => item.kind = "option"
    BY DEF item
  <2> QED
    BY <2>4, <2>8, <2>9, <2>10 DEF piece
<1>7. ListRoles(flags, list, w)
  <2> HIDE DEF w
  <2> QED
    BY <1>6 DEF ListRoles
<1> QED
  BY <1>1, <1>7

\* The roles of the words of a line, the command standing at c.
Grammar(line, role, c, command) ==
  /\ Len(line) \in Nat /\ c \in 1..Len(line) /\ command \in DOMAIN commandSpecs
  /\ line[c] = Word(command)
  /\ \A p \in 1..Len(line) : role[p] = "command" <=> p = c
  /\ role[1] # "value"
  /\ \A p \in 1..Len(line) : role[p] = "value" => line[p].dashes = 0
  /\ \A p \in 1..Len(line) : p < c /\ line[p].dashes = 0 => role[p] = "value"
  /\ \A p \in 1..Len(line) :
       (p < Len(line) /\ role[p + 1] = "value") <=> valueOption(commandSpecs[command], line[p])
  /\ \A p \in 1..Len(line) :
       p < c => ((p < Len(line) /\ role[p + 1] = "value") <=> valueOption(leadingFlags, line[p]))

RolesIn(all) == [p \in DOMAIN all |-> all[p][2]]

\* Three parts of a line, joined.
Joined(v, mid, w, all) ==
  /\ Len(v) \in Nat /\ Len(w) \in Nat /\ Len(all) = Len(v) + 1 + Len(w)
  /\ DOMAIN all = 1..Len(all)
  /\ \A i \in 1..Len(v) : all[i] = v[i]
  /\ all[Len(v) + 1] = mid
  /\ \A i \in 1..Len(w) : all[Len(v) + 1 + i] = w[i]

\* A joined sequence consists of its parts.
LEMMA JoinedParts ==
  ASSUME NEW v \in Seq(Pieces), NEW w \in Seq(Pieces), NEW mid \in Pieces
  PROVE  Joined(v, mid, w, v \o <<mid>> \o w) /\ v \o <<mid>> \o w \in Seq(Pieces)
<1> DEFINE x == v \o <<mid>>
           all == x \o w
<1>1. /\ Len(v) \in Nat /\ Len(w) \in Nat /\ x \in Seq(Pieces) /\ Len(x) = Len(v) + 1
      /\ \A i \in 1..Len(v) : x[i] = v[i]
      /\ x[Len(v) + 1] = mid
  OBVIOUS
<1> HIDE DEF x
<1>2. /\ all \in Seq(Pieces) /\ Len(all) = Len(x) + Len(w) /\ DOMAIN all = 1..Len(all)
      /\ \A i \in 1..Len(x) : all[i] = x[i]
      /\ \A i \in 1..Len(w) : all[Len(x) + i] = w[i]
  <2>1. all \in Seq(Pieces) /\ Len(all) = Len(x) + Len(w)
    BY <1>1
  <2>2. \A i \in 1..Len(x) : all[i] = x[i]
    BY <1>1
  <2>3. \A i \in 1..Len(w) : all[Len(x) + i] = w[i]
    BY <1>1
  <2> HIDE DEF all
  <2>4. DOMAIN all = 1..Len(all)
    BY <2>1
  <2> QED
    BY <2>1, <2>2, <2>3, <2>4
<1> HIDE DEF all
<1>3. \A i \in 1..Len(v) : i \in 1..Len(x)
  BY <1>1
<1>4. Len(v) + 1 \in 1..Len(x)
  BY <1>1
<1>5. Joined(v, mid, w, all)
  BY <1>1, <1>2, <1>3, <1>4 DEF Joined
<1> QED
  BY <1>2, <1>5 DEF all, x

\* Every valid command line in the documented spelling has the grammar.
LEMMA GrammarOfLine ==
  ASSUME NEW m \in Meanings, Documented(m), Valid(m)
  PROVE  /\ writtenAll(m) \in Seq(Pieces) /\ argv(m) = Args(writtenAll(m))
         /\ Grammar(argv(m), RolesIn(writtenAll(m)), Len(wordsOf(m.before)) + 1, m.command)
<1> DEFINE before == m.before
           after == m.after
           command == m.command
           list == before \o after
           flags == commandSpecs[command]
           M == Len(before)
           N == Len(after)
<1>1. /\ command \in DOMAIN commandSpecs /\ Items(before) /\ Items(after)
      /\ argv(m) = Args(Line(before, command, after))
      /\ writtenAll(m) = Line(before, command, after) /\ items(m) = list
  BY MeaningParts DEF items, writtenAll, Line
<1>2. before \in {<<Switch("help", 2)>>, <<Switch("version", 2)>>} \/ Commanded(before, command, after)
  BY DocumentedParts
<1>2a. Valid(m) /\ DOMAIN flags = DOMAIN commandSpecs[command]
  OBVIOUS
<1> HIDE DEF before, after, command
<1>3. /\ Items(list) /\ M \in Nat /\ N \in Nat /\ Len(list) = M + N
      /\ \A i \in 1..M : list[i] = before[i]
      /\ \A i \in 1..N : list[M + i] = after[i]
  BY <1>1, ItemsOfBoth
<1> HIDE DEF list, flags
<1>4. \A i \in 1..Len(list) : list[i].kind = "option" => list[i].name \in DOMAIN flags
  <2>1. items(m) \in Seq(ItemType)
    BY <1>1, <1>3 DEF Items
  <2>2. ValidItems(flags, list)
    BY <1>1, <1>2a, <2>1, ItemsMean DEF flags, command
  <2> QED
    BY <2>2 DEF ValidItems, OptionsIn
<1>5. \A i \in 1..M : before[i].kind = "option" => before[i].name \in DOMAIN flags
  <2> TAKE i \in 1..M
  <2>1. i \in 1..Len(list)
    BY <1>3
  <2> QED
    BY <1>3, <1>4, <2>1
<1>6. \A i \in 1..N : after[i].kind = "option" => after[i].name \in DOMAIN flags
  <2> TAKE i \in 1..N
  <2>1. M + i \in 1..Len(list)
    BY <1>3
  <2> QED
    BY <1>3, <1>4, <2>1
<1>7. Commanded(before, command, after)
  <2> SUFFICES ASSUME before \in {<<Switch("help", 2)>>, <<Switch("version", 2)>>} PROVE FALSE
    BY <1>2
  <2>1. M = 1 /\ before[1] \in {Switch("help", 2), Switch("version", 2)}
    <3> DEFINE h == Switch("help", 2) v == Switch("version", 2)
    <3> HIDE DEF h, v
    <3>1. before \in {<<h>>, <<v>>}
      BY DEF h, v
    <3> QED
      BY <3>1 DEF h, v
  <2>2. before[1].kind = "option" /\ before[1].name \in {"help", "version"}
    BY <2>1 DEF Switch, Opt
  <2>3. before[1].name \in DOMAIN flags
    <3>1. 1 \in 1..M
      BY <2>1
    <3> QED
      BY <1>5, <2>2, <3>1
  <2> QED
    BY <1>1, <2>2, <2>3, ReservedNames DEF Reserved, flags
<1>8. /\ Spelled(leadingFlags, before) /\ Spelled(flags, after)
      /\ \A i \in 1..M : before[i].kind = "option" /\ before[i].name \in DOMAIN leadingFlags
  BY <1>7 DEF Commanded, Leading, flags
<1>9. Spelled(flags, before)
  <2>1. Spelled(flags, list)
    BY <1>7, SpelledItems DEF flags, list
  <2>2. \A i \in 1..M : Plainly(before[i]) /\ Fits(flags, before[i])
    <3> TAKE i \in 1..M
    <3>1. i \in 1..Len(list)
      BY <1>3
    <3> QED
      BY <1>3, <2>1, <3>1 DEF Spelled
  <2> QED
    BY <1>1, <2>2 DEF Spelled
<1> DEFINE v == wordsOf(before)
           w == wordsOf(after)
           mid == <<Word(command), "command">>
           all == v \o <<mid>> \o w
<1>10. ListRoles(leadingFlags, before, v) /\ ListRoles(flags, before, v) /\ ListRoles(flags, after, w)
  BY <1>5, <1>6, <1>8, <1>9, RolesOfList DEF OptionsIn
<1>11. v \in Seq(Pieces) /\ w \in Seq(Pieces) /\ mid \in Pieces
  <2>1. command \in Texts
    BY <1>1 DEF Texts
  <2>2. Word(command) \in Words
    BY <2>1, ParsedKinds
  <2>3. mid \in Pieces
    BY <2>2 DEF Pieces, WordRoles
  <2> QED
    BY <1>1, <2>3, WordsOfBoth
<1>12. /\ Word(command).dashes = 0 /\ mid[1] = Word(command) /\ mid[2] = "command"
  BY DEF Word
<1> HIDE DEF v, w, mid
<1>13. Joined(v, mid, w, all) /\ all \in Seq(Pieces)
  BY <1>11, JoinedParts
<1>14. all = Line(before, command, after)
  BY DEF v, w, mid, Line
<1> HIDE DEF all
<1> DEFINE line == Args(all)
           role == RolesIn(all)
           P == Len(v)
           Q == Len(w)
           c == P + 1
<1>15. /\ Len(line) = Len(all) /\ P \in Nat /\ Q \in Nat /\ Len(all) = c + Q
       /\ \A p \in 1..Len(all) : line[p] = all[p][1] /\ role[p] = all[p][2]
       /\ \A i \in 1..P : all[i] = v[i]
       /\ all[c] = mid
       /\ \A i \in 1..Q : all[c + i] = w[i]
  BY <1>13, ArgsOfWords DEF Joined, RolesIn
<1> HIDE DEF line, role, P, Q
<1>16. ~valueOption(flags, Word(command))
  BY <1>12 DEF valueOption
<1>17. /\ \A i \in 1..P : i \in 1..Len(all) /\ i < c
       /\ \A i \in 1..Q : c + i \in 1..Len(all) /\ ~(c + i < c) /\ c + i # c
       /\ c \in 1..Len(all) /\ ~(c < c)
       /\ \A p \in 1..Len(all) : p \in 1..P \/ p = c \/ \E i \in 1..Q : p = c + i
  <2>1. \A p \in 1..Len(all) : p \in 1..P \/ p = c \/ (p - c \in 1..Q /\ p = c + (p - c))
    BY <1>15
  <2>2. \A p \in 1..Len(all) : p \in 1..P \/ p = c \/ \E i \in 1..Q : p = c + i
    BY <2>1
  <2> QED
    BY <1>15, <2>2
<1>18. /\ \A i \in 1..P : line[i] = v[i][1] /\ role[i] = v[i][2]
       /\ line[c] = Word(command) /\ role[c] = "command"
       /\ \A i \in 1..Q : line[c + i] = w[i][1] /\ role[c + i] = w[i][2]
  BY <1>12, <1>15, <1>17
<1>19. /\ \A i \in 1..P : (i < P /\ v[i + 1][2] = "value") <=> valueOption(leadingFlags, v[i][1])
       /\ \A i \in 1..P : (i < P /\ v[i + 1][2] = "value") <=> valueOption(flags, v[i][1])
       /\ \A i \in 1..P : /\ v[i][2] \in {"option", "value", "positional"}
                          /\ v[i][2] = "value" => v[i][1].dashes = 0 /\ i # 1
                          /\ v[i][1].dashes = 0 => v[i][2] = "value"
       /\ \A i \in 1..Q : (i < Q /\ w[i + 1][2] = "value") <=> valueOption(flags, w[i][1])
       /\ \A i \in 1..Q : /\ w[i][2] \in {"option", "value", "positional"}
                          /\ w[i][2] = "value" => w[i][1].dashes = 0 /\ i # 1
  BY <1>8, <1>10 DEF ListRoles, P, Q
<1>20. \A p \in 1..Len(all) : role[p] = "command" <=> p = c
  <2> TAKE p \in 1..Len(all)
  <2>1. CASE p \in 1..P
    <3>1. p # c
      BY <1>17, <2>1
    <3> QED
      BY <1>18, <1>19, <2>1, <3>1
  <2>2. CASE p = c
    BY <1>18, <2>2
  <2>3. ASSUME NEW i \in 1..Q, p = c + i PROVE role[p] = "command" <=> p = c
    <3>1. p # c
      BY <1>17, <2>3
    <3> QED
      BY <1>18, <1>19, <2>3, <3>1
  <2> QED
    BY <1>17, <2>1, <2>2, <2>3
<1>21. role[1] # "value"
  <2>1. CASE P = 0
    <3>1. c = 1
      BY <2>1
    <3> QED
      BY <1>18, <3>1
  <2>2. CASE P # 0
    <3>1. 1 \in 1..P
      BY <1>15, <2>2
    <3> QED
      BY <1>18, <1>19, <3>1
  <2> QED
    BY <2>1, <2>2
<1>22. \A p \in 1..Len(all) : /\ role[p] = "value" => line[p].dashes = 0
                              /\ p < c /\ line[p].dashes = 0 => role[p] = "value"
  <2> TAKE p \in 1..Len(all)
  <2>1. CASE p \in 1..P
    BY <1>18, <1>19, <2>1
  <2>2. CASE p = c
    <3>1. ~(p < c)
      BY <1>17, <2>2
    <3> QED
      BY <1>18, <2>2, <3>1
  <2>3. CASE \E i \in 1..Q : p = c + i
    <3>1. PICK i \in 1..Q : p = c + i
      BY <2>3
    <3>2. ~(p < c)
      BY <1>17, <3>1
    <3> QED
      BY <1>18, <1>19, <3>1, <3>2
  <2> QED
    BY <1>17, <2>1, <2>2, <2>3
<1> DEFINE follows(p) == p < Len(all) /\ role[p + 1] = "value"
<1>23. \A i \in 1..P : follows(i) <=> i < P /\ v[i + 1][2] = "value"
  <2> TAKE i \in 1..P
  <2>1. CASE i < P
    <3>1. i + 1 \in 1..P /\ i < Len(all)
      BY <1>15, <2>1
    <3> QED
      BY <1>18, <2>1, <3>1
  <2>2. CASE ~(i < P)
    <3>1. i + 1 = c
      BY <1>15, <2>2
    <3> QED
      BY <1>18, <2>2, <3>1
  <2> QED
    BY <2>1, <2>2
<1>24. ~follows(c)
  <2>1. CASE Q = 0
    BY <1>15, <2>1
  <2>2. CASE Q # 0
    <3>1. 1 \in 1..Q
      BY <1>15, <2>2
    <3> QED
      BY <1>18, <1>19, <3>1
  <2> QED
    BY <2>1, <2>2
<1>25. \A i \in 1..Q : follows(c + i) <=> i < Q /\ w[i + 1][2] = "value"
  <2> TAKE i \in 1..Q
  <2>1. (c + i) + 1 = c + (i + 1) /\ (c + i < Len(all) <=> i < Q) /\ (i < Q => i + 1 \in 1..Q)
    BY <1>15
  <2> HIDE DEF c
  <2> QED
    BY <1>18, <2>1
<1> HIDE DEF follows, c
<1>26. \A p \in 1..Len(all) : follows(p) <=> valueOption(flags, line[p])
  <2> TAKE p \in 1..Len(all)
  <2>1. CASE p \in 1..P
    BY <1>18, <1>19, <1>23, <2>1
  <2>2. CASE p = c
    BY <1>16, <1>18, <1>24, <2>2
  <2>3. CASE \E i \in 1..Q : p = c + i
    BY <1>18, <1>19, <1>25, <2>3
  <2> QED
    BY <1>17, <2>1, <2>2, <2>3
<1>27. \A p \in 1..Len(all) : p < c => (follows(p) <=> valueOption(leadingFlags, line[p]))
  <2> TAKE p \in 1..Len(all)
  <2> HAVE p < c
  <2>1. p \in 1..P
    BY <1>17
  <2> QED
    BY <1>18, <1>19, <1>23, <2>1
<1>28. Grammar(line, role, c, command)
  <2>1. Len(line) \in Nat
    BY <1>13, <1>15
  <2> QED
    BY <1>1, <1>15, <1>17, <1>18, <1>20, <1>21, <1>22, <1>26, <1>27, <2>1 DEF Grammar, follows, flags
<1> QED
  <2>1. c = Len(wordsOf(before)) + 1
    BY DEF c, P, v
  <2> QED
    BY <1>1, <1>13, <1>14, <1>28, <2>1 DEF line, role, before, command, after

-----------------------------------------------------------------------------
(* The completions. *)

\* What a shell should know behind the n-th word of a line.
Expects(line, role, n) == n < Len(line) /\ role[n + 1] = "value"

Known(c, command, n) == IF n >= c THEN command ELSE NoName

Expected(line, role, c, command, n) ==
  Reading(Known(c, command, n), Expects(line, role, n))

\* A word that is read as a value is not the command and has no dashes, and
\* before the command no other word without dashes stands.
LEMMA GrammarSteps ==
  ASSUME NEW line, NEW role, NEW c, NEW command, Grammar(line, role, c, command),
         NEW k \in 1..Len(line)
  PROVE  /\ Len(line) \in Nat /\ c \in Nat
         /\ Expects(line, role, k - 1) => k # c /\ line[k].dashes = 0
         /\ ~Expects(line, role, k - 1) /\ k < c => ~isCommand(line[k])
         /\ k = c => line[k] = Word(command) /\ isCommand(line[k])
         /\ k < c => (Expects(line, role, k) <=> valueOption(leadingFlags, line[k]))
         /\ Expects(line, role, k) <=> valueOption(commandSpecs[command], line[k])
         /\ line[k].dashes = 0 => ~Expects(line, role, k)
         /\ command # NoName /\ command \in DOMAIN commandSpecs
<1>1. Len(line) \in Nat /\ c \in Nat /\ k \in Nat /\ k - 1 < Len(line) /\ (k - 1) + 1 = k
  BY DEF Grammar
<1>2. Expects(line, role, k - 1) <=> role[k] = "value"
  BY <1>1 DEF Expects
<1>3. Expects(line, role, k) <=> valueOption(commandSpecs[command], line[k])
  BY DEF Grammar, Expects
<1>4. k < c => (Expects(line, role, k) <=> valueOption(leadingFlags, line[k]))
  BY DEF Grammar, Expects
<1>5. line[k].dashes = 0 => ~Expects(line, role, k)
  BY <1>3 DEF valueOption
<1>6. role[k] = "value" => k # c /\ line[k].dashes = 0
  <2>1. role[k] = "command" <=> k = c
    BY DEF Grammar
  <2> QED
    BY <2>1 DEF Grammar
<1>7. role[k] # "value" /\ k < c => ~isCommand(line[k])
  BY DEF Grammar, isCommand
<1>8. k = c => line[k] = Word(command) /\ isCommand(line[k])
  BY DEF Grammar, isCommand, Word
<1>9. command # NoName /\ command \in DOMAIN commandSpecs
  BY CommandNames DEF Grammar
<1> QED
  BY <1>1, <1>2, <1>3, <1>4, <1>5, <1>6, <1>7, <1>8, <1>9

\* The prefix of a line.
LEMMA Prefix ==
  ASSUME NEW line, line \in Seq(Words), NEW n \in 0..Len(line)
  PROVE  /\ Len(SubSeq(line, 1, n)) = n
         /\ \A k \in 1..n : SubSeq(line, 1, n)[k] = line[k]
<1>1. Len(line) \in Nat /\ n \in Nat /\ 1 \in Int /\ n \in Int
  OBVIOUS
<1>2. \A i \in 1..n : line[i] \in Words
  <2>1. \A i \in 1..n : i \in 1..Len(line)
    BY <1>1
  <2> QED
    BY <2>1
<1>3. Len(SubSeq(line, 1, n)) = IF 1 <= n THEN n - 1 + 1 ELSE 0
  BY <1>1, <1>2, SubSeqProperties
<1>4. \A i \in 1..(n - 1 + 1) : SubSeq(line, 1, n)[i] = line[1 + i - 1]
  BY ONLY <1>1, <1>2, SubSeqProperties
<1>5. n - 1 + 1 = n /\ \A i \in 1..n : 1 + i - 1 = i
  BY <1>1
<1>6. Len(SubSeq(line, 1, n)) = n
  BY <1>1, <1>3
<1> QED
  BY <1>4, <1>5, <1>6

\* The words before the cursor.
Prefixed(words, line, n) ==
  Len(words) = n /\ n \in 0..Len(line) /\ \A k \in 1..n : words[k] = line[k]

\* Two tables that begin alike and go on alike agree.
LEMMA SameTables ==
  ASSUME NEW u, NEW e, NEW n \in Nat, u[0] = e[0],
         \A k \in 1..n : u[k - 1] = e[k - 1] => u[k] = e[k]
  PROVE  u[n] = e[n]
<1> DEFINE S == {k \in Nat : k <= n => u[k] = e[k]}
<1>1. ASSUME NEW k \in Nat, k \in S PROVE k + 1 \in S
  <2>1. k + 1 <= n => k + 1 \in 1..n /\ (k + 1) - 1 = k /\ k <= n
    OBVIOUS
  <2> QED
    BY <1>1, <2>1
<1>2. 0 \in S
  OBVIOUS
<1> HIDE DEF S
<1>3. n \in S
  BY <1>1, <1>2, SetInduction
<1> QED
  BY <1>3 DEF S

\* One word read by the loop over words, as zsh and bash have it.
LEMMA ReadsWord ==
  ASSUME NEW line, NEW role, NEW c, NEW command, Grammar(line, role, c, command),
         NEW k \in 1..Len(line)
  PROVE  readWord(Expected(line, role, c, command, k - 1), line[k]) = Expected(line, role, c, command, k)
<1> DEFINE exp(i) == Expected(line, role, c, command, i)
<1>0. Len(line) \in Nat /\ c \in 1..Len(line) /\ k \in Nat
  BY DEF Grammar
<1> DEFINE word == line[k]
           here == Expects(line, role, k - 1)
           next == Expects(line, role, k)
<1>2. /\ here => k # c /\ word.dashes = 0
      /\ ~here /\ k < c => ~isCommand(word)
      /\ k = c => word = Word(command) /\ isCommand(word)
      /\ k < c => (next <=> valueOption(leadingFlags, word))
      /\ next <=> valueOption(commandSpecs[command], word)
      /\ word.dashes = 0 => ~next
      /\ command # NoName
  BY GrammarSteps
<1>3. /\ here \in BOOLEAN /\ next \in BOOLEAN
      /\ valueOption(leadingFlags, word) \in BOOLEAN
      /\ valueOption(commandSpecs[command], word) \in BOOLEAN
  BY DEF Expects, valueOption
<1>4. /\ exp(k - 1) = Reading(Known(c, command, k - 1), here)
      /\ exp(k) = Reading(Known(c, command, k), next)
  BY DEF Expected
<1>5. /\ k < c => Known(c, command, k - 1) = NoName /\ Known(c, command, k) = NoName
      /\ k = c => Known(c, command, k - 1) = NoName /\ Known(c, command, k) = command
      /\ k > c => Known(c, command, k - 1) = command /\ Known(c, command, k) = command
  BY <1>0 DEF Known
<1>6. Word(command).name = command /\ Word(command).dashes = 0
  BY DEF Word
<1>7. k < c \/ k = c \/ k > c
  BY <1>0
<1> HIDE DEF word, here, next, exp
<1>8. ASSUME NEW b, NEW r, r = Reading(b, here) PROVE r.command = b /\ r.expectValue = here
  BY <1>8 DEF Reading
<1>9. exp(k - 1).command = Known(c, command, k - 1) /\ exp(k - 1).expectValue = here
  BY <1>4, <1>8
<1>10. readWord(exp(k - 1), word) = exp(k)
  <2>1. CASE here
    <3>1. next = FALSE
      BY <1>2, <1>3, <2>1
    <3>2. Known(c, command, k - 1) = Known(c, command, k)
      BY <1>2, <1>5, <1>7, <2>1
    <3> QED
      BY <1>4, <1>9, <2>1, <3>1, <3>2 DEF readWord
  <2>2. CASE ~here /\ k < c
    <3>1. next = valueOption(leadingFlags, word)
      BY <1>2, <1>3, <2>2
    <3> QED
      BY <1>2, <1>4, <1>5, <1>9, <2>2, <3>1 DEF flagsOf, readWord
  <2>3. CASE ~here /\ k = c
    <3>1. next = FALSE
      BY <1>2, <1>3, <1>6, <2>3
    <3> QED
      BY <1>2, <1>4, <1>5, <1>6, <1>9, <2>3, <3>1 DEF readWord
  <2>4. CASE ~here /\ k > c
    <3>1. next = valueOption(commandSpecs[command], word)
      BY <1>2, <1>3
    <3> QED
      BY <1>2, <1>4, <1>5, <1>9, <2>4, <3>1 DEF flagsOf, readWord
  <2> QED
    BY <1>7, <2>1, <2>2, <2>3, <2>4
<1> QED
  BY <1>10 DEF word, exp

\* zsh: the loop knows the command and the value at every word.
LEMMA ZshKnows ==
  ASSUME NEW line, NEW role, NEW c, NEW command, Grammar(line, role, c, command),
         NEW n, NEW words, Prefixed(words, line, n)
  PROVE  zshCompletion(words) = Expected(line, role, c, command, n)
<1> DEFINE exp(k) == Expected(line, role, c, command, k)
           e == [k \in 0..n |-> exp(k)]
<1>1. Len(words) = n /\ n \in Nat /\ n <= Len(line) /\ Len(line) \in Nat /\ c \in 1..Len(line)
  BY DEF Prefixed, Grammar
<1>2. exp(0) = Reading(NoName, FALSE)
  <2>1. ~(0 >= c) /\ 0 + 1 = 1
    BY <1>1
  <2>2. ~Expects(line, role, 0)
    BY <2>1 DEF Grammar, Expects
  <2>3. Expects(line, role, 0) = FALSE
    BY <2>2 DEF Expects
  <2> QED
    BY <2>1, <2>3 DEF Expected, Known
<1>3. \A k \in 1..n : exp(k) = readWord(exp(k - 1), words[k])
  <2> TAKE k \in 1..n
  <2>1. words[k] = line[k] /\ k \in 1..Len(line)
    BY <1>1 DEF Prefixed
  <2> QED
    BY <2>1, ReadsWord
<1> HIDE DEF exp
<1>4. \E f : f = [k \in 0..Len(words) |-> IF k = 0 THEN Reading(NoName, FALSE) ELSE readWord(f[k - 1], words[k])]
  <2>1. e = [k \in 0..Len(words) |-> IF k = 0 THEN Reading(NoName, FALSE) ELSE readWord(e[k - 1], words[k])]
    <3>1. \A k \in 0..n : k # 0 => k \in 1..n /\ k - 1 \in 0..n
      BY <1>1
    <3>2. \A k \in 0..n : k # 0 => e[k - 1] = exp(k - 1)
      BY <3>1
    <3>3. \A k \in 0..n : exp(k) = IF k = 0 THEN Reading(NoName, FALSE) ELSE readWord(e[k - 1], words[k])
      <4> TAKE k \in 0..n
      <4>1. k = 0 => exp(k) = Reading(NoName, FALSE)
        BY <1>2
      <4>2. k # 0 => exp(k) = readWord(e[k - 1], words[k])
        BY <1>3, <3>1, <3>2
      <4> QED
        BY <4>1, <4>2
    <3> QED
      BY <1>1, <3>3
  <2> HIDE DEF e
  <2> QED
    BY <2>1
<1>5. PICK u : u = CHOOSE f : f = [k \in 0..Len(words) |-> IF k = 0 THEN Reading(NoName, FALSE) ELSE readWord(f[k - 1], words[k])]
  OBVIOUS
<1>6. u = [k \in 0..Len(words) |-> IF k = 0 THEN Reading(NoName, FALSE) ELSE readWord(u[k - 1], words[k])]
  BY <1>4, <1>5
<1>7. zshCompletion(words) = u[Len(words)]
  BY <1>5 DEF zshCompletion
<1>8. u[n] = exp(n)
  <2>1. n \in 0..n
    BY <1>1
  <2>2. u[0] = e[0]
    BY <1>1, <1>2, <1>6
  <2>3. \A k \in 1..n : u[k - 1] = e[k - 1] => u[k] = e[k]
    <3> TAKE k \in 1..n
    <3>1. k \in 0..n /\ k # 0 /\ k - 1 \in 0..n
      BY <1>1
    <3>2. e[k] = exp(k) /\ e[k - 1] = exp(k - 1)
      BY <3>1
    <3>3. u[k] = readWord(u[k - 1], words[k])
      BY <1>1, <1>6, <3>1
    <3> QED
      BY <1>3, <3>2, <3>3
  <2>4. e[n] = exp(n)
    BY <2>1
  <2> HIDE DEF e
  <2>5. u[n] = e[n]
    BY <1>1, <2>2, <2>3, SameTables
  <2> QED
    BY <2>4, <2>5
<1> QED
  BY <1>1, <1>7, <1>8 DEF exp

\* An assigned value read in three pieces tells the loop nothing, unless it is
\* the name of a command and the loop still looks for one.
LEMMA ReadsPieces ==
  ASSUME NEW b, NEW word, Assigned(word), b # NoName \/ word.value \notin DOMAIN commandSpecs
  PROVE  readPieces(Reading(b, FALSE), word) = Reading(b, FALSE)
<1> DEFINE option == Option(word.dashes, word.name, NoValue)
           sign == Word("=")
           value == Word(word.value)
<1>1. /\ option.dashes > 0
      /\ sign.dashes = 0 /\ sign.name = "="
      /\ value.dashes = 0 /\ value.name = word.value
  BY DEF Option, Word, Assigned
<1>2. /\ ~isCommand(option) /\ ~isCommand(sign)
      /\ b # NoName \/ ~isCommand(value)
  <2>1. "=" \notin DOMAIN commandSpecs
    BY DEF commandSpecs
  <2> HIDE DEF option, sign, value
  <2>2. option.dashes # 0
    BY <1>1
  <2> QED
    BY <1>1, <2>1, <2>2 DEF isCommand
<1> HIDE DEF option, sign, value
<1>3. \A flags : ~valueOption(flags, sign) /\ ~valueOption(flags, value)
  BY <1>1 DEF valueOption
<1>4. \A flags : valueOption(flags, sign) = FALSE /\ valueOption(flags, value) = FALSE
  BY <1>3 DEF valueOption
<1> DEFINE x == valueOption(flagsOf(b), option)
<1>5. x \in BOOLEAN
  BY DEF valueOption
<1>6. \A y : Reading(b, y).command = b /\ Reading(b, y).expectValue = y
  BY DEF Reading
<1>7. readWord(Reading(b, FALSE), option) = Reading(b, x)
  BY <1>2, <1>6 DEF readWord
<1> HIDE DEF x
<1>8. readWord(Reading(b, x), sign) = Reading(b, FALSE)
  BY <1>2, <1>4, <1>5, <1>6 DEF readWord
<1>9. readWord(Reading(b, FALSE), value) = Reading(b, FALSE)
  BY <1>2, <1>4, <1>6 DEF readWord
<1> QED
  BY <1>7, <1>8, <1>9 DEF readPieces, option, sign, value

\* bash: so does the loop over its pieces, when no assigned value before the
\* command is the name of one.
LEMMA BashKnows ==
  ASSUME NEW line, NEW role, NEW c, NEW command, Grammar(line, role, c, command),
         NEW n, NEW words, Prefixed(words, line, n),
         \A k \in 1..n : k < c => line[k].value \notin DOMAIN commandSpecs
  PROVE  bashCompletion(words) = Expected(line, role, c, command, n)
<1> DEFINE exp(k) == Expected(line, role, c, command, k)
           e == [k \in 0..n |-> exp(k)]
<1>1. Len(words) = n /\ n \in Nat /\ n <= Len(line) /\ Len(line) \in Nat /\ c \in 1..Len(line)
  BY DEF Prefixed, Grammar
<1>2. exp(0) = Reading(NoName, FALSE)
  <2>1. ~(0 >= c) /\ 0 + 1 = 1
    BY <1>1
  <2>2. ~Expects(line, role, 0)
    BY <2>1 DEF Grammar, Expects
  <2>3. Expects(line, role, 0) = FALSE
    BY <2>2 DEF Expects
  <2> QED
    BY <2>1, <2>3 DEF Expected, Known
<1>3. \A k \in 1..n : exp(k) = readPieces(exp(k - 1), words[k])
  <2> TAKE k \in 1..n
  <2>1. words[k] = line[k] /\ k \in 1..Len(line)
    BY <1>1 DEF Prefixed
  <2>2. CASE ~Assigned(line[k])
    BY <2>1, <2>2, ReadsWord DEF readPieces
  <2>3. CASE Assigned(line[k])
    <3>1. /\ line[k].dashes # 0 /\ ~valueOption(commandSpecs[command], line[k])
      BY <2>3 DEF Assigned, valueOption
    <3>2. ~Expects(line, role, k - 1) /\ ~Expects(line, role, k) /\ k # c /\ command # NoName
      <4>1. k = c => isCommand(line[k])
        BY <2>1, GrammarSteps
      <4>2. k # c
        BY <3>1, <4>1 DEF isCommand
      <4> QED
        BY <2>1, <3>1, <4>2, GrammarSteps
    <3>3. Expects(line, role, k - 1) = FALSE /\ Expects(line, role, k) = FALSE
      BY <3>2 DEF Expects
    <3> DEFINE b == Known(c, command, k)
    <3>4. Known(c, command, k - 1) = b /\ (k < c \/ b # NoName)
      BY <1>1, <3>2 DEF Known
    <3>5. exp(k - 1) = Reading(b, FALSE) /\ exp(k) = Reading(b, FALSE)
      BY <3>3, <3>4 DEF Expected
    <3>6. b # NoName \/ line[k].value \notin DOMAIN commandSpecs
      BY <3>4
    <3> HIDE DEF b, exp
    <3>7. readPieces(Reading(b, FALSE), line[k]) = Reading(b, FALSE)
      BY <2>3, <3>6, ReadsPieces
    <3> QED
      BY <2>1, <3>5, <3>7
  <2> QED
    BY <2>2, <2>3
<1> HIDE DEF exp
<1>4. \E f : f = [k \in 0..Len(words) |-> IF k = 0 THEN Reading(NoName, FALSE) ELSE readPieces(f[k - 1], words[k])]
  <2>1. e = [k \in 0..Len(words) |-> IF k = 0 THEN Reading(NoName, FALSE) ELSE readPieces(e[k - 1], words[k])]
    <3>1. \A k \in 0..n : k # 0 => k \in 1..n /\ k - 1 \in 0..n
      BY <1>1
    <3>2. \A k \in 0..n : k # 0 => e[k - 1] = exp(k - 1)
      BY <3>1
    <3>3. \A k \in 0..n : exp(k) = IF k = 0 THEN Reading(NoName, FALSE) ELSE readPieces(e[k - 1], words[k])
      <4> TAKE k \in 0..n
      <4>1. k = 0 => exp(k) = Reading(NoName, FALSE)
        BY <1>2
      <4>2. k # 0 => exp(k) = readPieces(e[k - 1], words[k])
        BY <1>3, <3>1, <3>2
      <4> QED
        BY <4>1, <4>2
    <3> QED
      BY <1>1, <3>3
  <2> HIDE DEF e
  <2> QED
    BY <2>1
<1>5. PICK u : u = CHOOSE f : f = [k \in 0..Len(words) |-> IF k = 0 THEN Reading(NoName, FALSE) ELSE readPieces(f[k - 1], words[k])]
  OBVIOUS
<1>6. u = [k \in 0..Len(words) |-> IF k = 0 THEN Reading(NoName, FALSE) ELSE readPieces(u[k - 1], words[k])]
  BY <1>4, <1>5
<1>7. bashCompletion(words) = u[Len(words)]
  BY <1>5 DEF bashCompletion
<1>8. u[n] = exp(n)
  <2>1. n \in 0..n
    BY <1>1
  <2>2. u[0] = e[0]
    BY <1>1, <1>2, <1>6
  <2>3. \A k \in 1..n : u[k - 1] = e[k - 1] => u[k] = e[k]
    <3> TAKE k \in 1..n
    <3>1. k \in 0..n /\ k # 0 /\ k - 1 \in 0..n
      BY <1>1
    <3>2. e[k] = exp(k) /\ e[k - 1] = exp(k - 1)
      BY <3>1
    <3>3. u[k] = readPieces(u[k - 1], words[k])
      BY <1>1, <1>6, <3>1
    <3> QED
      BY <1>3, <3>2, <3>3
  <2>4. e[n] = exp(n)
    BY <2>1
  <2> HIDE DEF e
  <2>5. u[n] = e[n]
    BY <1>1, <2>2, <2>3, SameTables
  <2> QED
    BY <2>4, <2>5
<1> QED
  BY <1>1, <1>7, <1>8 DEF exp

\* fish: as the loop up to the command, and the command from there on.
LEMMA FishKnows ==
  ASSUME NEW line, NEW role, NEW c, NEW command, Grammar(line, role, c, command),
         NEW n, NEW words, Prefixed(words, line, n)
  PROVE  fishCompletion(words) = Known(c, command, n)
<1> DEFINE reads(r, word) ==
             IF r.command # NoName THEN r
             ELSE IF r.expectValue THEN Reading(NoName, FALSE)
             ELSE IF isCommand(word) THEN Reading(word.name, FALSE)
             ELSE Reading(NoName, valueOption(leadingFlags, word))
           exp(k) == Reading(Known(c, command, k), k < c /\ Expects(line, role, k))
           e == [k \in 0..n |-> exp(k)]
<1>1. Len(words) = n /\ n \in Nat /\ n <= Len(line) /\ Len(line) \in Nat /\ c \in 1..Len(line)
  BY DEF Prefixed, Grammar
<1>2. exp(0) = Reading(NoName, FALSE)
  <2>1. ~(0 >= c) /\ 0 + 1 = 1
    BY <1>1
  <2>2. ~Expects(line, role, 0)
    BY <2>1 DEF Grammar, Expects
  <2>3. Expects(line, role, 0) = FALSE
    BY <2>2 DEF Expects
  <2> QED
    BY <2>1, <2>3 DEF Known
<1>3. \A k \in 1..n : exp(k) = reads(exp(k - 1), words[k])
  <2> TAKE k \in 1..n
  <2>1. words[k] = line[k] /\ k \in 1..Len(line)
    BY <1>1 DEF Prefixed
  <2> DEFINE word == line[k]
             here == Expects(line, role, k - 1)
             next == Expects(line, role, k)
             here2 == k - 1 < c /\ here
             next2 == k < c /\ next
  <2>2. /\ here => k # c /\ word.dashes = 0
        /\ ~here /\ k < c => ~isCommand(word)
        /\ k = c => word = Word(command) /\ isCommand(word)
        /\ k < c => (next <=> valueOption(leadingFlags, word))
        /\ word.dashes = 0 => ~next
        /\ command # NoName
    BY <2>1, GrammarSteps
  <2>3. /\ here \in BOOLEAN /\ next \in BOOLEAN /\ here2 \in BOOLEAN /\ next2 \in BOOLEAN
        /\ valueOption(leadingFlags, word) \in BOOLEAN
    BY DEF Expects, valueOption
  <2>4. /\ exp(k - 1) = Reading(Known(c, command, k - 1), here2)
        /\ exp(k) = Reading(Known(c, command, k), next2)
    OBVIOUS
  <2>5. /\ k < c => /\ Known(c, command, k - 1) = NoName /\ Known(c, command, k) = NoName
                    /\ (here2 <=> here) /\ (next2 <=> next)
        /\ k = c => Known(c, command, k - 1) = NoName /\ Known(c, command, k) = command
                    /\ (here2 <=> here) /\ ~next2
        /\ k > c => Known(c, command, k - 1) = command /\ Known(c, command, k) = command
                    /\ ~here2 /\ ~next2
    BY <1>1 DEF Known
  <2>6. Word(command).name = command /\ Word(command).dashes = 0
    BY DEF Word
  <2>7. k < c \/ k = c \/ k > c
    BY <1>1
  <2> HIDE DEF word, here, next, here2, next2, exp
  <2>8. ASSUME NEW b, NEW x, NEW r, r = Reading(b, x) PROVE r.command = b /\ r.expectValue = x
    BY <2>8 DEF Reading
  <2>9. exp(k - 1).command = Known(c, command, k - 1) /\ exp(k - 1).expectValue = here2
    BY <2>4, <2>8
  <2>10. reads(exp(k - 1), word) = exp(k)
    <3>1. CASE k < c /\ here
      <4>1. next2 = FALSE /\ here2
        BY <2>2, <2>3, <2>5, <3>1
      <4> QED
        BY <2>4, <2>5, <2>9, <3>1, <4>1
    <3>2. CASE k < c /\ ~here
      <4>1. next2 = valueOption(leadingFlags, word) /\ ~here2
        BY <2>2, <2>3, <2>5, <3>2
      <4> QED
        BY <2>2, <2>4, <2>5, <2>9, <3>2, <4>1
    <3>3. CASE k = c
      <4>1. next2 = FALSE /\ ~here2
        BY <2>2, <2>3, <2>5, <3>3
      <4> QED
        BY <2>2, <2>4, <2>5, <2>6, <2>9, <3>3, <4>1
    <3>4. CASE k > c
      <4>1. next2 = FALSE /\ here2 = FALSE
        BY <2>3, <2>5, <3>4
      <4>2. exp(k - 1) = exp(k)
        BY <2>4, <2>5, <3>4, <4>1
      <4>3. exp(k - 1).command # NoName
        BY <2>2, <2>5, <2>9, <3>4
      <4>4. reads(exp(k - 1), word) = exp(k - 1)
        BY <4>3
      <4> QED
        BY <4>2, <4>4
    <3> QED
      BY <2>7, <3>1, <3>2, <3>3, <3>4
  <2> QED
    BY <2>1, <2>10 DEF word
<1>3a. exp(n).command = Known(c, command, n)
  BY DEF Reading
<1> HIDE DEF reads, exp
<1>4. \E f : f = [k \in 0..Len(words) |-> IF k = 0 THEN Reading(NoName, FALSE) ELSE reads(f[k - 1], words[k])]
  <2>1. e = [k \in 0..Len(words) |-> IF k = 0 THEN Reading(NoName, FALSE) ELSE reads(e[k - 1], words[k])]
    <3>1. \A k \in 0..n : k # 0 => k \in 1..n /\ k - 1 \in 0..n
      BY <1>1
    <3>2. \A k \in 0..n : k # 0 => e[k - 1] = exp(k - 1)
      BY <3>1
    <3>3. \A k \in 0..n : exp(k) = IF k = 0 THEN Reading(NoName, FALSE) ELSE reads(e[k - 1], words[k])
      <4> TAKE k \in 0..n
      <4>1. k = 0 => exp(k) = Reading(NoName, FALSE)
        BY <1>2
      <4>2. k # 0 => exp(k) = reads(e[k - 1], words[k])
        BY <1>3, <3>1, <3>2
      <4> QED
        BY <4>1, <4>2
    <3> QED
      BY <1>1, <3>3
  <2> HIDE DEF e
  <2> QED
    BY <2>1
<1>5. PICK u : u = CHOOSE f : f = [k \in 0..Len(words) |-> IF k = 0 THEN Reading(NoName, FALSE) ELSE reads(f[k - 1], words[k])]
  OBVIOUS
<1>6. u = [k \in 0..Len(words) |-> IF k = 0 THEN Reading(NoName, FALSE) ELSE reads(u[k - 1], words[k])]
  BY <1>4, <1>5
<1>7. fishCompletion(words) = u[Len(words)].command
  BY <1>5 DEF fishCompletion, reads
<1>8. u[n] = exp(n)
  <2>1. n \in 0..n
    BY <1>1
  <2>2. u[0] = e[0]
    BY <1>1, <1>2, <1>6
  <2>3. \A k \in 1..n : u[k - 1] = e[k - 1] => u[k] = e[k]
    <3> TAKE k \in 1..n
    <3>1. k \in 0..n /\ k # 0 /\ k - 1 \in 0..n
      BY <1>1
    <3>2. e[k] = exp(k) /\ e[k - 1] = exp(k - 1)
      BY <3>1
    <3>3. u[k] = reads(u[k - 1], words[k])
      BY <1>1, <1>6, <3>1
    <3> QED
      BY <1>3, <3>2, <3>3
  <2>4. e[n] = exp(n)
    BY <2>1
  <2> HIDE DEF e
  <2>5. u[n] = e[n]
    BY <1>1, <2>2, <2>3, SameTables
  <2> QED
    BY <2>4, <2>5
<1> QED
  BY <1>1, <1>3a, <1>7, <1>8

\* PowerShell: the second pass, by the options of the command that the first
\* has found, finds the same values.
LEMMA PowershellKnows ==
  ASSUME NEW line, NEW role, NEW c, NEW command, Grammar(line, role, c, command),
         NEW n, NEW words, Prefixed(words, line, n)
  PROVE  powershellCompletion(words) = Expected(line, role, c, command, n)
<1> DEFINE found == fishCompletion(words)
           expect(b, k) == k > 0 /\ ~b /\ words[k] # Word(found) /\ valueOption(flagsOf(found), words[k])
           exp(k) == Expects(line, role, k)
           e == [k \in 0..n |-> exp(k)]
<1>1. Len(words) = n /\ n \in Nat /\ n <= Len(line) /\ Len(line) \in Nat /\ c \in 1..Len(line)
  BY DEF Prefixed, Grammar
<1>2. found = Known(c, command, n)
  BY FishKnows
<1>2a. \A b : expect(b, 0) = FALSE
  OBVIOUS
<1>2b. exp(0) = FALSE
  <2>1. 0 + 1 = 1
    OBVIOUS
  <2> QED
    BY <2>1 DEF Grammar, Expects
<1>3. \A k \in 1..n : exp(k) = expect(exp(k - 1), k)
  <2> TAKE k \in 1..n
  <2>1. words[k] = line[k] /\ k \in 1..Len(line) /\ k > 0
    BY <1>1 DEF Prefixed
  <2> DEFINE word == line[k]
             flags == flagsOf(found)
  <2>2. /\ exp(k - 1) => word.dashes = 0
        /\ k < c => (exp(k) <=> valueOption(leadingFlags, word))
        /\ exp(k) <=> valueOption(commandSpecs[command], word)
        /\ word.dashes = 0 => ~exp(k)
        /\ command # NoName
    BY <2>1, GrammarSteps
  <2>3. exp(k) <=> valueOption(flags, word)
    <3>1. CASE n >= c
      <4>1. flags = commandSpecs[command]
        BY <1>2, <2>2, <3>1 DEF Known, flagsOf
      <4> QED
        BY <2>2, <4>1
    <3>2. CASE ~(n >= c)
      <4>1. flags = leadingFlags /\ k < c
        BY <1>1, <1>2, <3>2 DEF Known, flagsOf
      <4> QED
        BY <2>2, <4>1
    <3> QED
      BY <3>1, <3>2
  <2>4. word = Word(found) => ~valueOption(flags, word)
    BY DEF Word, valueOption
  <2>5. exp(k) \in BOOLEAN
    BY DEF Expects
  <2> HIDE DEF flags, exp
  <2>6. expect(exp(k - 1), k) <=> exp(k)
    BY <2>1, <2>2, <2>3, <2>4 DEF flags
  <2> QED
    BY <2>5, <2>6
<1> HIDE DEF expect, exp, found
<1>4. \E f : f = [k \in 0..Len(words) |-> expect(f[k - 1], k)]
  <2>1. e = [k \in 0..Len(words) |-> expect(e[k - 1], k)]
    <3>1. \A k \in 0..n : k # 0 => k \in 1..n /\ k - 1 \in 0..n
      BY <1>1
    <3>2. \A k \in 0..n : k # 0 => e[k - 1] = exp(k - 1)
      BY <3>1
    <3>3. \A k \in 0..n : exp(k) = expect(e[k - 1], k)
      <4> TAKE k \in 0..n
      <4>1. k = 0 => exp(k) = expect(e[k - 1], k)
        BY <1>2a, <1>2b
      <4>2. k # 0 => exp(k) = expect(e[k - 1], k)
        BY <1>3, <3>1, <3>2
      <4> QED
        BY <4>1, <4>2
    <3> QED
      BY <1>1, <3>3
  <2> HIDE DEF e
  <2> QED
    BY <2>1
<1>5. PICK u : u = CHOOSE f : f = [k \in 0..Len(words) |-> expect(f[k - 1], k)]
  OBVIOUS
<1>6. u = [k \in 0..Len(words) |-> expect(u[k - 1], k)]
  BY <1>4, <1>5
<1>7. powershellCompletion(words) = Reading(found, u[Len(words)])
  BY <1>5 DEF powershellCompletion, expect, found
<1>8. u[n] = exp(n)
  <2>1. n \in 0..n
    BY <1>1
  <2>2. u[0] = e[0]
    <3>1. 0 \in 0..n
      BY <1>1
    <3>2. u[0] = expect(u[0 - 1], 0)
      BY <1>1, <1>6, <3>1
    <3> QED
      BY <1>2a, <1>2b, <3>1, <3>2
  <2>3. \A k \in 1..n : u[k - 1] = e[k - 1] => u[k] = e[k]
    <3> TAKE k \in 1..n
    <3>1. k \in 0..n /\ k # 0 /\ k - 1 \in 0..n
      BY <1>1
    <3>2. e[k] = exp(k) /\ e[k - 1] = exp(k - 1)
      BY <3>1
    <3>3. u[k] = expect(u[k - 1], k)
      BY <1>1, <1>6, <3>1
    <3> QED
      BY <1>3, <3>2, <3>3
  <2>4. e[n] = exp(n)
    BY <2>1
  <2> HIDE DEF e
  <2>5. u[n] = e[n]
    BY <1>1, <2>2, <2>3, SameTables
  <2> QED
    BY <2>4, <2>5
<1> QED
  BY <1>1, <1>2, <1>7, <1>8 DEF exp, Expected

\* What every shell knows at every word of a valid line.
LEMMA LineInvCompletes == LineInv => CompletionAgrees
<1> SUFFICES ASSUME LineInv, Documented(meant), Valid(meant) PROVE CompletionAgrees
  BY DEF CompletionAgrees
<1> DEFINE all == writtenAll(meant)
           line == argv(meant)
           role(i) == all[i][2]
           roles == RolesIn(all)
           command == meant.command
           c == Len(wordsOf(meant.before)) + 1
<1>1. meant \in Meanings
  BY DEF LineInv
<1>2. all \in Seq(Pieces) /\ line = Args(all) /\ Grammar(line, roles, c, command)
  BY <1>1, GrammarOfLine
<1>3. line \in Seq(Words) /\ Len(line) = Len(all) /\ Len(line) \in Nat
      /\ \A i \in 1..Len(line) : roles[i] = role(i)
  <2>1. Args(all) \in Seq(Words) /\ Len(Args(all)) = Len(all)
    BY <1>2, ArgsOfWords
  <2>2. DOMAIN all = 1..Len(all) /\ Len(all) \in Nat
    BY <1>2
  <2> QED
    BY <1>2, <2>1, <2>2 DEF RolesIn
<1> HIDE DEF all, line, roles, command, c
<1>4. ASSUME NEW n \in 0..Len(line)
      PROVE  LET words == SubSeq(line, 1, n)
                 expected ==
                   Reading(IF \E i \in 1..n : role(i) = "command" THEN command ELSE NoName,
                           n < Len(line) /\ role(n + 1) = "value")
                 misled ==
                   \E i \in 1..n : /\ line[i].value \in DOMAIN commandSpecs
                                   /\ \A j \in 1..i : role(j) # "command"
             IN  /\ misled \/ bashCompletion(words) = expected
                 /\ zshCompletion(words) = expected
                 /\ powershellCompletion(words) = expected
                 /\ fishCompletion(words) = expected.command
  <2> DEFINE words == SubSeq(line, 1, n)
             known == IF \E i \in 1..n : role(i) = "command" THEN command ELSE NoName
             value == n < Len(line) /\ role(n + 1) = "value"
             misled ==
               \E i \in 1..n : /\ line[i].value \in DOMAIN commandSpecs
                               /\ \A j \in 1..i : role(j) # "command"
  <2>1. Prefixed(words, line, n)
    BY <1>3, Prefix DEF Prefixed
  <2>2. known = Known(c, command, n)
    <3>1. \A i \in 1..n : i \in 1..Len(line) /\ roles[i] = role(i)
      BY <1>3
    <3>2. \A i \in 1..n : role(i) = "command" <=> i = c
      BY <1>2, <3>1 DEF Grammar
    <3>3. c \in Nat /\ c >= 1 /\ n \in Nat
      BY <1>2, <1>3 DEF Grammar
    <3>4. (\E i \in 1..n : role(i) = "command") <=> n >= c
      <4>1. n >= c => c \in 1..n
        BY <3>3
      <4>2. \A i \in 1..n : i = c => n >= c
        BY <3>3
      <4> QED
        BY <3>2, <4>1, <4>2
    <3> QED
      BY <3>4 DEF Known
  <2>3. value = Expects(line, roles, n)
    <3>1. n < Len(line) => n + 1 \in 1..Len(line)
      BY <1>3
    <3> QED
      BY <1>3, <3>1 DEF Expects
  <2>3a. ASSUME ~misled, NEW k \in 1..n, k < c PROVE line[k].value \notin DOMAIN commandSpecs
    <3>1. \A j \in 1..k : j \in 1..Len(line) /\ j # c /\ roles[j] = role(j)
      BY <1>2, <1>3, <2>3a DEF Grammar
    <3>2. \A j \in 1..k : role(j) # "command"
      BY <1>2, <3>1 DEF Grammar
    <3> QED
      BY <2>3a, <3>2
  <2> HIDE DEF words, known, value, misled
  <2>4. /\ zshCompletion(words) = Reading(known, value)
        /\ powershellCompletion(words) = Reading(known, value)
        /\ fishCompletion(words) = known
    BY <1>2, <2>1, <2>2, <2>3, ZshKnows, FishKnows, PowershellKnows DEF Expected
  <2>5. misled \/ bashCompletion(words) = Reading(known, value)
    BY <1>2, <2>1, <2>2, <2>3, <2>3a, BashKnows DEF Expected
  <2>6. Reading(known, value).command = known
    BY DEF Reading
  <2> QED
    BY <2>4, <2>5, <2>6 DEF words, known, value, misled
<1> QED
  BY <1>4 DEF CompletionAgrees, all, line, command

-----------------------------------------------------------------------------
(* The invariant of the command line. *)

\* No words are read yet.
LEMMA InitLineInv == Init => LineInv
  BY DEF Init, Written, LineInv

\* Dispatch decides once; no other step touches the line.
LEMMA StepKeepsLineInv == LineInv /\ [Next]_vars => LineInv'
<1> SUFFICES ASSUME LineInv, [Next]_vars PROVE LineInv'
  OBVIOUS
<1>1. CASE Dispatch
  BY <1>1 DEF Dispatch, LineInv
<1>2. CASE UNCHANGED lineVars
  BY <1>2 DEF lineVars, LineInv
<1> QED
  BY <1>1, <1>2 DEF Next, vars

\* The invariant holds.
LEMMA AlwaysLineInv == Spec => []LineInv
  BY InitLineInv, StepKeepsLineInv, PTL DEF Spec

\* Whatever a user means and spells as the documentation does, dispatch
\* understands it as it was meant, or refuses it if it is not valid for the
\* command: splitCommand and flag.Parse agree on which words are values.
THEOREM UnderstoodAsMeantAlways == Spec => []UnderstoodAsMeant
  BY AlwaysLineInv, LineInvMeans, PTL

\* At every word of every valid command line the completions of zsh, fish and
\* PowerShell know whether the command has been typed, and zsh and PowerShell
\* whether the program will read a value next; that of bash knows both unless an
\* option before the command is assigned the name of a command.
THEOREM CompletionAgreesAlways == Spec => []CompletionAgrees
  BY AlwaysLineInv, LineInvCompletes, PTL
=============================================================================
