------------------------ MODULE PhraseMachineProofs ------------------------
(***************************************************************************)
(* Proofs about PhraseMachine, for every word list, every gate and limit.  *)
(*                                                                         *)
(* The machine counts candidates by subtraction and acts on a count of     *)
(* one. That is only right while the committed words are distinct words of *)
(* the list (Valid), and they stay so because a word is committed by hand  *)
(* only if it is a candidate, and by a paste only if the grammar accepts   *)
(* all of it.                                                              *)
(*                                                                         *)
(* The list is longer than any phrase, so before every word there is a     *)
(* candidate for the empty prefix, and what a key puts behind the typed    *)
(* prefix never leads away from all of them (Completable).                 *)
(***************************************************************************)
EXTENDS PhraseMachine, FiniteSetTheorems, SequenceTheorems, WellFoundedInduction, TLAPS

Valid ==
  /\ committed \in Seq(Words)
  /\ Entry!Distinct(committed)
  /\ Len(committed) <= MaxWords
  /\ state \in {"open", "submitted", "interrupted"}
  /\ state = "submitted" => Len(committed) >= MinWords
-----------------------------------------------------------------------------
(* What the actions do to the committed words. *)

LEMMA AppendCandidate ==
  ASSUME Valid, NEW w \in Words, ~isCommitted(w), Len(committed) < MaxWords
  PROVE  Append(committed, w) \in Entry!Phrases
<1>1. /\ Append(committed, w) \in Seq(Words)
      /\ Len(Append(committed, w)) = Len(committed) + 1
  BY DEF Valid
<1>2. Entry!Distinct(Append(committed, w))
  BY DEF Valid, Entry!Distinct, isCommitted
<1> QED
  BY <1>1, <1>2, LimitsAssumption DEF Entry!Phrases, Valid

LEMMA AcceptedPaste ==
  ASSUME Valid, NEW tokens \in Pastes, Grammar!accepts(committed, tokens)
  PROVE  /\ committed \o tokens \in Entry!Phrases
         /\ Len(committed \o tokens) = Len(committed) + Len(tokens)
         /\ SubSeq(committed \o tokens, 1, Len(committed)) = committed
         /\ Len(tokens) = 0 => committed \o tokens = committed
<1>1. committed \in Seq(Words)
  BY DEF Valid
<1>2. tokens \in Seq(Words)
  BY DEF Grammar!accepts
<1>3. /\ committed \o tokens \in Seq(Words)
      /\ Len(committed \o tokens) = Len(committed) + Len(tokens)
  BY <1>1, <1>2
<1>4. Entry!Distinct(committed \o tokens) /\ Len(committed \o tokens) <= MaxWords
  BY <1>1, <1>3 DEF Grammar!accepts, Grammar!Repeats, Entry!Distinct
<1>5. SubSeq(committed \o tokens, 1, Len(committed)) = committed
  BY <1>1, <1>2, <1>3
<1>6. ASSUME Len(tokens) = 0 PROVE committed \o tokens = committed
  BY <1>1, <1>2, <1>6, EmptySeq, ConcatEmptySeq
<1> QED
  BY <1>3, <1>4, <1>5, <1>6 DEF Entry!Phrases

LEMMA FrontKeepsPhrase ==
  ASSUME Valid, committed # <<>>
  PROVE  /\ Front(committed) \in Entry!Phrases
         /\ Front(committed) = SubSeq(committed, 1, Len(committed) - 1)
         /\ Len(Front(committed)) = Len(committed) - 1
<1> DEFINE n == Len(committed) - 1
<1>1. committed \in Seq(Words) /\ Len(committed) \in Nat /\ Len(committed) # 0
  BY DEF Valid
<1>2. n \in Nat /\ \A i \in 1..n : committed[i] \in Words
  BY <1>1
<1>3. /\ SubSeq(committed, 1, n) \in Seq(Words) /\ Len(SubSeq(committed, 1, n)) = n
      /\ \A i \in 1..n : SubSeq(committed, 1, n)[i] = committed[i]
  <2> HIDE DEF n
  <2>1. /\ SubSeq(committed, 1, n) \in Seq(Words)
        /\ Len(SubSeq(committed, 1, n)) = IF 1 <= n THEN n - 1 + 1 ELSE 0
        /\ \A i \in 1..(n - 1 + 1) : SubSeq(committed, 1, n)[i] = committed[1 + i - 1]
    BY <1>2, SubSeqProperties
  <2> QED
    BY <1>2, <2>1
<1>4. Entry!Distinct(SubSeq(committed, 1, n))
  BY <1>1, <1>2, <1>3 DEF Valid, Entry!Distinct
<1>5. n <= MaxWords
  BY <1>1, LimitsAssumption DEF Valid
<1> QED
  BY <1>3, <1>4, <1>5 DEF Front, Entry!Phrases
-----------------------------------------------------------------------------
(* Every step is a step of the entry of a phrase, or changes nothing of it. *)

LEMMA CommitEnters ==
  ASSUME Valid, state = "open", CommitUnique
  PROVE  Entry!AddWords \/ UNCHANGED <<committed, state>>
<1>1. CASE Ring
  BY <1>1 DEF Ring
<1>2. ASSUME NEW w \in candidates(buf), commit(w)
      PROVE  Entry!AddWords \/ UNCHANGED <<committed, state>>
  <2>1. CASE Len(committed) >= MaxWords
    BY <1>2, <2>1 DEF commit, Ring
  <2>2. CASE ~(Len(committed) >= MaxWords)
    <3>1. committed' = Append(committed, w) /\ state' = state
      BY <1>2, <2>2 DEF commit, Quiet
    <3>2. w \in Words /\ ~isCommitted(w) /\ Len(committed) < MaxWords
      BY <2>2, LimitsAssumption DEF candidates, prefixRange, Valid
    <3>3. committed' \in Entry!Phrases
      BY <3>1, <3>2, AppendCandidate
    <3>4. /\ Len(committed') > Len(committed)
          /\ SubSeq(committed', 1, Len(committed)) = committed
      BY <3>1, <3>2 DEF Valid
    <3> QED
      BY <3>1, <3>3, <3>4 DEF Entry!AddWords
  <2> QED
    BY <2>1, <2>2
<1> QED
  BY <1>1, <1>2 DEF CommitUnique

LEMMA StepEnters ==
  ASSUME Valid, Next
  PROVE  Entry!Next \/ UNCHANGED <<committed, state>>
<1> USE DEF Open
<1>1. ASSUME NEW r \in Letters, onRune(r) PROVE UNCHANGED <<committed, state>>
  BY <1>1 DEF onRune, Quiet, Ring
<1>2. CASE onSpace
  BY <1>2, CommitEnters DEF onSpace, Ignored, Quiet, Entry!Next
<1>3. CASE onTab
  BY <1>3, CommitEnters DEF onTab, Ignored, Quiet, Entry!Next
<1>4. CASE onEnter
  <2>1. CASE buf # <<>>
    BY <1>4, <2>1, CommitEnters DEF onEnter, Entry!Next
  <2>2. CASE buf = <<>> /\ Len(committed) >= MinWords
    BY <1>4, <2>2 DEF onEnter, Entry!Next, Entry!Submit
  <2>3. CASE buf = <<>> /\ ~(Len(committed) >= MinWords)
    BY <1>4, <2>3 DEF onEnter, Ignored, Quiet
  <2> QED
    BY <2>1, <2>2, <2>3
<1>5. CASE onBackspace
  BY <1>5, FrontKeepsPhrase DEF onBackspace, Quiet, Entry!Next, Entry!RemoveLast
<1>6. CASE CtrlW
  BY <1>6, FrontKeepsPhrase DEF CtrlW, Quiet, Entry!Next, Entry!RemoveLast
<1>7. CASE CtrlU \/ onCtrlO \/ InputTooLong
  BY <1>7 DEF CtrlU, onCtrlO, InputTooLong, Quiet, Ring
<1>8. ASSUME NEW tokens \in Pastes, onPaste(tokens)
      PROVE  Entry!AddWords \/ UNCHANGED <<committed, state>>
  <2>1. CASE ~Grammar!accepts(committed, tokens)
    BY <1>8, <2>1 DEF onPaste, Ring
  <2>2. CASE Grammar!accepts(committed, tokens)
    <3>1. state = "open" /\ committed' = committed \o tokens /\ state' = state
      BY <1>8, <2>2 DEF onPaste, Quiet
    <3>2. Len(tokens) \in Nat /\ Len(committed) \in Nat
      BY <2>2 DEF Grammar!accepts, Valid
    <3> QED
      BY <2>2, <3>1, <3>2, AcceptedPaste DEF Entry!AddWords
  <2> QED
    BY <2>1, <2>2
<1>9. CASE Interrupt
  BY <1>9 DEF Interrupt, Entry!Next, Entry!Interrupt
<1> QED
  BY <1>1, <1>2, <1>3, <1>4, <1>5, <1>6, <1>7, <1>8, <1>9 DEF Next, Entry!Next
-----------------------------------------------------------------------------
(* What follows from that for the whole run. *)

LEMMA InitValid == Init => Valid /\ Entry!Init
BY LimitsAssumption, EmptySeq DEF Init, Valid, Entry!Init, Entry!Distinct

LEMMA EntryKeepsValid ==
  ASSUME Valid, Entry!Next \/ UNCHANGED <<committed, state>>
  PROVE  Valid'
<1>1. CASE Entry!AddWords
  BY <1>1 DEF Entry!AddWords, Entry!Phrases, Entry!Distinct, Valid
<1>2. CASE Entry!RemoveLast
  BY <1>2, FrontKeepsPhrase DEF Entry!RemoveLast, Entry!Phrases, Entry!Distinct, Valid
<1>3. CASE Entry!Submit
  BY <1>3 DEF Entry!Submit, Entry!Distinct, Valid
<1>4. CASE Entry!Interrupt
  BY <1>4 DEF Entry!Interrupt, Entry!Distinct, Valid
<1>5. CASE UNCHANGED <<committed, state>>
  BY <1>5 DEF Entry!Distinct, Valid
<1> QED
  BY <1>1, <1>2, <1>3, <1>4, <1>5 DEF Entry!Next

LEMMA NextValid == Valid /\ [Next]_vars => Valid'
<1> SUFFICES ASSUME Valid, [Next]_vars PROVE Valid'
  OBVIOUS
<1>1. Entry!Next \/ UNCHANGED <<committed, state>>
  BY StepEnters DEF vars
<1> QED
  BY <1>1, EntryKeepsValid

LEMMA AlwaysValid == Spec => []Valid
<1>1. Init => Valid
  BY InitValid
<1> QED
  BY <1>1, NextValid, PTL DEF Spec

\* commit, onPaste, onEnter: for every word list, gate and limit, the committed
\* words are distinct and never too many, and what is submitted is long enough.
THEOREM PhraseAlwaysValidAlways == Spec => []PhraseAlwaysValid
<1>1. Valid => PhraseAlwaysValid
  BY DEF Valid, PhraseAlwaysValid
<1> QED
  BY <1>1, AlwaysValid, PTL

\* The event loop of the raw prompt implements the entry of a phrase: every key
\* and every paste is one step of it or leaves its words alone.
THEOREM Refinement == Spec => ImplementsEntry
<1>1. Init => Entry!Init
  BY InitValid
<1>2. Valid /\ [Next]_vars => [Entry!Next]_Entry!entryVars
  <2> SUFFICES ASSUME Valid, [Next]_vars PROVE [Entry!Next]_Entry!entryVars
    OBVIOUS
  <2>1. Entry!Next \/ UNCHANGED <<committed, state>>
    BY StepEnters DEF vars
  <2> QED
    BY <2>1 DEF Entry!entryVars
<1> QED
  BY <1>1, <1>2, AlwaysValid, PTL DEF Spec, ImplementsEntry, Entry!Spec
-----------------------------------------------------------------------------
(* The arithmetic of candCount. *)

\* Subtracting positions counts words because no word is at two positions.
LEMMA CountIsExact ==
  ASSUME Valid, NEW p
  PROVE  candCount(p) = Cardinality(candidates(p))
<1> DEFINE R == prefixRange(p)
           D == {i \in DOMAIN committed : IsPrefix(p, committed[i])}
           C == {committed[i] : i \in D}
<1>1. IsFiniteSet(R)
  BY ListAssumption, FS_Subset DEF prefixRange
<1>2. DOMAIN committed = 1..Len(committed) /\ Len(committed) \in Nat
  BY DEF Valid
<1>3. C \subseteq R
  BY <1>2 DEF Valid, prefixRange
<1>4. IsFiniteSet(C) /\ IsFiniteSet(D)
  <2>1. IsFiniteSet(C)
    BY <1>1, <1>3, FS_Subset
  <2>2. IsFiniteSet(1..Len(committed)) /\ D \in SUBSET (1..Len(committed))
    BY <1>2, FS_Interval
  <2> HIDE DEF D
  <2> QED
    BY <2>1, <2>2, FS_Subset
<1>5. Cardinality(D) = Cardinality(C)
  <2> DEFINE f == [i \in D |-> committed[i]]
  <2>1. f \in [D -> C] /\ \A w \in C : \E i \in D : f[i] = w
    OBVIOUS
  <2>2. \A i, j \in D : f[i] = f[j] => i = j
    BY <1>2 DEF Valid, Entry!Distinct
  <2>3. f \in Bijection(D, C)
    <3>1. DOMAIN f = D
      OBVIOUS
    <3> HIDE DEF f, C, D
    <3> QED
      BY <2>1, <2>2, <3>1 DEF Bijection, Injection, Surjection, IsInjective
  <2>4. ExistsBijection(D, C)
    BY <2>3 DEF ExistsBijection
  <2> QED
    BY <1>4, <2>4, FS_Bijection
<1>6. candidates(p) = R \ C
  BY <1>2 DEF candidates, isCommitted, prefixRange
<1>7. /\ IsFiniteSet(R \ C)
      /\ Cardinality(R) = Cardinality(C) + Cardinality(R \ C)
  <2>1. IsFiniteSet(R \ C)
    BY <1>1, FS_Subset
  <2>2. Cardinality(C \cup (R \ C)) = Cardinality(R)
    <3>1. C \cup (R \ C) = R
      BY <1>3
    <3> QED
      BY <3>1
  <2>3. Cardinality(C \cap (R \ C)) = 0
    <3>1. C \cap (R \ C) = {}
      OBVIOUS
    <3> QED
      BY <3>1, FS_EmptySet
  <2>4. /\ Cardinality(C) \in Nat /\ Cardinality(R \ C) \in Nat
    BY <1>4, <2>1, FS_CardinalityType
  <2>5. Cardinality(C \cup (R \ C)) =
          Cardinality(C) + Cardinality(R \ C) - Cardinality(C \cap (R \ C))
    BY <1>4, <2>1, FS_Union
  <2> HIDE DEF R, D, C
  <2> QED
    BY <2>1, <2>2, <2>3, <2>4, <2>5
<1>8. Cardinality(C) \in Nat /\ Cardinality(R \ C) \in Nat
  BY <1>4, <1>7, FS_CardinalityType
<1>9. candCount(p) = Cardinality(R) - Cardinality(D)
  BY DEF candCount, committedWithPrefix
<1> HIDE DEF R, D, C
<1> QED
  BY <1>5, <1>6, <1>7, <1>8, <1>9

\* candCount, prefixRange, committedWithPrefix: in every state the machine can
\* reach, the subtraction counts exactly the candidates of every prefix.
THEOREM CandCountIsExactAlways == Spec => []CandCountIsExact
<1>1. Valid => CandCountIsExact
  BY CountIsExact DEF CandCountIsExact
<1> QED
  BY <1>1, AlwaysValid, PTL
-----------------------------------------------------------------------------
(* Prefixes, and what Tab adds. *)

LEMMA LeastNumber ==
  ASSUME NEW S, S \subseteq Nat, S # {}
  PROVE  \E x \in S : \A y \in S : x <= y
<1> DEFINE T == {0..n : n \in S}
<1>1. T \subseteq FiniteSubsetsOf(Nat) /\ T # {}
  <2>1. ASSUME NEW n \in S PROVE 0..n \in FiniteSubsetsOf(Nat)
    <3>1. n \in Int /\ 0 \in Int
      OBVIOUS
    <3>2. IsFiniteSet(0..n) /\ 0..n \subseteq Nat
      BY <3>1, FS_Interval
    <3> QED
      BY <3>2 DEF FiniteSubsetsOf
  <2> QED
    BY <2>1
<1>2. PICK t \in T : \A u \in T : ~(<<u, t>> \in StrictSubsetOrdering(Nat))
  <2> HIDE DEF T
  <2> QED
    BY <1>1, FS_StrictSubsetOrderingWellFounded, WFMin
<1>3. PICK m \in S : t = 0..m
  OBVIOUS
<1>4. ASSUME NEW k \in S PROVE m <= k
  <2>1. ~(0..k \subseteq 0..m /\ 0..k # 0..m)
    <3>1. 0..k \in T /\ 0..k \subseteq Nat /\ 0..m \subseteq Nat
      OBVIOUS
    <3>2. ~(<<0..k, 0..m>> \in StrictSubsetOrdering(Nat))
      BY <1>2, <1>3, <3>1
    <3>3. <<0..k, 0..m>> \in (SUBSET Nat) \X (SUBSET Nat)
      BY <3>1
    <3> QED
      BY <3>2, <3>3 DEF StrictSubsetOrdering
  <2>2. k \in Nat /\ m \in Nat
    OBVIOUS
  <2> SUFFICES ASSUME k < m PROVE FALSE
    BY <2>2
  <2>3. 0..k \subseteq 0..m /\ m \in 0..m /\ m \notin 0..k
    BY <2>2
  <2> QED
    BY <2>1, <2>3
<1> QED
  BY <1>4

LEMMA PrefixIs ==
  ASSUME NEW s \in Seq(Letters), NEW t \in Seq(Letters)
  PROVE  IsPrefix(s, t) <=> Len(s) <= Len(t) /\ \A i \in 1..Len(s) : s[i] = t[i]
<1>1. Len(s) \in Nat /\ Len(t) \in Nat
  OBVIOUS
<1>2. ASSUME Len(s) <= Len(t)
      PROVE  SubSeq(s, 1, Len(s)) = SubSeq(t, 1, Len(s)) <=> \A i \in 1..Len(s) : s[i] = t[i]
  <2>1. /\ SubSeq(s, 1, Len(s)) \in Seq(Letters) /\ Len(SubSeq(s, 1, Len(s))) = Len(s)
        /\ \A i \in 1..Len(s) : SubSeq(s, 1, Len(s))[i] = s[i]
    BY <1>1, SubSeqProperties
  <2>2. /\ SubSeq(t, 1, Len(s)) \in Seq(Letters) /\ Len(SubSeq(t, 1, Len(s))) = Len(s)
        /\ \A i \in 1..Len(s) : SubSeq(t, 1, Len(s))[i] = t[i]
    BY <1>1, <1>2, SubSeqProperties
  <2>3. ASSUME \A i \in 1..Len(s) : s[i] = t[i] PROVE SubSeq(s, 1, Len(s)) = SubSeq(t, 1, Len(s))
    BY <2>1, <2>2, <2>3, SeqEqual
  <2> QED
    BY <2>1, <2>2, <2>3
<1> QED
  BY <1>2 DEF IsPrefix

LEMMA PrefixTransitive ==
  ASSUME NEW s \in Seq(Letters), NEW t \in Seq(Letters), NEW u \in Seq(Letters),
         IsPrefix(s, t), IsPrefix(t, u)
  PROVE  IsPrefix(s, u)
<1>1. /\ Len(s) <= Len(t) /\ \A i \in 1..Len(s) : s[i] = t[i]
      /\ Len(t) <= Len(u) /\ \A i \in 1..Len(t) : t[i] = u[i]
  BY PrefixIs
<1>2. Len(s) \in Nat /\ Len(t) \in Nat /\ Len(u) \in Nat
  OBVIOUS
<1>3. Len(s) <= Len(u) /\ \A i \in 1..Len(s) : s[i] = u[i]
  BY <1>1, <1>2
<1> QED
  BY <1>3, PrefixIs

LEMMA PrefixesOfWord ==
  ASSUME NEW w \in Seq(Letters), NEW q
  PROVE  q \in Prefixes(w) <=> q \in Seq(Letters) /\ IsPrefix(q, w)
<1>1. Len(w) \in Nat
  OBVIOUS
<1>2. ASSUME q \in Prefixes(w) PROVE q \in Seq(Letters) /\ IsPrefix(q, w)
  <2>1. PICK n \in 0..Len(w) : q = SubSeq(w, 1, n)
    BY <1>2 DEF Prefixes
  <2>2. /\ q \in Seq(Letters) /\ Len(q) = n /\ n <= Len(w)
        /\ \A i \in 1..n : q[i] = w[i]
    BY <1>1, <2>1, SubSeqProperties
  <2> QED
    BY <2>2, PrefixIs
<1>3. ASSUME q \in Seq(Letters), IsPrefix(q, w) PROVE q \in Prefixes(w)
  <2>1. Len(q) \in 0..Len(w) /\ \A i \in 1..Len(q) : q[i] = w[i]
    BY <1>1, <1>3, PrefixIs
  <2>2. /\ SubSeq(w, 1, Len(q)) \in Seq(Letters) /\ Len(SubSeq(w, 1, Len(q))) = Len(q)
        /\ \A i \in 1..Len(q) : SubSeq(w, 1, Len(q))[i] = w[i]
    BY <1>1, <2>1, SubSeqProperties
  <2>3. q = SubSeq(w, 1, Len(q))
    BY <1>3, <2>1, <2>2, SeqEqual
  <2> QED
    BY <2>1, <2>3 DEF Prefixes
<1> QED
  BY <1>2, <1>3

LEMMA LongestPrefix ==
  ASSUME NEW S, S \subseteq Seq(Letters), S # {},
         NEW p \in Seq(Letters), \A w \in S : IsPrefix(p, w)
  PROVE  /\ LongestCommonPrefix(S) \in Seq(Letters)
         /\ \A w \in S : IsPrefix(LongestCommonPrefix(S), w)
         /\ IsPrefix(p, LongestCommonPrefix(S))
<1> DEFINE C == CommonPrefixes(S)
<1>1. \A c : c \in C <=> c \in Seq(Letters) /\ \A w \in S : IsPrefix(c, w)
  BY PrefixesOfWord DEF CommonPrefixes
<1>2. p \in C
  BY <1>1
<1> HIDE DEF C
<1>3. PICK w \in S : TRUE
  OBVIOUS
<1>4. w \in Seq(Letters) /\ \A c \in C : Len(c) \in Nat /\ Len(c) <= Len(w)
  BY <1>1, PrefixIs
<1> DEFINE N == {Len(w) - Len(c) : c \in C}
<1>5. N \subseteq Nat /\ N # {}
  BY <1>2, <1>4
<1>6. PICK n \in N : \A m \in N : n <= m
  <2> HIDE DEF N
  <2> QED
    BY <1>5, LeastNumber
<1>7. PICK longest \in C : n = Len(w) - Len(longest)
  OBVIOUS
<1>8. \A other \in C : Len(other) <= Len(longest)
  <2> TAKE other \in C
  <2>1. n <= Len(w) - Len(other)
    BY <1>6
  <2> QED
    BY <1>4, <1>7, <2>1
<1> DEFINE q == LongestCommonPrefix(S)
<1>9. q = CHOOSE l \in C : \A other \in C : Len(other) <= Len(l)
  BY DEF LongestCommonPrefix, C
<1>10. q \in C /\ \A other \in C : Len(other) <= Len(q)
  <2> HIDE DEF q
  <2> QED
    BY <1>7, <1>8, <1>9
<1> HIDE DEF q
<1>11. /\ q \in Seq(Letters) /\ \A v \in S : IsPrefix(q, v)
       /\ Len(p) <= Len(q)
  BY <1>1, <1>2, <1>10
<1>12. IsPrefix(p, q)
  <2>1. /\ \A i \in 1..Len(p) : p[i] = w[i]
        /\ \A i \in 1..Len(q) : q[i] = w[i]
    BY <1>3, <1>4, <1>11, PrefixIs
  <2>2. Len(p) \in Nat /\ Len(q) \in Nat
    BY <1>11
  <2>3. \A i \in 1..Len(p) : p[i] = q[i]
    BY <1>11, <2>1, <2>2
  <2> QED
    BY <1>11, <2>3, PrefixIs
<1> QED
  BY <1>11, <1>12 DEF q

\* Tab completes as far as the candidates agree, and they all remain.
LEMMA TabKeepsCandidates ==
  ASSUME NEW p \in Seq(Letters)
  PROVE  /\ lcpOfCandidates(p) \in Seq(Letters)
         /\ candidates(lcpOfCandidates(p)) = candidates(p)
<1> DEFINE S == candidates(p)
           q == lcpOfCandidates(p)
<1>1. S \subseteq Seq(Letters) /\ \A w \in S : IsPrefix(p, w)
  BY ListAssumption DEF candidates, prefixRange
<1>2. CASE S = {}
  BY <1>2 DEF lcpOfCandidates
<1>3. CASE S # {}
  <2>1. q = LongestCommonPrefix(S)
    BY <1>3 DEF lcpOfCandidates
  <2>2. q \in Seq(Letters) /\ (\A w \in S : IsPrefix(q, w)) /\ IsPrefix(p, q)
    <3> HIDE DEF S, q
    <3> QED
      BY <1>1, <1>3, <2>1, LongestPrefix
  <2>3. \A w \in Words : IsPrefix(q, w) => IsPrefix(p, w)
    BY <2>2, PrefixTransitive, ListAssumption
  <2>4. candidates(q) = S
    <3> HIDE DEF q
    <3> QED
      BY <2>2, <2>3 DEF candidates, prefixRange
  <2> QED
    BY <2>2, <2>4
<1> QED
  BY <1>2, <1>3

\* The list is longer than any phrase.
LEMMA SomeWordRemains ==
  ASSUME NEW c \in Seq(Words), Len(c) <= MaxWords
  PROVE  \E w \in Words : ~\E i \in DOMAIN c : c[i] = w
<1> DEFINE R == {c[i] : i \in 1..Len(c)}
<1>1. Len(c) \in Nat /\ DOMAIN c = 1..Len(c)
  BY LenProperties
<1>2. IsFiniteSet(1..Len(c)) /\ Cardinality(1..Len(c)) = Len(c)
  BY <1>1, FS_Interval
<1>3. c \in [1..Len(c) -> R]
  <2>1. c = [i \in 1..Len(c) |-> c[i]]
    BY <1>1
  <2> QED
    BY <2>1
<1>4. c \in Surjection(1..Len(c), R)
  BY <1>3 DEF Surjection
<1>5. IsFiniteSet(R) /\ Cardinality(R) <= Len(c)
  <2> HIDE DEF R
  <2> QED
    BY <1>2, <1>4, FS_Surjection
<1>6. Cardinality(R) \in Nat /\ Cardinality(Words) \in Nat /\ MaxWords \in Nat
  BY <1>5, FS_CardinalityType, ListAssumption, LimitsAssumption
<1>7. ASSUME Words \subseteq R PROVE FALSE
  <2>1. Cardinality(Words) <= Cardinality(R)
    BY <1>5, <1>7, FS_Subset
  <2> QED
    BY <1>1, <1>5, <1>6, <2>1, ListAssumption
<1>8. PICK w \in Words : w \notin R
  BY <1>7
<1> QED
  BY <1>1, <1>8
-----------------------------------------------------------------------------
(* The buffer and its candidates. *)

\* Some word that is not committed begins with the buffer.
Completable(c, p) == \E w \in Words : IsPrefix(p, w) /\ ~\E i \in DOMAIN c : c[i] = w

LEMMA CompletableIs == candidates(buf) # {} <=> Completable(committed, buf)
BY DEF candidates, prefixRange, isCommitted, Completable

LEMMA EmptyIsCompletable ==
  ASSUME NEW c \in Seq(Words), Len(c) <= MaxWords
  PROVE  Completable(c, <<>>)
<1>1. PICK w \in Words : ~\E i \in DOMAIN c : c[i] = w
  BY SomeWordRemains
<1>2. w \in Seq(Letters) /\ <<>> \in Seq(Letters) /\ Len(<<>>) = 0
  BY ListAssumption, EmptySeq
<1>3. IsPrefix(<<>>, w)
  <2>1. 0 <= Len(w) /\ 1..0 = {}
    BY <1>2
  <2> QED
    BY <1>2, <2>1, PrefixIs
<1> QED
  BY <1>1, <1>3 DEF Completable

LEMMA FrontIsPrefix ==
  ASSUME NEW S, NEW p \in Seq(S), p # <<>>
  PROVE  /\ Front(p) \in Seq(S) /\ Len(Front(p)) = Len(p) - 1
         /\ \A i \in 1..(Len(p) - 1) : Front(p)[i] = p[i]
         /\ Last(p) = p[Len(p)] /\ Last(p) \in S
<1>1. Len(p) \in Nat /\ Len(p) # 0
  BY EmptySeq
<1>2. Front(p) = SubSeq(p, 1, Len(p) - 1)
  BY DEF Front
<1>3. /\ SubSeq(p, 1, Len(p) - 1) \in Seq(S) /\ Len(SubSeq(p, 1, Len(p) - 1)) = Len(p) - 1
      /\ \A i \in 1..(Len(p) - 1) : SubSeq(p, 1, Len(p) - 1)[i] = p[i]
  <2> DEFINE n == Len(p) - 1
  <2>1. n \in Nat /\ n <= Len(p)
    BY <1>1
  <2> HIDE DEF n
  <2>2. /\ SubSeq(p, 1, n) \in Seq(S) /\ Len(SubSeq(p, 1, n)) = n
        /\ \A i \in 1..n : SubSeq(p, 1, n)[i] = p[i]
    BY <1>1, <2>1, SubSeqProperties
  <2> QED
    BY <2>2 DEF n
<1>4. Last(p) = p[Len(p)] /\ Last(p) \in S
  BY <1>1, ElementOfSeq DEF Last
<1> QED
  BY <1>2, <1>3, <1>4

\* What a step other than a paste does to the buffer: nothing, or it leaves one
\* that can be completed where the old one could.
Kept ==
  /\ buf' \in Seq(Letters)
  /\ \/ UNCHANGED <<committed, buf>>
     \/ Completable(committed, buf) => Completable(committed', buf')

LEMMA CommitKept ==
  ASSUME Valid, Valid', buf \in Seq(Letters), CommitUnique
  PROVE  Kept
<1>1. CASE Ring
  BY <1>1 DEF Ring, Kept
<1>2. CASE ~Ring
  <2>1. PICK w \in candidates(buf) : commit(w)
    BY <1>2 DEF CommitUnique
  <2>2. buf' = <<>>
    BY <1>2, <2>1 DEF commit
  <2>3. Completable(committed', <<>>)
    BY EmptyIsCompletable DEF Valid
  <2> QED
    BY <2>2, <2>3, EmptySeq DEF Kept
<1> QED
  BY <1>1, <1>2

LEMMA CleanKept ==
  ASSUME Valid', buf' = <<>>
  PROVE  Kept
BY EmptyIsCompletable, EmptySeq DEF Valid, Kept

LEMMA BackspaceKept ==
  ASSUME Valid, buf \in Seq(Letters), onBackspace
  PROVE  Kept
<1>1. CASE buf # <<>>
  <2>1. buf' = Front(buf) /\ committed' = committed
    BY <1>1 DEF onBackspace
  <2>2. /\ buf' \in Seq(Letters) /\ Len(buf') = Len(buf) - 1 /\ Len(buf) \in Nat
        /\ \A i \in 1..(Len(buf) - 1) : buf'[i] = buf[i]
    BY <1>1, <2>1, FrontIsPrefix
  <2>3. IsPrefix(buf', buf)
    <3>1. Len(buf') <= Len(buf) /\ \A i \in 1..Len(buf') : buf'[i] = buf[i]
      BY <2>2
    <3> QED
      BY <2>2, <3>1, PrefixIs
  <2>4. \A w \in Words : IsPrefix(buf, w) => IsPrefix(buf', w)
    BY <2>2, <2>3, PrefixTransitive, ListAssumption
  <2> QED
    BY <2>1, <2>2, <2>4 DEF Kept, Completable
<1>2. CASE buf = <<>> /\ committed # <<>>
  <2>1. buf' = Last(committed) /\ committed' = Front(committed)
    BY <1>2 DEF onBackspace
  <2>2. /\ committed \in Seq(Words) /\ Entry!Distinct(committed)
        /\ Len(committed) \in Nat /\ Len(committed) # 0
    BY <1>2, EmptySeq DEF Valid
  <2>3. /\ committed' \in Seq(Words) /\ Len(committed') = Len(committed) - 1
        /\ \A i \in 1..(Len(committed) - 1) : committed'[i] = committed[i]
        /\ buf' = committed[Len(committed)] /\ buf' \in Words
    BY <1>2, <2>1, <2>2, FrontIsPrefix
  <2>4. DOMAIN committed' = 1..(Len(committed) - 1)
    BY <2>3, LenProperties
  <2>5. ~\E i \in DOMAIN committed' : committed'[i] = buf'
    BY <2>2, <2>3, <2>4 DEF Entry!Distinct
  <2>6. buf' \in Seq(Letters) /\ IsPrefix(buf', buf')
    <3>1. buf' \in Seq(Letters)
      BY <2>3, ListAssumption
    <3> QED
      BY <3>1, PrefixIs
  <2>7. Completable(committed', buf')
    BY <2>3, <2>5, <2>6 DEF Completable
  <2> QED
    BY <2>6, <2>7 DEF Kept
<1>3. CASE buf = <<>> /\ committed = <<>>
  BY <1>3 DEF onBackspace, Kept
<1> QED
  BY <1>1, <1>2, <1>3

LEMMA RuneKept ==
  ASSUME Valid, buf \in Seq(Letters), NEW r \in Letters, onRune(r)
  PROVE  Kept
<1>1. CASE candCount(Append(buf, r)) >= 1
  <2>1. buf' = Append(buf, r) /\ committed' = committed /\ Append(buf, r) \in Seq(Letters)
    BY <1>1 DEF onRune
  <2>2. candCount(Append(buf, r)) = Cardinality(candidates(Append(buf, r)))
    BY CountIsExact
  <2>3. candidates(Append(buf, r)) # {}
    <3> SUFFICES ASSUME candidates(Append(buf, r)) = {} PROVE FALSE
      OBVIOUS
    <3>1. candCount(Append(buf, r)) = 0
      BY <2>2, FS_EmptySet
    <3> QED
      BY <1>1, <3>1
  <2>4. Completable(committed', buf')
    BY <2>1, <2>3 DEF candidates, prefixRange, isCommitted, Completable
  <2> QED
    BY <2>1, <2>4 DEF Kept
<1>2. CASE ~(candCount(Append(buf, r)) >= 1)
  BY <1>2 DEF onRune, Ring, Kept
<1> QED
  BY <1>1, <1>2

LEMMA TabKept ==
  ASSUME Valid, Valid', buf \in Seq(Letters), onTab
  PROVE  Kept /\ (UNCHANGED committed => candidates(buf)' = candidates(buf))
<1>1. CASE buf = <<>>
  BY <1>1 DEF onTab, Ignored, Kept, candidates, isCommitted, prefixRange
<1>2. CASE buf # <<>> /\ candCount(buf) = 1
  <2>1. CommitUnique
    BY <1>2 DEF onTab
  <2>2. Kept
    BY <2>1, CommitKept
  <2>3. ASSUME UNCHANGED committed PROVE candidates(buf)' = candidates(buf)
    <3>1. CASE Ring
      BY <3>1 DEF Ring, candidates, isCommitted, prefixRange
    <3>2. CASE ~Ring
      <4>1. PICK w \in candidates(buf) : committed' = Append(committed, w)
        BY <1>2, <2>1, <3>2 DEF CommitUnique, commit
      <4>2. w \in Words /\ committed \in Seq(Words)
        BY DEF candidates, prefixRange, Valid
      <4>3. Len(committed') = Len(committed) + 1 /\ Len(committed) \in Nat
        BY <4>1, <4>2, AppendProperties
      <4> QED
        BY <2>3, <4>3
    <3> QED
      BY <3>1, <3>2
  <2> QED
    BY <2>2, <2>3
<1>3. CASE buf # <<>> /\ candCount(buf) # 1
  <2>1. buf' = lcpOfCandidates(buf) /\ committed' = committed
    BY <1>3 DEF onTab
  <2>2. buf' \in Seq(Letters) /\ candidates(lcpOfCandidates(buf)) = candidates(buf)
    BY <2>1, TabKeepsCandidates
  <2>3. candidates(buf)' = candidates(lcpOfCandidates(buf))
    BY <2>1 DEF candidates, isCommitted, prefixRange
  <2>4. Completable(committed, buf) => Completable(committed', buf')
    BY <2>2, <2>3, CompletableIs DEF candidates, isCommitted, prefixRange, Completable
  <2> QED
    BY <2>2, <2>3, <2>4 DEF Kept
<1> QED
  BY <1>1, <1>2, <1>3

LEMMA StepKeepsCandidates ==
  ASSUME Valid, buf \in Seq(Letters), Next
  PROVE  /\ buf' \in Seq(Letters)
         /\ onTab /\ UNCHANGED committed => candidates(buf)' = candidates(buf)
         /\ candidates(buf) # {} /\ candidates(buf)' = {} => \E tokens \in Pastes : onPaste(tokens)
<1>1. Valid'
  BY NextValid
<1>2. ASSUME NEW tokens \in Pastes, onPaste(tokens)
      PROVE  buf' = buf
  BY <1>2 DEF onPaste, Ring
<1>3. Kept \/ \E tokens \in Pastes : onPaste(tokens)
  <2>1. ASSUME NEW r \in Letters, onRune(r) PROVE Kept
    BY <2>1, RuneKept
  <2>2. CASE onSpace
    <3>1. CASE buf = <<>>
      BY <2>2, <3>1 DEF onSpace, Ignored, Kept
    <3>2. CASE buf # <<>>
      BY <1>1, <2>2, <3>2, CommitKept DEF onSpace
    <3> QED
      BY <3>1, <3>2
  <2>3. CASE onTab
    BY <1>1, <2>3, TabKept
  <2>4. CASE onEnter
    <3>1. CASE buf = <<>>
      BY <2>4, <3>1 DEF onEnter, Ignored, Kept
    <3>2. CASE buf # <<>>
      BY <1>1, <2>4, <3>2, CommitKept DEF onEnter
    <3> QED
      BY <3>1, <3>2
  <2>5. CASE onBackspace
    BY <2>5, BackspaceKept
  <2>6. CASE CtrlW \/ CtrlU
    BY <1>1, <2>6, CleanKept DEF CtrlW, CtrlU
  <2>7. CASE onCtrlO \/ InputTooLong \/ Interrupt
    BY <2>7 DEF onCtrlO, InputTooLong, Interrupt, Ring, Kept
  <2> QED
    BY <2>1, <2>2, <2>3, <2>4, <2>5, <2>6, <2>7 DEF Next
<1>4. buf' \in Seq(Letters)
  BY <1>2, <1>3 DEF Kept
<1>5. onTab /\ UNCHANGED committed => candidates(buf)' = candidates(buf)
  BY <1>1, TabKept
<1>6. ASSUME Kept, candidates(buf) # {} PROVE candidates(buf)' # {}
  <2>1. CASE UNCHANGED <<committed, buf>>
    BY <1>6, <2>1 DEF candidates, isCommitted, prefixRange
  <2>2. CASE Completable(committed, buf) => Completable(committed', buf')
    BY <1>6, <2>2, CompletableIs DEF candidates, isCommitted, prefixRange, Completable
  <2> QED
    BY <1>6, <2>1, <2>2 DEF Kept
<1> QED
  BY <1>3, <1>4, <1>5, <1>6

\* onTab, commit, onRune, onBackspace: for every word list longer than a phrase,
\* no key but a paste takes the last candidate from the buffer, and Tab takes none.
THEOREM KeysKeepCandidatesAlways == Spec => KeysKeepCandidates
<1> DEFINE Letter == buf \in Seq(Letters)
           Step == /\ onTab /\ UNCHANGED committed => candidates(buf)' = candidates(buf)
                   /\ candidates(buf) # {} /\ candidates(buf)' = {} =>
                        \E tokens \in Pastes : onPaste(tokens)
<1>1. Init => Letter
  BY EmptySeq DEF Init
<1>2. Valid /\ Letter /\ [Next]_vars => Letter'
  BY StepKeepsCandidates DEF vars
<1>3. Valid /\ Letter /\ [Next]_vars => [Step]_vars
  BY StepKeepsCandidates
<1>4. Spec => []Letter
  <2> HIDE DEF Letter
  <2> QED
    BY <1>1, <1>2, AlwaysValid, PTL DEF Spec
<1>5. Spec => [][Step]_vars
  <2> HIDE DEF Letter, Step
  <2> QED
    BY <1>3, <1>4, AlwaysValid, PTL DEF Spec
<1> QED
  BY <1>5 DEF KeysKeepCandidates

\* The machine's state stays in its types.
THEOREM TypeCorrect == Spec => []TypeOK
<1>1. Init => TypeOK
  BY EmptySeq DEF Init, TypeOK
<1>2. TypeOK /\ Valid /\ [Next]_vars => TypeOK'
  <2> SUFFICES ASSUME TypeOK, Valid, [Next]_vars PROVE TypeOK'
    OBVIOUS
  <2>1. Valid'
    BY NextValid
  <2>2. buf' \in Seq(Letters)
    BY StepKeepsCandidates DEF TypeOK, vars
  <2>3. bell' \in BOOLEAN
    BY DEF TypeOK, Next, vars, onRune, onSpace, onTab, onEnter, onBackspace, CtrlW, CtrlU,
           onCtrlO, InputTooLong, onPaste, Interrupt, CommitUnique, commit, Ring, Quiet, Ignored
  <2> QED
    BY <2>1, <2>2, <2>3 DEF TypeOK, Valid
<1> QED
  BY <1>1, <1>2, AlwaysValid, PTL DEF Spec
====
