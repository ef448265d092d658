----------------------------- MODULE Text_proofs -----------------------------
(***************************************************************************)
(* Proofs about the text format: modules TextSerializer and Exposition,    *)
(* which share nothing but TextFormat. First the call of Serialize, for    *)
(* any scrapes, locales and precisions: what is promised of the caller's   *)
(* stream and of what its buffer gets; and which lines of a text close     *)
(* histograms. Then the texts of a registry, for any names, labels,        *)
(* boundaries and values: what its families look like, from where in them  *)
(* the lines of a text come, and what that says of types, labels, series   *)
(* and buckets. In the end the two meet: a registry's scrapes are what     *)
(* the serializer needs.                                                   *)
(***************************************************************************)
EXTENDS TextSerializer, Exposition, FiniteSetTheorems, WellFoundedInduction, TLAPS

-----------------------------------------------------------------------------
(* The stream                                                               *)

LEMMA StreamInitial == StreamInit => StreamInv
<1> SUFFICES ASSUME StreamInit PROVE StreamInv
  OBVIOUS
<1>1. Len(Lines) \in Nat
  BY LinesAssumption DEF StreamInit, Lines
<1>2. StreamTypeOK
  BY <1>1 DEF StreamInit, StreamTypeOK, Settings, StreamSettings
<1> QED BY <1>1, <1>2 DEF StreamInit, StreamInv, Kept, Reached, OneFormat, NothingMissing

\* The steps that write nothing.
LEMMA QuietStep == StreamInv /\ (Save \/ Imbue \/ Restore) => StreamInv'
<1> SUFFICES ASSUME StreamInv, Save \/ Imbue \/ Restore PROVE StreamInv'
  OBVIOUS
<1>1. Len(Lines) \in Nat /\ Lines' = Lines
  BY LinesAssumption DEF StreamInv, StreamTypeOK, Lines, Save, Imbue, Restore
<1>2. UNCHANGED <<metrics, throws, bad, written, next, caller>>
  BY DEF Save, Imbue, Restore
<1>3. CASE Save
  BY <1>1, <1>2, <1>3 DEF Save, Goto, StreamInv, StreamTypeOK, StreamSettings, Kept, Reached, OneFormat, NothingMissing
<1>4. CASE Imbue
  BY <1>1, <1>2, <1>4, ClassicAssumption DEF Imbue, Goto, Digits10, StreamInv, StreamTypeOK, StreamSettings, Kept, Reached, OneFormat, NothingMissing
<1>5. CASE Restore
  BY <1>1, <1>2, <1>5 DEF Restore, Goto, StreamInv, StreamTypeOK, StreamSettings, Kept, Reached, OneFormat, NothingMissing
<1> QED BY <1>3, <1>4, <1>5

LEMMA WriteStep == StreamInv /\ (Write \/ WriteFails) => StreamInv'
<1> SUFFICES ASSUME StreamInv, Write \/ WriteFails PROVE StreamInv'
  OBVIOUS
<1>1. Len(Lines) \in Nat /\ Lines' = Lines
  BY LinesAssumption DEF StreamInv, StreamTypeOK, Lines, Write, WriteFails
<1>2. CASE Write
  <2>1. CASE bad
    BY <1>1, <1>2, <2>1 DEF Write, Goto, StreamInv, StreamTypeOK, Kept, Reached, OneFormat, NothingMissing
  <2>2. CASE ~bad
    BY <1>1, <1>2, <2>2 DEF Write, Piece, Goto, Digits10, StreamInv, StreamTypeOK, StreamSettings, Kept, Reached, OneFormat, NothingMissing
  <2> QED BY <2>1, <2>2
<1>3. CASE WriteFails
  BY <1>1, <1>3 DEF WriteFails, Piece, Goto, Digits10, StreamInv, StreamTypeOK, StreamSettings, Kept, Reached, OneFormat, NothingMissing
<1> QED BY <1>2, <1>3

LEMMA AgainStep == StreamInv /\ Again => StreamInv'
<1> SUFFICES ASSUME StreamInv, Again PROVE StreamInv'
  OBVIOUS
<1>1. Len(Lines)' \in Nat
  BY LinesAssumption DEF Again, Lines
<1>2. /\ written' = << >> /\ next' = 1 /\ pc' = "save" /\ bad' \in BOOLEAN
      /\ UNCHANGED <<settings, throws, saved, caller>> /\ metrics' \in Scrapes
  BY DEF Again, Goto, StreamInv, StreamTypeOK
<1>3. StreamTypeOK'
  BY <1>1, <1>2 DEF StreamInv, StreamTypeOK, StreamSettings, Settings
<1>4. Kept'
  BY <1>2 DEF Again, StreamInv, Kept
<1> QED BY <1>1, <1>2, <1>3, <1>4 DEF StreamInv, Reached, OneFormat, NothingMissing

LEMMA StreamInductive == StreamInv /\ [StreamNext]_vars => StreamInv'
<1>1. StreamInv /\ UNCHANGED vars => StreamInv'
  BY DEF vars, StreamInv, StreamTypeOK, StreamSettings, Kept, Reached, OneFormat, NothingMissing, Lines
<1> QED BY <1>1, QuietStep, WriteStep, AgainStep DEF StreamNext

\* The inductive invariant of Serialize holds, for every scrape, locale and
\* precision, and wherever the buffer fails (text_serializer.cc:220-234).
THEOREM StreamInvariance == StreamSpec => []StreamInv
BY StreamInitial, StreamInductive, PTL DEF StreamSpec

\* Type correctness: the stream never has a precision other than the caller's and
\* the one Serialize sets (text_serializer.cc:226 and 233).
THEOREM StreamTypeCorrect == StreamSpec => []StreamTypeOK
<1>1. StreamInv => StreamTypeOK
  BY DEF StreamInv
<1> QED BY <1>1, StreamInvariance, PTL

\* A stream that does not throw has the caller's settings again between any two
\* calls (text_serializer.cc:232-233).
THEOREM Restored == StreamSpec => []StreamRestored
<1>1. StreamInv => StreamRestored
  BY DEF StreamInv, Kept, StreamRestored, StreamKept
<1> QED BY <1>1, StreamInvariance, PTL

\* Every line of every text is written with the classic locale and 16 digits
\* (text_serializer.cc:225-226).
THEOREM Uniform == StreamSpec => []OneFormat
<1>1. StreamInv => OneFormat
  BY DEF StreamInv
<1> QED BY <1>1, StreamInvariance, PTL

\* A stream that is good after a call holds the whole text, and nothing follows a
\* line that was cut (text_serializer.cc:228-230).
THEOREM Complete == StreamSpec => []NothingMissing
<1>1. StreamInv => NothingMissing
  BY DEF StreamInv
<1> QED BY <1>1, StreamInvariance, PTL
-----------------------------------------------------------------------------
(* Texts                                                                    *)

\* The lines of a text that close histogram m of family f: none, or one.
None(s, f, m) == \A n \in DOMAIN s : ~Closes(s[n], f, m)

One(s, f, m) == \E k \in DOMAIN s : \A n \in DOMAIN s : Closes(s[n], f, m) <=> n = k

\* A sequence is a function on an interval from 1.
LEMMA SeqIs ==
  ASSUME NEW s
  PROVE  /\ IsSeq(s) => Len(s) \in Nat /\ DOMAIN s = 1..Len(s)
         /\ \A S : s \in Seq(S) => IsSeq(s)
         /\ \A S : IsSeq(s) /\ (\A k \in DOMAIN s : s[k] \in S) => s \in Seq(S)
<1>1. IsSeq(s) => Len(s) \in Nat /\ DOMAIN s = 1..Len(s)
  BY DEF IsSeq
<1>2. ASSUME NEW S, s \in Seq(S)
      PROVE  IsSeq(s)
  <2>1. \A k \in 1..Len(s) : s[k] \in Range(s)
    BY <1>2 DEF Range
  <2> QED BY <1>2, <2>1 DEF IsSeq
<1>3. ASSUME NEW S, IsSeq(s), \A k \in DOMAIN s : s[k] \in S
      PROVE  s \in Seq(S)
  BY <1>1, <1>3 DEF IsSeq
<1> QED BY <1>1, <1>2, <1>3

LEMMA Joined ==
  ASSUME NEW a, NEW b, IsSeq(a), IsSeq(b)
  PROVE  /\ IsSeq(a \o b) /\ Len(a \o b) = Len(a) + Len(b)
         /\ \A k \in 1..(Len(a) + Len(b)) :
              (a \o b)[k] = IF k <= Len(a) THEN a[k] ELSE b[k - Len(a)]
<1> DEFINE S == Range(a) \cup Range(b)
<1>1. a \in Seq(S) /\ b \in Seq(S)
  BY SeqIs DEF Range
<1> HIDE DEF S
<1>2. /\ a \o b \in Seq(S) /\ Len(a \o b) = Len(a) + Len(b)
      /\ \A k \in 1..(Len(a) + Len(b)) :
           (a \o b)[k] = IF k <= Len(a) THEN a[k] ELSE b[k - Len(a)]
  BY <1>1
<1>3. IsSeq(a \o b)
  BY <1>2, SeqIs
<1> QED BY <1>2, <1>3

LEMMA JoinedLines ==
  ASSUME NEW a, NEW b, IsSeq(a), IsSeq(b), NEW f, NEW m
  PROVE  /\ None(a, f, m) /\ None(b, f, m) => None(a \o b, f, m)
         /\ None(a, f, m) /\ One(b, f, m) => One(a \o b, f, m)
         /\ One(a, f, m) /\ None(b, f, m) => One(a \o b, f, m)
<1> DEFINE c == a \o b
           A(n) == Closes(a[n], f, m)
           B(n) == Closes(b[n], f, m)
           C(n) == Closes(c[n], f, m)
<1>1. /\ DOMAIN a = 1..Len(a) /\ DOMAIN b = 1..Len(b) /\ DOMAIN c = 1..(Len(a) + Len(b))
      /\ Len(a) \in Nat /\ Len(b) \in Nat
  BY Joined, SeqIs
<1>2. \A n \in 1..(Len(a) + Len(b)) : c[n] = IF n <= Len(a) THEN a[n] ELSE b[n - Len(a)]
  BY Joined
<1>3. \A n \in 1..(Len(a) + Len(b)) : C(n) <=> IF n <= Len(a) THEN A(n) ELSE B(n - Len(a))
  BY <1>2
<1>4. /\ None(a, f, m) <=> \A n \in 1..Len(a) : ~A(n)
      /\ None(b, f, m) <=> \A n \in 1..Len(b) : ~B(n)
      /\ None(c, f, m) <=> \A n \in 1..(Len(a) + Len(b)) : ~C(n)
      /\ One(a, f, m) <=> \E k \in 1..Len(a) : \A n \in 1..Len(a) : A(n) <=> n = k
      /\ One(b, f, m) <=> \E k \in 1..Len(b) : \A n \in 1..Len(b) : B(n) <=> n = k
      /\ One(c, f, m) <=> \E k \in 1..(Len(a) + Len(b)) : \A n \in 1..(Len(a) + Len(b)) : C(n) <=> n = k
  BY <1>1 DEF None, One
<1> HIDE DEF A, B, C, c
<1>5. \A n \in 1..(Len(a) + Len(b)) : n <= Len(a) => n \in 1..Len(a)
  BY <1>1
<1>6. \A n \in 1..(Len(a) + Len(b)) : ~(n <= Len(a)) => n - Len(a) \in 1..Len(b)
  BY <1>1
<1>7. None(a, f, m) /\ None(b, f, m) => None(c, f, m)
  BY <1>3, <1>4, <1>5, <1>6
<1>8. ASSUME None(a, f, m), One(b, f, m)
      PROVE  One(c, f, m)
  <2>1. PICK k \in 1..Len(b) : \A n \in 1..Len(b) : B(n) <=> n = k
    BY <1>4, <1>8
  <2>2. Len(a) + k \in 1..(Len(a) + Len(b))
    BY <1>1
  <2>3. \A n \in 1..(Len(a) + Len(b)) : C(n) <=> n = Len(a) + k
    <3> SUFFICES ASSUME NEW n \in 1..(Len(a) + Len(b))
                 PROVE  C(n) <=> n = Len(a) + k
      OBVIOUS
    <3>1. CASE n <= Len(a)
      <4>1. ~C(n)
        BY <1>3, <1>4, <1>5, <1>8, <3>1
      <4>2. n # Len(a) + k
        BY <1>1, <3>1
      <4> QED BY <4>1, <4>2
    <3>2. CASE ~(n <= Len(a))
      <4>1. C(n) <=> n - Len(a) = k
        BY <1>3, <1>6, <2>1, <3>2
      <4>2. n - Len(a) = k <=> n = Len(a) + k
        BY <1>1
      <4> QED BY <4>1, <4>2
    <3> QED BY <3>1, <3>2
  <2> QED BY <1>4, <2>2, <2>3
<1>9. ASSUME One(a, f, m), None(b, f, m)
      PROVE  One(c, f, m)
  <2>1. PICK k \in 1..Len(a) : \A n \in 1..Len(a) : A(n) <=> n = k
    BY <1>4, <1>9
  <2>2. k \in 1..(Len(a) + Len(b))
    BY <1>1
  <2>3. \A n \in 1..(Len(a) + Len(b)) : C(n) <=> n = k
    <3> SUFFICES ASSUME NEW n \in 1..(Len(a) + Len(b))
                 PROVE  C(n) <=> n = k
      OBVIOUS
    <3>1. CASE n <= Len(a)
      BY <1>3, <1>5, <2>1, <3>1
    <3>2. CASE ~(n <= Len(a))
      <4>1. ~C(n)
        BY <1>3, <1>4, <1>6, <1>9, <3>2
      <4>2. n # k
        BY <1>1, <3>2
      <4> QED BY <4>1, <4>2
    <3> QED BY <3>1, <3>2
  <2> QED BY <1>4, <2>2, <2>3
<1> QED BY <1>7, <1>8, <1>9 DEF c

\* Induction over the natural numbers: a set of numbers that is not all of
\* them would leave out a smallest one.
LEMMA Induction ==
  ASSUME NEW S, 0 \in S, \A n \in Nat : n \in S => n + 1 \in S
  PROVE  Nat \subseteq S
<1> DEFINE T == Nat \ S
           R == {ss \in Nat \X Nat : ss[1] < ss[2]}
<1>1. SUFFICES ASSUME T # {} PROVE FALSE
  OBVIOUS
<1>2. IsWellFoundedOn(R, Nat)
  BY NatLessThanWellFounded DEF OpToRel
<1>3. \E x \in T : \A y \in T : <<y, x>> \notin R
  <2> HIDE DEF T, R
  <2>1. T \subseteq Nat
    BY DEF T
  <2> QED BY ONLY <1>1, <1>2, <2>1, WFMin
<1>4. \E x \in T : \A y \in T : ~(y < x)
  BY <1>3
<1> QED BY <1>4

\* The rows of lines so far.
Rows(F, N, seqs) ==
  F = [i \in 1..N |-> IF i = 1 THEN seqs[i] ELSE F[i - 1] \o seqs[i]]

LEMMA RowsExist ==
  ASSUME NEW seqs, NEW N \in Nat
  PROVE  \E F : Rows(F, N, seqs)
<1> DEFINE S == {n \in Nat : \E F : Rows(F, n, seqs)}
<1>1. 0 \in S
  <2>1. Rows([i \in 1..0 |-> 0], 0, seqs)
    <3>1. 1..0 = {}
      OBVIOUS
    <3> QED BY <3>1 DEF Rows
  <2> QED BY <2>1
<1>2. ASSUME NEW n \in Nat, n \in S
      PROVE  n + 1 \in S
  <2>1. PICK F : Rows(F, n, seqs)
    BY <1>2
  <2> DEFINE last == IF n = 0 THEN seqs[1] ELSE F[n] \o seqs[n + 1]
             G == [i \in 1..(n + 1) |-> IF i = n + 1 THEN last ELSE F[i]]
  <2>2. \A i \in 1..(n + 1) : i = n + 1 \/ i \in 1..n
    OBVIOUS
  <2>3. \A i \in 1..n : F[i] = IF i = 1 THEN seqs[i] ELSE F[i - 1] \o seqs[i]
    BY <2>1 DEF Rows
  <2>4. \A i \in 1..n : G[i] = F[i]
    OBVIOUS
  <2>5. \A i \in 1..(n + 1) : i # 1 => i - 1 \in 1..n
    OBVIOUS
  <2>6. \A i \in 1..(n + 1) : G[i] = IF i = 1 THEN seqs[i] ELSE G[i - 1] \o seqs[i]
    <3> SUFFICES ASSUME NEW i \in 1..(n + 1)
                 PROVE  G[i] = IF i = 1 THEN seqs[i] ELSE G[i - 1] \o seqs[i]
      OBVIOUS
    <3>1. CASE i = n + 1
      <4>1. G[i] = last
        BY <3>1
      <4>2. i # 1 => G[i - 1] = F[n] /\ n # 0
        BY <2>4, <2>5, <3>1
      <4>3. i = 1 => n = 0
        BY <3>1
      <4> HIDE DEF G
      <4> QED BY <3>1, <4>1, <4>2, <4>3
    <3>2. CASE i # n + 1
      <4>1. i \in 1..n /\ G[i] = F[i]
        BY <2>2, <2>4, <3>2
      <4>2. i # 1 => G[i - 1] = F[i - 1]
        BY <2>4, <2>5
      <4> HIDE DEF G
      <4> QED BY <2>3, <4>1, <4>2
    <3> QED BY <3>1, <3>2
  <2>7. G = [i \in 1..(n + 1) |-> G[i]]
    OBVIOUS
  <2> HIDE DEF G
  <2>8. Rows(G, n + 1, seqs)
    BY <2>6, <2>7 DEF Rows
  <2> QED BY <2>8
<1> HIDE DEF S
<1>3. Nat \subseteq S
  BY <1>1, <1>2, Induction
<1> QED BY <1>3 DEF S

\* Flattening is the last row.
LEMMA FlattenIs ==
  ASSUME NEW seqs, Len(seqs) \in Nat, Len(seqs) # 0
  PROVE  \E F : Rows(F, Len(seqs), seqs) /\ FlattenSeq(seqs) = F[Len(seqs)]
<1> DEFINE F == CHOOSE G : Rows(G, Len(seqs), seqs)
<1>1. Rows(F, Len(seqs), seqs)
  BY RowsExist
<1>2. FlattenSeq(seqs) = F[Len(seqs)]
  BY DEF FlattenSeq, Rows
<1> QED BY <1>1, <1>2

\* Flattening sequences of lines.
LEMMA Flattened ==
  ASSUME NEW seqs, IsSeq(seqs), \A i \in DOMAIN seqs : IsSeq(seqs[i]), NEW f, NEW m
  PROVE  /\ IsSeq(FlattenSeq(seqs))
         /\ (\A i \in DOMAIN seqs : None(seqs[i], f, m)) => None(FlattenSeq(seqs), f, m)
         /\ \A k \in DOMAIN seqs :
              One(seqs[k], f, m) /\ (\A i \in DOMAIN seqs : i # k => None(seqs[i], f, m))
                => One(FlattenSeq(seqs), f, m)
<1> DEFINE N == Len(seqs)
<1>1. N \in Nat /\ DOMAIN seqs = 1..N
  BY SeqIs
<1>2. CASE N = 0
  <2>1. FlattenSeq(seqs) = seqs /\ DOMAIN seqs = {}
    BY <1>1, <1>2 DEF FlattenSeq
  <2> QED BY <2>1 DEF None
<1>3. CASE N # 0
  <2>1. PICK F : Rows(F, N, seqs) /\ FlattenSeq(seqs) = F[N]
    BY <1>1, <1>3, FlattenIs
  <2>2. \A i \in 1..N : F[i] = IF i = 1 THEN seqs[i] ELSE F[i - 1] \o seqs[i]
    BY <2>1 DEF Rows
  <2> DEFINE P(i) ==
        /\ IsSeq(F[i])
        /\ (\A j \in 1..i : None(seqs[j], f, m)) => None(F[i], f, m)
        /\ \A k \in 1..i :
             One(seqs[k], f, m) /\ (\A j \in 1..i : j # k => None(seqs[j], f, m)) => One(F[i], f, m)
      S == {i \in Nat : i \in 1..N => P(i)}
  <2>3. P(1)
    <3>1. F[1] = seqs[1] /\ IsSeq(seqs[1]) /\ 1..1 = {1}
      BY <1>1, <1>3, <2>2
    <3> QED BY <3>1
  <2>4. ASSUME NEW i \in 1..N, i + 1 \in 1..N, P(i)
        PROVE  P(i + 1)
    <3>1. F[i + 1] = F[i] \o seqs[i + 1] /\ IsSeq(seqs[i + 1]) /\ IsSeq(F[i])
      <4>1. i + 1 # 1 /\ (i + 1) - 1 = i
        OBVIOUS
      <4> QED BY <1>1, <2>2, <2>4, <4>1
    <3>2. \A j \in 1..(i + 1) : j \in 1..i \/ j = i + 1
      OBVIOUS
    <3>3. i + 1 \in 1..(i + 1) /\ \A j \in 1..i : j \in 1..(i + 1) /\ j # i + 1
      OBVIOUS
    <3>4. IsSeq(F[i + 1])
      BY <3>1, Joined
    <3>5. ASSUME \A j \in 1..(i + 1) : None(seqs[j], f, m)
          PROVE  None(F[i + 1], f, m)
      BY <2>4, <3>1, <3>3, <3>5, JoinedLines
    <3>6. ASSUME NEW k \in 1..(i + 1), One(seqs[k], f, m),
                 \A j \in 1..(i + 1) : j # k => None(seqs[j], f, m)
          PROVE  One(F[i + 1], f, m)
      <4>1. CASE k = i + 1
        <5>1. \A j \in 1..i : None(seqs[j], f, m)
          BY <3>3, <3>6, <4>1
        <5>2. None(F[i], f, m)
          BY <2>4, <5>1
        <5> QED BY <3>1, <3>6, <4>1, <5>2, JoinedLines
      <4>2. CASE k # i + 1
        <5>1. k \in 1..i /\ \A j \in 1..i : j # k => None(seqs[j], f, m)
          BY <3>2, <3>3, <3>6, <4>2
        <5>2. One(F[i], f, m)
          BY <2>4, <3>6, <5>1
        <5>3. None(seqs[i + 1], f, m)
          BY <3>3, <3>6, <4>2
        <5> QED BY <3>1, <5>2, <5>3, JoinedLines
      <4> QED BY <4>1, <4>2
    <3> QED BY <3>4, <3>5, <3>6
  <2> HIDE DEF P
  <2>5. ASSUME NEW i \in Nat, i \in S, i + 1 \in 1..N
        PROVE  P(i + 1)
    <3>1. CASE i = 0
      BY <2>3, <3>1
    <3>2. CASE i # 0
      <4>1. i \in 1..N
        BY <1>1, <2>5, <3>2
      <4>2. P(i)
        BY <2>5, <4>1
      <4> QED BY <2>4, <2>5, <4>1, <4>2
    <3> QED BY <3>1, <3>2
  <2>6. 0 \in S
    BY <1>1
  <2>7. \A i \in Nat : i \in S => i + 1 \in S
    <3>1. \A i \in Nat : i \in S /\ i + 1 \in 1..N => P(i + 1)
      <4> HIDE DEF S
      <4> QED BY <2>5
    <3>2. \A i \in Nat : i + 1 \in Nat
      OBVIOUS
    <3> QED BY ONLY <3>1, <3>2
  <2> HIDE DEF S
  <2>8. Nat \subseteq S
    BY <2>6, <2>7, Induction
  <2>9. P(N)
    BY <1>1, <1>3, <2>8 DEF S
  <2> QED BY <1>1, <2>1, <2>9 DEF P
<1> QED BY <1>2, <1>3

-----------------------------------------------------------------------------
(* Which lines close which histogram                                        *)

\* The sequence is one followed by another.
Ends(s, front, end) == IsSeq(front) /\ IsSeq(end) /\ s = front \o end

\* Names and labels that are the same with the same end are the same.
LEMMA SameFront ==
  ASSUME NEW s, NEW a, NEW b, NEW c, NEW d, Ends(s, a, c), Ends(s, b, d), Len(c) = Len(d)
  PROVE  a = b /\ c = d
<1> USE DEF Ends
<1>1. /\ Len(a) \in Nat /\ Len(b) \in Nat /\ Len(c) \in Nat
      /\ Len(a) + Len(c) = Len(b) + Len(d)
  BY Joined, SeqIs
<1>2. Len(a) = Len(b)
  BY <1>1
<1>3. /\ \A k \in 1..(Len(a) + Len(c)) : (a \o c)[k] = IF k <= Len(a) THEN a[k] ELSE c[k - Len(a)]
      /\ \A k \in 1..(Len(b) + Len(d)) : (b \o d)[k] = IF k <= Len(b) THEN b[k] ELSE d[k - Len(b)]
  BY Joined
<1>4. \A k \in 1..Len(a) : a[k] = b[k]
  BY <1>1, <1>2, <1>3
<1>5. ASSUME NEW k \in 1..Len(c)
      PROVE  c[k] = d[k]
  <2>1. /\ Len(a) + k \in 1..(Len(a) + Len(c)) /\ ~(Len(a) + k <= Len(a))
        /\ (Len(a) + k) - Len(a) = k
    BY <1>1
  <2> QED BY <1>1, <1>2, <1>3, <2>1
<1>6. a = b
  <2>1. a \in Seq(Range(a)) /\ b \in Seq(Range(a) \cup Range(b)) /\ a \in Seq(Range(a) \cup Range(b))
    BY DEF IsSeq
  <2> QED BY <1>2, <1>4, <2>1
<1>7. c = d
  <2>1. c \in Seq(Range(c)) /\ d \in Seq(Range(c) \cup Range(d)) /\ c \in Seq(Range(c) \cup Range(d))
    BY DEF IsSeq
  <2> QED BY <1>5, <2>1
<1> QED BY <1>6, <1>7

LEMMA Tuples ==
  /\ IsSeq(<< >>) /\ Len(<< >>) = 0
  /\ \A x : IsSeq(<<x>>) /\ Len(<<x>>) = 1 /\ <<x>>[1] = x /\ DOMAIN <<x>> = {1}
  /\ \A x, y : IsSeq(<<x, y>>) /\ Len(<<x, y>>) = 2 /\ <<x, y>>[1] = x /\ <<x, y>>[2] = y
              /\ DOMAIN <<x, y>> = {1, 2}
<1>1. IsSeq(<< >>) /\ Len(<< >>) = 0
  <2>1. << >> \in Seq({})
    OBVIOUS
  <2> QED BY <2>1, SeqIs
<1>2. ASSUME NEW x PROVE IsSeq(<<x>>) /\ Len(<<x>>) = 1 /\ <<x>>[1] = x /\ DOMAIN <<x>> = {1}
  <2>1. <<x>> \in Seq({x})
    OBVIOUS
  <2>2. Len(<<x>>) = 1 /\ <<x>>[1] = x /\ DOMAIN <<x>> = {1}
    OBVIOUS
  <2>3. IsSeq(<<x>>)
    BY ONLY <2>1, SeqIs
  <2> QED BY ONLY <2>2, <2>3
<1>3. ASSUME NEW x, NEW y
      PROVE  IsSeq(<<x, y>>) /\ Len(<<x, y>>) = 2 /\ <<x, y>>[1] = x /\ <<x, y>>[2] = y
              /\ DOMAIN <<x, y>> = {1, 2}
  <2>1. <<x, y>> \in Seq({x, y})
    OBVIOUS
  <2>2. Len(<<x, y>>) = 2 /\ <<x, y>>[1] = x /\ <<x, y>>[2] = y
              /\ DOMAIN <<x, y>> = {1, 2}
    OBVIOUS
  <2>3. IsSeq(<<x, y>>)
    BY ONLY <2>1, SeqIs
  <2> QED BY ONLY <2>2, <2>3
<1> QED BY <1>1, <1>2, <1>3

\* The label of a line, and the suffix of its name, decide.
LEMMA BucketCloses ==
  ASSUME NEW g, NEW l, NEW f, NEW m, NEW bound, NEW n,
         IsSeq(g.name), IsSeq(l.label), IsSeq(f.name), IsSeq(m.label)
  PROVE  Closes(BucketLine(g, l, bound, n), f, m)
           <=> g.name = f.name /\ l.label = m.label /\ bound = Inf
<1> DEFINE line == BucketLine(g, l, bound, n)
<1>1. /\ "label" \in DOMAIN line /\ line.name = g.name \o <<"_", "bucket">>
      /\ line.label = l.label \o <<<< <<"le">>, bound>>>>
  BY DEF BucketLine, Line
<1> HIDE DEF line
<1>2. ASSUME g.name \o <<"_", "bucket">> = f.name \o <<"_", "bucket">>
      PROVE  g.name = f.name
  <2> DEFINE c == <<"_", "bucket">>
  <2>1. Ends(g.name \o c, g.name, c) /\ Ends(g.name \o c, f.name, c)
    BY <1>2, Tuples DEF Ends
  <2> HIDE DEF c
  <2> QED BY ONLY <2>1, SameFront
<1>3. ASSUME l.label \o <<<< <<"le">>, bound>>>> = m.label \o <<<< <<"le">>, Inf>>>>
      PROVE  l.label = m.label /\ bound = Inf
  <2> DEFINE x == << <<"le">>, bound>>
             y == << <<"le">>, Inf>>
  <2>1. l.label \o <<x>> = m.label \o <<y>>
    BY <1>3
  <2> HIDE DEF x, y
  <2>2. l.label = m.label /\ <<x>>[1] = <<y>>[1]
    <3> DEFINE c == <<x>>
               d == <<y>>
    <3>1. IsSeq(c) /\ Len(c) = 1
      BY Tuples
    <3>2. IsSeq(d) /\ Len(d) = 1
      BY Tuples
    <3>3. l.label \o c = m.label \o d
      BY <2>1
    <3> HIDE DEF c, d
    <3>4. /\ Ends(l.label \o c, l.label, c) /\ Ends(l.label \o c, m.label, d)
          /\ Len(c) = Len(d)
      BY <3>1, <3>2, <3>3 DEF Ends
    <3>5. l.label = m.label /\ c = d
      BY ONLY <3>4, SameFront
    <3> QED BY <3>5 DEF c, d
  <2>3. x = y
    BY <2>2, Tuples
  <2> QED BY <2>2, <2>3 DEF x, y
<1>4. Closes(line, f, m) <=> /\ g.name \o <<"_", "bucket">> = f.name \o <<"_", "bucket">>
                             /\ l.label \o <<<< <<"le">>, bound>>>> = m.label \o <<<< <<"le">>, Inf>>>>
  BY <1>1 DEF Closes, IsSample
<1>5. Closes(line, f, m) <=> g.name = f.name /\ l.label = m.label /\ bound = Inf
  BY <1>2, <1>3, <1>4
<1> QED BY <1>5 DEF line

LEMMA OthersDoNot ==
  ASSUME NEW g, NEW l, NEW f, NEW m, NEW extra, NEW value, IsSeq(g.name), IsSeq(f.name)
  PROVE  /\ \A word : word # "bucket" => ~Closes(Line(g, l, <<"_", word>>, extra, value), f, m)
         /\ g.name # f.name \o <<"_", "bucket">> => ~Closes(Line(g, l, << >>, extra, value), f, m)
<1>1. ASSUME NEW word, word # "bucket", Closes(Line(g, l, <<"_", word>>, extra, value), f, m)
      PROVE  FALSE
  <2>1. g.name \o <<"_", word>> = f.name \o <<"_", "bucket">>
    BY <1>1 DEF Closes, Line, IsSample
  <2> DEFINE c == <<"_", word>>
             d == <<"_", "bucket">>
  <2>2. c[2] = word /\ d[2] = "bucket" /\ Len(c) = Len(d)
    BY Tuples
  <2>3. Ends(g.name \o c, g.name, c) /\ Ends(g.name \o c, f.name, d)
    BY <2>1, Tuples DEF Ends
  <2> HIDE DEF c, d
  <2>4. c = d
    BY ONLY <2>2, <2>3, SameFront
  <2> QED BY <1>1, <2>2, <2>4
<1>2. g.name \o << >> = g.name
  <2>1. g.name \in Seq(Range(g.name))
    BY DEF IsSeq
  <2> QED BY <2>1
<1>3. Line(g, l, << >>, extra, value).name = g.name
  BY <1>2 DEF Line
<1> QED BY <1>1, <1>3 DEF Closes, IsSample

LEMMA FunctionIsSeq ==
  ASSUME NEW x, NEW n \in Nat, x = [k \in 1..n |-> x[k]]
  PROVE  IsSeq(x) /\ Len(x) = n /\ DOMAIN x = 1..n
<1>1. DOMAIN x = 1..n
  OBVIOUS
<1>2. x \in [1..n -> Range(x)]
  BY <1>1 DEF Range
<1>3. x \in Seq(Range(x)) /\ Len(x) = n
  BY <1>2
<1> QED BY <1>1, <1>3 DEF IsSeq

\* What a metric of another type is written as closes no histogram.
LEMMA PlainLines ==
  ASSUME NEW g, NEW l, NEW f, NEW m, IsSeq(g.name), IsSeq(f.name),
         g.name # f.name \o <<"_", "bucket">>,
         g.type \in {"Counter", "Gauge", "Untyped", "Info", "Summary"},
         g.type = "Summary" => IsSeq(l.summary.quantile)
  PROVE  IsSeq(SerializeMetric(g, l)) /\ None(SerializeMetric(g, l), f, m)
<1>1. ASSUME NEW x, ~Closes(x, f, m)
      PROVE  IsSeq(<<x>>) /\ None(<<x>>, f, m)
  <2>1. IsSeq(<<x>>) /\ DOMAIN <<x>> = {1} /\ <<x>>[1] = x
    BY Tuples
  <2> QED BY <1>1, <2>1 DEF None
<1>2. CASE g.type \in {"Counter", "Gauge", "Untyped"}
  <2>1. SerializeMetric(g, l) = SerializeNumber(g, l)
    BY <1>2 DEF SerializeMetric
  <2> DEFINE v == IF l.number.type = "INT" THEN l.number.value ELSE WriteValue(l.number.value)
             x == Plain(g, l, v)
  <2>2. SerializeNumber(g, l) = <<x>>
    BY DEF SerializeNumber
  <2> HIDE DEF v
  <2>3. ~Closes(x, f, m)
    BY OthersDoNot DEF Plain
  <2> HIDE DEF x
  <2> QED BY <1>1, <2>1, <2>2, <2>3
<1>3. CASE g.type = "Info"
  <2>1. SerializeMetric(g, l) = SerializeInfo(g, l)
    BY <1>3 DEF SerializeMetric
  <2> DEFINE x == Line(g, l, <<"_", "info">>, << >>, WriteValue(l.info.value))
  <2>2. SerializeInfo(g, l) = <<x>>
    BY DEF SerializeInfo
  <2>3. ~Closes(x, f, m)
    BY OthersDoNot
  <2> HIDE DEF x
  <2> QED BY <1>1, <2>1, <2>2, <2>3
<1>4. CASE g.type = "Summary"
  <2>1. SerializeMetric(g, l) = SerializeSummary(g, l)
    BY <1>4 DEF SerializeMetric
  <2> DEFINE s == l.summary
             N == Len(s.quantile)
             x == CountLine(g, l, s.sample_count)
             y == SumLine(g, l, s.sample_sum)
             r == [k \in DOMAIN s.quantile |->
                     Line(g, l, << >>, <<<< <<"quantile">>, WriteValue(s.quantile[k].quantile)>>>>,
                          WriteValue(s.quantile[k].value))]
  <2>2. SerializeSummary(g, l) = <<x, y>> \o r
    BY DEF SerializeSummary
  <2>3. ~Closes(x, f, m) /\ ~Closes(y, f, m)
    BY OthersDoNot DEF CountLine, SumLine
  <2>4. N \in Nat /\ DOMAIN s.quantile = 1..N
    BY <1>4, SeqIs
  <2>5. \A k \in DOMAIN r : ~Closes(r[k], f, m)
    BY OthersDoNot
  <2>6. IsSeq(r)
    BY <2>4, FunctionIsSeq
  <2> HIDE DEF x, y, r
  <2>7. IsSeq(<<x, y>>) /\ None(<<x, y>>, f, m)
    <3>1. IsSeq(<<x, y>>) /\ DOMAIN <<x, y>> = {1, 2} /\ <<x, y>>[1] = x /\ <<x, y>>[2] = y
      BY Tuples
    <3> DEFINE t == <<x, y>>
    <3> HIDE DEF t
    <3>2. IsSeq(t) /\ DOMAIN t = {1, 2} /\ t[1] = x /\ t[2] = y
      BY <3>1 DEF t
    <3>3. None(t, f, m)
      BY <2>3, <3>2 DEF None
    <3> QED BY <3>2, <3>3 DEF t
  <2>8. None(r, f, m)
    BY <2>5 DEF None
  <2>9. IsSeq(<<x, y>> \o r) /\ None(<<x, y>> \o r, f, m)
    BY <2>6, <2>7, <2>8, Joined, JoinedLines
  <2> QED BY <2>1, <2>2, <2>9
<1> QED BY <1>2, <1>3, <1>4

\* What a histogram is written as closes that histogram once, and no other.
LEMMA HistogramLines ==
  ASSUME NEW g, NEW l, NEW f, NEW m,
         IsSeq(g.name), IsSeq(f.name), IsSeq(l.label), IsSeq(m.label), IsSeq(l.histogram.bucket)
  PROVE  /\ IsSeq(SerializeHistogram(g, l))
         /\ g.name # f.name \/ l.label # m.label => None(SerializeHistogram(g, l), f, m)
         /\ g.name = f.name /\ l.label = m.label /\ EndsOnce(l.histogram.bucket)
              => One(SerializeHistogram(g, l), f, m)
<1> DEFINE h == l.histogram
           N == Len(h.bucket)
           x == CountLine(g, l, h.sample_count)
           y == SumLine(g, l, h.sample_sum)
           z == BucketLine(g, l, Inf, h.sample_count)
           r == [k \in DOMAIN h.bucket |->
                   BucketLine(g, l, WriteValue(h.bucket[k].upper_bound), h.bucket[k].cumulative_count)]
           ends == h.bucket # << >> /\ Last(h.bucket).upper_bound = Inf
           last == IF ends THEN << >> ELSE <<z>>
           s == SerializeHistogram(g, l)
           Same == g.name = f.name /\ l.label = m.label
<1>1. s = <<x, y>> \o r \o last
  BY DEF SerializeHistogram
<1>2. N \in Nat /\ DOMAIN h.bucket = 1..N
  BY SeqIs
<1>3. ~Closes(x, f, m) /\ ~Closes(y, f, m)
  BY OthersDoNot DEF CountLine, SumLine
<1>4. IsSeq(r) /\ DOMAIN r = 1..N
  BY <1>2, FunctionIsSeq
<1>5. \A k \in 1..N : Closes(r[k], f, m) <=> Same /\ WriteValue(h.bucket[k].upper_bound) = Inf
  BY <1>2, BucketCloses
<1>6. Closes(z, f, m) <=> Same
  BY BucketCloses
<1>7. ends => N # 0 /\ WriteValue(h.bucket[N].upper_bound) = Inf
  <2>1. h.bucket \in Seq(Range(h.bucket))
    BY DEF IsSeq
  <2>2. h.bucket # << >> => N # 0
    BY <2>1
  <2> QED BY <2>2 DEF Last, WriteValue
<1>8. ASSUME NEW k \in 1..N, k = N, h.bucket[k].upper_bound = Inf
      PROVE  ends
  <2>1. h.bucket # << >>
    BY <1>2, <1>8
  <2> QED BY <1>8, <2>1 DEF Last
<1> HIDE DEF x, y, z, r, ends, s, N
<1>9. IsSeq(<<x, y>>) /\ None(<<x, y>>, f, m)
  <2>1. IsSeq(<<x, y>>) /\ DOMAIN <<x, y>> = {1, 2}
    BY Tuples
  <2> QED BY <1>3, <2>1 DEF None
<1>10. IsSeq(<<x, y>> \o r)
  BY <1>4, <1>9, Joined
<1>11. IsSeq(last)
  BY Tuples
<1>12. IsSeq(s)
  BY <1>1, <1>10, <1>11, Joined
<1>13. /\ ends => None(last, f, m)
       /\ ~ends /\ Same => One(last, f, m)
       /\ ~ends /\ ~Same => None(last, f, m)
  <2>1. DOMAIN << >> = {} /\ DOMAIN <<z>> = {1} /\ <<z>>[1] = z
    BY Tuples
  <2> QED BY <1>6, <2>1 DEF None, One
<1>14. ASSUME ~Same
       PROVE  None(s, f, m)
  <2>1. None(r, f, m)
    BY <1>4, <1>5, <1>14 DEF None
  <2>2. None(<<x, y>> \o r, f, m)
    BY <1>4, <1>9, <2>1, JoinedLines
  <2>3. None(last, f, m)
    BY <1>13, <1>14
  <2> QED BY <1>1, <1>10, <1>11, <2>2, <2>3, JoinedLines
<1>15. ASSUME Same,
              \A k \in 1..N : WriteValue(h.bucket[k].upper_bound) = Inf
                                => k = N /\ h.bucket[k].upper_bound = Inf
       PROVE  One(s, f, m)
  <2>1. CASE ends
    <3>1. N \in 1..N
      BY <1>2, <1>7, <2>1
    <3>2. \A k \in 1..N : Closes(r[k], f, m) <=> k = N
      BY <1>5, <1>7, <1>15, <2>1
    <3>3. One(r, f, m)
      BY <1>4, <3>1, <3>2 DEF One
    <3>4. One(<<x, y>> \o r, f, m)
      BY <1>4, <1>9, <3>3, JoinedLines
    <3>5. None(last, f, m)
      BY <1>13, <2>1
    <3> QED BY <1>1, <1>10, <1>11, <3>4, <3>5, JoinedLines
  <2>2. CASE ~ends
    <3>1. \A k \in 1..N : ~Closes(r[k], f, m)
      BY <1>5, <1>8, <1>15, <2>2
    <3>2. None(r, f, m)
      BY <1>4, <3>1 DEF None
    <3>3. None(<<x, y>> \o r, f, m)
      BY <1>4, <1>9, <3>2, JoinedLines
    <3>4. One(last, f, m)
      BY <1>13, <1>15, <2>2
    <3> QED BY <1>1, <1>10, <1>11, <3>3, <3>4, JoinedLines
  <2> QED BY <2>1, <2>2
<1>16. EndsOnce(h.bucket) => \A k \in 1..N : WriteValue(h.bucket[k].upper_bound) = Inf
                                              => k = N /\ h.bucket[k].upper_bound = Inf
  BY <1>2 DEF EndsOnce, N
<1>17. ~Same => None(s, f, m)
  BY <1>14
<1>18. Same /\ EndsOnce(h.bucket) => One(s, f, m)
  BY <1>15, <1>16
<1> QED BY <1>12, <1>17, <1>18 DEF s

\* The lines of any metric of a scrape, and those that close histogram j of family i.
LEMMA MetricLines ==
  ASSUME NEW scrape, IsScrape(scrape), OwnNames(scrape), OwnBounds(scrape),
         NEW i \in DOMAIN scrape, scrape[i].type = "Histogram", NEW j \in DOMAIN scrape[i].metric,
         NEW p \in DOMAIN scrape, NEW q \in DOMAIN scrape[p].metric
  PROVE  LET s == SerializeMetric(scrape[p], scrape[p].metric[q])
             f == scrape[i]
             m == scrape[i].metric[j]
         IN  /\ IsSeq(s)
             /\ p = i /\ q = j => One(s, f, m)
             /\ p # i \/ q # j => None(s, f, m)
<1> DEFINE f == scrape[i]
           m == scrape[i].metric[j]
           g == scrape[p]
           l == scrape[p].metric[q]
           s == SerializeMetric(g, l)
<1>1. f \in Range(scrape) /\ g \in Range(scrape) /\ m \in Range(f.metric) /\ l \in Range(g.metric)
  BY DEF Range
<1>2. /\ IsSeq(f.name) /\ IsSeq(g.name) /\ IsSeq(m.label) /\ IsSeq(l.label)
      /\ g.type \in {"Counter", "Gauge", "Untyped", "Info", "Summary", "Histogram"}
      /\ g.type = "Summary" => IsSeq(l.summary.quantile)
      /\ g.type = "Histogram" => IsSeq(l.histogram.bucket)
  BY <1>1 DEF IsScrape
<1>3. g.name # f.name \o <<"_", "bucket">>
  BY DEF OwnNames
<1>4. g.name = f.name => p = i
  BY DEF OwnNames
<1>5. p = i /\ l.label = m.label => q = j
  <2> DEFINE labels == [k \in DOMAIN scrape[i].metric |-> scrape[i].metric[k].label]
  <2>1. IsInjective(labels)
    BY DEF OwnNames
  <2>2. \A a, b \in DOMAIN scrape[i].metric : labels[a] = labels[b] => a = b
    BY <2>1 DEF IsInjective
  <2> QED BY <2>2
<1>6. CASE g.type # "Histogram"
  <2>1. IsSeq(s) /\ None(s, f, m) /\ p # i
    BY <1>2, <1>3, <1>6, PlainLines
  <2> QED BY <2>1
<1>7. CASE g.type = "Histogram"
  <2>1. s = SerializeHistogram(g, l)
    BY <1>7 DEF SerializeMetric
  <2>2. EndsOnce(l.histogram.bucket)
    BY <1>1, <1>7 DEF OwnBounds
  <2>3. p # i \/ q # j => g.name # f.name \/ l.label # m.label
    BY <1>4, <1>5
  <2>4. p = i /\ q = j => g.name = f.name /\ l.label = m.label
    OBVIOUS
  <2> HIDE DEF s, f, m, g, l
  <2>5. IsSeq(l.histogram.bucket)
    BY <1>2, <1>7
  <2>6. IsSeq(s)
    BY <1>2, <2>1, <2>5, HistogramLines
  <2>7. g.name # f.name \/ l.label # m.label => None(s, f, m)
    BY <1>2, <2>1, <2>5, HistogramLines
  <2>8. g.name = f.name /\ l.label = m.label => One(s, f, m)
    BY <1>2, <2>1, <2>2, <2>5, HistogramLines
  <2>9. /\ IsSeq(s)
        /\ p = i /\ q = j => One(s, f, m)
        /\ p # i \/ q # j => None(s, f, m)
    BY <2>3, <2>4, <2>6, <2>7, <2>8
  <2> QED BY <2>9 DEF s, f, m, g, l
<1> QED BY <1>6, <1>7

LEMMA FamilyLines ==
  ASSUME NEW scrape, IsScrape(scrape), OwnNames(scrape), OwnBounds(scrape),
         NEW i \in DOMAIN scrape, scrape[i].type = "Histogram", NEW j \in DOMAIN scrape[i].metric,
         NEW p \in DOMAIN scrape
  PROVE  LET s == SerializeFamily(scrape[p])
             f == scrape[i]
             m == scrape[i].metric[j]
         IN  /\ IsSeq(s)
             /\ p = i => One(s, f, m)
             /\ p # i => None(s, f, m)
<1> DEFINE f == scrape[i]
           m == scrape[i].metric[j]
           g == scrape[p]
           x == [help |-> g.name]
           y == [type |-> TypeWord(g.type), of |-> g.name]
           a == IF g.help THEN <<x>> ELSE << >>
           t == [q \in DOMAIN g.metric |-> SerializeMetric(g, g.metric[q])]
           c == FlattenSeq(t)
           s == SerializeFamily(g)
<1>1. s = a \o <<y>> \o c
  BY DEF SerializeFamily
<1>2. ~Closes(x, f, m) /\ ~Closes(y, f, m)
  BY DEF Closes, IsSample
<1>3. IsSeq(g.metric)
  <2>1. g \in Range(scrape)
    BY DEF Range
  <2> QED BY <2>1 DEF IsScrape
<1>4. Len(g.metric) \in Nat /\ DOMAIN g.metric = 1..Len(g.metric)
  BY <1>3, SeqIs
<1>5. IsSeq(t)
  BY <1>4, FunctionIsSeq
<1>6. DOMAIN t = DOMAIN g.metric
  OBVIOUS
<1>7. \A q \in DOMAIN t : /\ IsSeq(t[q])
                          /\ p = i /\ q = j => One(t[q], f, m)
                          /\ p # i \/ q # j => None(t[q], f, m)
  BY MetricLines
<1>8. p = i => j \in DOMAIN t
  OBVIOUS
<1> HIDE DEF f, m, g, x, y, t, s
<1>9. /\ IsSeq(c)
      /\ (\A q \in DOMAIN t : None(t[q], f, m)) => None(c, f, m)
      /\ \A k \in DOMAIN t :
           One(t[k], f, m) /\ (\A q \in DOMAIN t : q # k => None(t[q], f, m)) => One(c, f, m)
  BY <1>5, <1>7, Flattened
<1>10. p = i => One(c, f, m)
  BY <1>7, <1>8, <1>9
<1>11. p # i => None(c, f, m)
  BY <1>7, <1>9
<1>12. IsSeq(a) /\ None(a, f, m)
  <2>1. IsSeq(<< >>) /\ DOMAIN << >> = {} /\ IsSeq(<<x>>) /\ DOMAIN <<x>> = {1} /\ <<x>>[1] = x
    BY Tuples
  <2>2. None(<< >>, f, m) /\ None(<<x>>, f, m)
    BY <1>2, <2>1 DEF None
  <2> QED BY <2>1, <2>2
<1>13. IsSeq(<<y>>) /\ None(<<y>>, f, m)
  <2>1. IsSeq(<<y>>) /\ DOMAIN <<y>> = {1} /\ <<y>>[1] = y
    BY Tuples
  <2> QED BY <1>2, <2>1 DEF None
<1> DEFINE head == a \o <<y>>
<1> HIDE DEF a
<1>14. IsSeq(head) /\ None(head, f, m)
  BY <1>12, <1>13, Joined, JoinedLines
<1> HIDE DEF head, c
<1>15. IsSeq(head \o c)
  BY <1>9, <1>14, Joined
<1>16. /\ None(c, f, m) => None(head \o c, f, m)
       /\ One(c, f, m) => One(head \o c, f, m)
  BY <1>9, <1>14, JoinedLines
<1>17. s = head \o c
  BY <1>1 DEF head
<1>18. IsSeq(s) /\ (p = i => One(s, f, m)) /\ (p # i => None(s, f, m))
  BY <1>10, <1>11, <1>15, <1>16, <1>17
<1> QED BY <1>18 DEF s, f, m, g

\* One line of the text of a scrape closes a histogram.
LEMMA TextLines ==
  ASSUME NEW scrape, IsScrape(scrape), OwnNames(scrape), OwnBounds(scrape),
         NEW i \in DOMAIN scrape, scrape[i].type = "Histogram", NEW j \in DOMAIN scrape[i].metric
  PROVE  IsSeq(Serialize(scrape)) /\ One(Serialize(scrape), scrape[i], scrape[i].metric[j])
<1> DEFINE f == scrape[i]
           m == scrape[i].metric[j]
           t == [p \in DOMAIN scrape |-> SerializeFamily(scrape[p])]
<1>1. Serialize(scrape) = FlattenSeq(t)
  BY DEF Serialize
<1>2. Len(scrape) \in Nat /\ DOMAIN scrape = 1..Len(scrape)
  BY SeqIs DEF IsScrape
<1>3. IsSeq(t)
  BY <1>2, FunctionIsSeq
<1>4. \A p \in DOMAIN t : /\ IsSeq(t[p])
                          /\ p = i => One(t[p], f, m)
                          /\ p # i => None(t[p], f, m)
  BY FamilyLines
<1>5. i \in DOMAIN t
  OBVIOUS
<1> HIDE DEF t, f, m
<1>6. /\ IsSeq(FlattenSeq(t))
      /\ \A k \in DOMAIN t :
           One(t[k], f, m) /\ (\A p \in DOMAIN t : p # k => None(t[p], f, m))
             => One(FlattenSeq(t), f, m)
  BY <1>3, <1>4, Flattened
<1>7. One(FlattenSeq(t), f, m)
  BY <1>4, <1>5, <1>6
<1> QED BY <1>1, <1>6, <1>7 DEF f, m

\* A scrape whose families and labelled metrics have names of their own, and whose
\* histograms have at most one bucket that reads as +Inf, the last: then every
\* histogram in a text has exactly one closing bucket, whether its scrape had it or
\* not (text_serializer.cc:158-170).
THEOREM ClosedOnce ==
  ASSUME \A s \in Scrapes : IsScrape(s) /\ OwnNames(s) /\ OwnBounds(s)
  PROVE  StreamSpec => []HistogramClosed
<1>1. StreamInv => HistogramClosed
  <2> SUFFICES ASSUME StreamInv, pc = "returned", ~bad,
                      NEW i \in DOMAIN metrics, metrics[i].type = "Histogram",
                      NEW j \in DOMAIN metrics[i].metric
               PROVE  \E k \in DOMAIN written : \A n \in DOMAIN written :
                        Closes(written[n].line, metrics[i], metrics[i].metric[j]) <=> n = k
    BY DEF HistogramClosed
  <2>1. metrics \in Scrapes
    BY DEF StreamInv, StreamTypeOK
  <2>2. IsSeq(Lines) /\ One(Lines, metrics[i], metrics[i].metric[j])
    BY <2>1, TextLines DEF Lines
  <2>3. DOMAIN Lines = 1..Len(Lines) /\ DOMAIN written = 1..Len(Lines)
    <3>1. DOMAIN Lines = 1..Len(Lines)
      BY <2>2, SeqIs
    <3>2. DOMAIN written = 1..Len(written)
      BY DEF StreamInv, StreamTypeOK
    <3>3. Len(written) = Len(Lines)
      BY DEF StreamInv, NothingMissing
    <3> QED BY <3>1, <3>2, <3>3
  <2>4. \A k \in DOMAIN written : written[k].line = Lines[k]
    BY DEF StreamInv, NothingMissing
  <2> QED BY <2>2, <2>3, <2>4 DEF One
<1> QED BY <1>1, StreamInvariance, PTL

-----------------------------------------------------------------------------
(* Exposition: the families and their metrics                               *)

Good(T, f) == IsFamily(T, f) /\ LabelsChecked(T, f)

\* The invariant, family by family.
Each ==
  /\ families = [T \in Types |-> families[T]]
  /\ \A T \in Types : IsSeq(families[T])
  /\ \A T \in Types : \A i \in DOMAIN families[T] : Good(T, families[T][i])
  /\ \A T, U \in Types : \A i \in DOMAIN families[T], j \in DOMAIN families[U] :
       families[T][i].name = families[U][j].name => T = U /\ i = j

LEMMA ByFamily == IInv <=> Each
<1>1. \A T : \A f : f \in Families(T) <=> \E i \in DOMAIN families[T] : f = families[T][i]
  BY DEF Families, Range
<1>2. NamesUnique <=> \A T, U \in Types : \A i \in DOMAIN families[T], j \in DOMAIN families[U] :
                        families[T][i].name = families[U][j].name => T = U /\ i = j
  <2>1. ASSUME NamesUnique, NEW T \in Types, NEW U \in Types, NEW i \in DOMAIN families[T],
               NEW j \in DOMAIN families[U], families[T][i].name = families[U][j].name
        PROVE  T = U /\ i = j
    <3>1. <<T, i>> \in All /\ <<U, j>> \in All
      BY DEF All
    <3>2. <<T, i>> = <<U, j>>
      BY <2>1, <3>1 DEF NamesUnique
    <3> QED BY <3>2
  <2>2. ASSUME \A T, U \in Types : \A i \in DOMAIN families[T], j \in DOMAIN families[U] :
                 families[T][i].name = families[U][j].name => T = U /\ i = j,
               NEW x \in All, NEW y \in All,
               families[x[1]][x[2]].name = families[y[1]][y[2]].name
        PROVE  x = y
    <3>1. PICK T \in Types : \E i \in DOMAIN families[T] : x = <<T, i>>
      BY DEF All
    <3>2. PICK i \in DOMAIN families[T] : x = <<T, i>>
      BY <3>1
    <3>3. PICK U \in Types : \E j \in DOMAIN families[U] : y = <<U, j>>
      BY DEF All
    <3>4. PICK j \in DOMAIN families[U] : y = <<U, j>>
      BY <3>3
    <3>5. families[T][i].name = families[U][j].name
      BY <2>2, <3>2, <3>4
    <3> QED BY <2>2, <3>2, <3>4, <3>5
  <2> QED BY <2>1, <2>2 DEF NamesUnique
<1>3. (\A T \in Types : \A f \in Families(T) : IsFamily(T, f) /\ LabelsChecked(T, f))
        <=> \A T \in Types : \A i \in DOMAIN families[T] : Good(T, families[T][i])
  BY <1>1 DEF Good
<1> QED BY <1>2, <1>3 DEF IInv, TypeOK, Each

LEMMA ExpositionInitial == Init => IInv
<1> SUFFICES ASSUME Init PROVE IInv
  OBVIOUS
<1>1. \A T \in Types : families[T] = << >>
  BY DEF Init
<1>2. IsSeq(<< >>) /\ DOMAIN << >> = {}
  BY Tuples
<1> QED BY <1>1, <1>2, ByFamily DEF Init, Each

\* A family is replaced by one of the same name.
LEMMA ReplaceStep ==
  ASSUME IInv, NEW T \in Types, NEW i \in DOMAIN families[T], NEW g,
         families' = [families EXCEPT ![T][i] = g],
         Good(T, g), g.name = families[T][i].name
  PROVE  IInv'
<1>1. /\ families = [U \in Types |-> families[U]]
      /\ \A U \in Types : IsSeq(families[U])
      /\ \A U \in Types : \A j \in DOMAIN families[U] : Good(U, families[U][j])
      /\ \A U, V \in Types : \A j \in DOMAIN families[U], k \in DOMAIN families[V] :
           families[U][j].name = families[V][k].name => U = V /\ j = k
  BY ByFamily DEF Each
<1>2. families' = [U \in Types |-> IF U = T THEN [families[T] EXCEPT ![i] = g] ELSE families[U]]
  BY <1>1
<1>3. families' = [U \in Types |-> families'[U]]
  BY <1>2
<1>4. \A U \in Types : families'[U] = IF U = T THEN [families[T] EXCEPT ![i] = g] ELSE families[U]
  BY <1>2
<1>5. \A U \in Types : /\ DOMAIN families'[U] = DOMAIN families[U]
                       /\ \A j \in DOMAIN families[U] :
                            families'[U][j] = IF U = T /\ j = i THEN g ELSE families[U][j]
  BY <1>4
<1>6. \A U \in Types : IsSeq(families'[U])
  <2> SUFFICES ASSUME NEW U \in Types PROVE IsSeq(families'[U])
    OBVIOUS
  <2>1. Len(families[T]) \in Nat /\ DOMAIN families[T] = 1..Len(families[T])
    BY <1>1, SeqIs
  <2>2. CASE U = T
    <3> DEFINE s == [families[T] EXCEPT ![i] = g]
    <3>1. s = [k \in 1..Len(families[T]) |-> s[k]]
      BY <2>1
    <3> HIDE DEF s
    <3>2. IsSeq(s)
      BY <2>1, <3>1, FunctionIsSeq
    <3> QED BY <1>4, <2>2, <3>2 DEF s
  <2>3. CASE U # T
    BY <1>1, <1>4, <2>3
  <2> QED BY <2>2, <2>3
<1>7. \A U \in Types : \A j \in DOMAIN families'[U] : Good(U, families'[U][j])
  BY <1>1, <1>5
<1>8. \A U \in Types : \A j \in DOMAIN families'[U] : families'[U][j].name = families[U][j].name
  BY <1>5
<1>9. \A U, V \in Types : \A j \in DOMAIN families'[U], k \in DOMAIN families'[V] :
        families'[U][j].name = families'[V][k].name => U = V /\ j = k
  BY <1>1, <1>5, <1>8
<1>10. Each'
  BY <1>3, <1>6, <1>7, <1>9 DEF Each, Good
<1> QED BY <1>10, ByFamily, PTL

\* Append, and removing an element.
LEMMA Appended ==
  ASSUME NEW s, IsSeq(s), NEW e
  PROVE  /\ IsSeq(Append(s, e)) /\ DOMAIN Append(s, e) = 1..(Len(s) + 1)
         /\ \A k \in 1..(Len(s) + 1) : Append(s, e)[k] = IF k = Len(s) + 1 THEN e ELSE s[k]
<1> DEFINE S == Range(s) \cup {e}
<1>1. s \in Seq(S) /\ e \in S
  BY SeqIs DEF Range
<1> HIDE DEF S
<1>2. /\ Append(s, e) \in Seq(S) /\ Len(Append(s, e)) = Len(s) + 1
      /\ \A k \in 1..(Len(s) + 1) : Append(s, e)[k] = IF k = Len(s) + 1 THEN e ELSE s[k]
  BY <1>1
<1> QED BY <1>2, SeqIs

LEMMA Removed ==
  ASSUME NEW s, IsSeq(s), NEW i \in DOMAIN s
  PROVE  /\ IsSeq(RemoveAt(s, i)) /\ DOMAIN RemoveAt(s, i) = 1..(Len(s) - 1)
         /\ \A k \in 1..(Len(s) - 1) :
              /\ RemoveAt(s, i)[k] = s[IF k < i THEN k ELSE k + 1]
              /\ (IF k < i THEN k ELSE k + 1) \in DOMAIN s
<1> DEFINE a == SubSeq(s, 1, i - 1)
           b == SubSeq(s, i + 1, Len(s))
           S == Range(s)
<1>1. s \in Seq(S) /\ Len(s) \in Nat /\ i \in 1..Len(s) /\ DOMAIN s = 1..Len(s)
  BY SeqIs DEF IsSeq
<1>2. i \in Nat /\ i >= 1 /\ i <= Len(s)
  BY <1>1
<1>3. a \in Seq(S) /\ Len(a) = i - 1 /\ \A k \in 1..(i - 1) : a[k] = s[k]
  <2>1. i - 1 \in Nat /\ i - 1 <= Len(s) /\ 1..(i - 1) \subseteq 1..Len(s)
    BY <1>1, <1>2
  <2> QED BY <1>1, <1>2, <2>1
<1>4. b \in Seq(S) /\ Len(b) = Len(s) - i /\ \A k \in 1..(Len(s) - i) : b[k] = s[i + k]
  BY <1>1, <1>2
<1>5. RemoveAt(s, i) = a \o b
  BY DEF RemoveAt
<1> HIDE DEF a, b
<1>6. IsSeq(a) /\ IsSeq(b)
  BY <1>3, <1>4, SeqIs
<1>7. /\ IsSeq(a \o b) /\ Len(a \o b) = Len(s) - 1
      /\ \A k \in 1..(Len(s) - 1) : (a \o b)[k] = IF k <= i - 1 THEN a[k] ELSE b[k - (i - 1)]
  <2>1. /\ IsSeq(a \o b) /\ Len(a \o b) = Len(a) + Len(b)
        /\ \A k \in 1..(Len(a) + Len(b)) :
             (a \o b)[k] = IF k <= Len(a) THEN a[k] ELSE b[k - Len(a)]
    BY ONLY <1>6, Joined
  <2>2. Len(a) = i - 1 /\ Len(a) + Len(b) = Len(s) - 1
    BY <1>1, <1>2, <1>3, <1>4
  <2> QED BY ONLY <2>1, <2>2
<1>8. DOMAIN (a \o b) = 1..(Len(s) - 1)
  BY <1>7, SeqIs
<1>9. ASSUME NEW k \in 1..(Len(s) - 1)
      PROVE  /\ (a \o b)[k] = s[IF k < i THEN k ELSE k + 1]
             /\ (IF k < i THEN k ELSE k + 1) \in 1..Len(s)
  <2>1. CASE k < i
    <3>1. k \in 1..(i - 1) /\ k <= i - 1
      BY <1>1, <1>2, <2>1
    <3> QED BY <1>1, <1>3, <1>7, <2>1, <3>1
  <2>2. CASE ~(k < i)
    <3>1. k - (i - 1) \in 1..(Len(s) - i) /\ ~(k <= i - 1) /\ i + (k - (i - 1)) = k + 1
      BY <1>1, <1>2, <2>2
    <3>2. (a \o b)[k] = b[k - (i - 1)]
      BY ONLY <1>7, <1>9, <3>1
    <3>3. b[k - (i - 1)] = s[k + 1]
      BY ONLY <1>4, <3>1
    <3>4. k + 1 \in 1..Len(s)
      BY ONLY <1>1, <1>9
    <3> QED BY ONLY <2>2, <3>2, <3>3, <3>4
  <2> QED BY <2>1, <2>2
<1> QED BY <1>1, <1>5, <1>7, <1>8, <1>9

\* The steps of the registry.
LEMMA RegisterStep ==
  ASSUME IInv, NEW T \in Types, NEW b \in Builders, Register(T, b)
  PROVE  IInv'
<1> DEFINE g == [name |-> b.name, help |-> b.help, constant_labels |-> b.labels, metrics |-> << >>]
           N == Len(families[T])
<1>1. Each
  BY ByFamily
<1>2. families' = [U \in Types |-> IF U = T THEN Append(families[T], g) ELSE families[U]]
  BY <1>1 DEF Register, Each
<1>3. N \in Nat /\ DOMAIN families[T] = 1..N
  BY <1>1, SeqIs DEF Each
<1>4. /\ IsSeq(families'[T]) /\ DOMAIN families'[T] = 1..(N + 1)
      /\ \A k \in 1..(N + 1) : families'[T][k] = IF k = N + 1 THEN g ELSE families[T][k]
  <2>1. families'[T] = Append(families[T], g)
    BY <1>2
  <2> HIDE DEF g
  <2>2. IsSeq(families[T])
    BY <1>1 DEF Each
  <2> QED BY <2>1, <2>2, Appended
<1>5. \A U \in Types : U # T => families'[U] = families[U]
  BY <1>2
<1>6. Good(T, g)
  <2>1. /\ b.name \in Names \cup {<< >>} /\ b.help \in Helps /\ b.labels \in LabelSets \cup {<< >>}
    BY DEF Builders
  <2>2. IsSeq(b.name)
    BY <2>1, Tuples, ArgumentsAssumption
  <2>3. /\ DOMAIN << >> = {} /\ IsFiniteSet({})
        /\ << >> = [l \in DOMAIN << >> |-> << >>[l]]
    BY FS_EmptySet
  <2>4. IsFamily(T, g)
    BY <2>1, <2>2, <2>3 DEF IsFamily
  <2>5. LabelsChecked(T, g)
    BY <2>3 DEF LabelsChecked, Register, Constructible
  <2> QED BY <2>4, <2>5 DEF Good
<1>7. \A U \in Types : \A i \in DOMAIN families[U] : families[U][i].name # g.name
  <2>1. \A U \in Types : \A i \in DOMAIN families[U] : <<U, i>> \in All
    BY DEF All
  <2>2. \A x \in All : families[x[1]][x[2]].name # b.name
    BY DEF Register, SameName
  <2>3. ASSUME NEW U \in Types, NEW i \in DOMAIN families[U]
        PROVE  families[U][i].name # g.name
    <3>1. families[<<U, i>>[1]][<<U, i>>[2]].name # b.name
      BY <2>1, <2>2
    <3> QED BY <3>1
  <2> QED BY <2>3
<1> HIDE DEF g
<1>8. \A U \in Types : \A i \in DOMAIN families'[U] :
        \/ i \in DOMAIN families[U] /\ families'[U][i] = families[U][i]
        \/ U = T /\ i = N + 1 /\ families'[U][i] = g
  <2>1. \A k \in 1..(N + 1) : k # N + 1 => k \in 1..N
    BY <1>3
  <2> QED BY <1>3, <1>4, <1>5, <2>1
<1>9. families' = [U \in Types |-> families'[U]]
  BY <1>2
<1>10. \A U \in Types : IsSeq(families'[U])
  BY <1>1, <1>4, <1>5 DEF Each
<1>11. \A U \in Types : \A i \in DOMAIN families'[U] : Good(U, families'[U][i])
  BY <1>1, <1>6, <1>8 DEF Each
<1>12. \A U, V \in Types : \A i \in DOMAIN families'[U], j \in DOMAIN families'[V] :
         families'[U][i].name = families'[V][j].name => U = V /\ i = j
  BY <1>1, <1>7, <1>8 DEF Each
<1>13. Each'
  BY <1>9, <1>10, <1>11, <1>12 DEF Each, Good
<1> QED BY <1>13, ByFamily, PTL

LEMMA RemoveFamilyStep ==
  ASSUME IInv, NEW T \in Types, RemoveFamily(T)
  PROVE  IInv'
<1>1. Each
  BY ByFamily
<1>2. PICK r \in DOMAIN families[T] : families' = [families EXCEPT ![T] = RemoveAt(@, r)]
  BY DEF RemoveFamily
<1> DEFINE N == Len(families[T])
           Old(U, k) == IF U = T /\ ~(k < r) THEN k + 1 ELSE k
<1>3. families' = [U \in Types |-> IF U = T THEN RemoveAt(families[T], r) ELSE families[U]]
  BY <1>1, <1>2 DEF Each
<1>4. N \in Nat /\ DOMAIN families[T] = 1..N /\ r \in Nat
  BY <1>1, SeqIs DEF Each
<1>5. /\ IsSeq(families'[T]) /\ DOMAIN families'[T] = 1..(N - 1)
      /\ \A k \in 1..(N - 1) : /\ families'[T][k] = families[T][Old(T, k)]
                               /\ Old(T, k) \in DOMAIN families[T]
  <2>1. families'[T] = RemoveAt(families[T], r)
    BY <1>3
  <2>2. IsSeq(families[T])
    BY <1>1 DEF Each
  <2>3. /\ IsSeq(RemoveAt(families[T], r)) /\ DOMAIN RemoveAt(families[T], r) = 1..(N - 1)
        /\ \A k \in 1..(N - 1) :
              /\ RemoveAt(families[T], r)[k] = families[T][IF k < r THEN k ELSE k + 1]
              /\ (IF k < r THEN k ELSE k + 1) \in DOMAIN families[T]
    BY <2>2, Removed
  <2> QED BY <2>1, <2>3
<1>6. \A U \in Types : U # T => families'[U] = families[U]
  BY <1>3
<1>7. \A U \in Types : \A k \in DOMAIN families'[U] :
        /\ Old(U, k) \in DOMAIN families[U] /\ families'[U][k] = families[U][Old(U, k)]
  BY <1>5, <1>6
<1>8. \A U \in Types : \A j, k \in DOMAIN families'[U] : Old(U, j) = Old(U, k) => j = k
  BY <1>4, <1>5
<1> HIDE DEF Old
<1>9. families' = [U \in Types |-> families'[U]]
  BY <1>3
<1>10. \A U \in Types : IsSeq(families'[U])
  BY <1>1, <1>5, <1>6 DEF Each
<1>11. \A U \in Types : \A i \in DOMAIN families'[U] : Good(U, families'[U][i])
  BY <1>1, <1>7 DEF Each
<1>12. ASSUME NEW U \in Types, NEW V \in Types, NEW i \in DOMAIN families'[U],
              NEW j \in DOMAIN families'[V], families'[U][i].name = families'[V][j].name
       PROVE  U = V /\ i = j
  <2>1. U = V /\ Old(U, i) = Old(V, j)
    BY <1>1, <1>7, <1>12 DEF Each
  <2> QED BY <1>8, <2>1
<1>13. Each'
  BY <1>9, <1>10, <1>11, <1>12 DEF Each, Good
<1> QED BY <1>13, ByFamily, PTL

\* The steps of a family: its metrics change.
LEMMA MetricsStep ==
  ASSUME IInv, NEW T \in Types, NEW i \in DOMAIN families[T], NEW M,
         families' = [families EXCEPT ![T][i].metrics = M],
         M = [l \in DOMAIN M |-> M[l]], IsFiniteSet(DOMAIN M), DOMAIN M \subseteq LabelSets,
         \A l \in DOMAIN M : IsMetric(T, M[l]) /\ Accepted(T, families[T][i], l)
  PROVE  IInv'
<1> DEFINE f == families[T][i]
           g == [f EXCEPT !.metrics = M]
<1>1. Good(T, f)
  BY ByFamily DEF Each
<1>2. /\ f = [name |-> f.name, help |-> f.help, constant_labels |-> f.constant_labels,
              metrics |-> f.metrics]
  BY <1>1 DEF Good, IsFamily
<1> HIDE DEF f
<1>3. g = [name |-> f.name, help |-> f.help, constant_labels |-> f.constant_labels, metrics |-> M]
  BY <1>2
<1> HIDE DEF g
<1>4. /\ g.name = f.name /\ g.help = f.help /\ g.constant_labels = f.constant_labels
      /\ g.metrics = M
  BY <1>3
<1>5. IsFamily(T, g)
  BY <1>1, <1>3, <1>4 DEF Good, IsFamily
<1>6. LabelsChecked(T, g)
  <2>1. \A l : Accepted(T, g, l) <=> Accepted(T, f, l)
    BY <1>4 DEF Accepted
  <2> QED BY <1>1, <1>4, <2>1 DEF Good, LabelsChecked, f
<1>7. families' = [families EXCEPT ![T][i] = g]
  BY DEF g, f
<1> QED BY <1>4, <1>5, <1>6, <1>7, ReplaceStep DEF Good, f

LEMMA AddMetricStep ==
  ASSUME IInv, NEW T \in Types, NEW i \in DOMAIN families[T], NEW l \in LabelSets,
         NEW arg \in Arguments(T), AddMetric(T, i, l, arg)
  PROVE  IInv'
<1> DEFINE f == families[T][i]
           M == [k \in DOMAIN f.metrics \cup {l} |-> IF k = l THEN New(T, arg) ELSE f.metrics[k]]
<1>1. Good(T, f)
  BY ByFamily DEF Each
<1>2. families' = [families EXCEPT ![T][i].metrics = M]
  BY DEF AddMetric, SetMetric
<1>3. IsMetric(T, New(T, arg))
  <2>1. CASE T = "Histogram"
    <3>1. IsSeq(arg)
      BY <2>1, ArgumentsAssumption
    <3>2. Len(arg) \in Nat
      BY <3>1, SeqIs
    <3>3. New(T, arg) = [boundaries |-> arg, counts |-> [k \in 1..Len(arg) + 1 |-> 0], sum |-> 0]
      BY <2>1 DEF New
    <3> QED BY <2>1, <3>1, <3>2, <3>3 DEF IsMetric
  <2>2. CASE T = "Summary"
    <3>1. IsSeq(arg)
      BY <2>2, ArgumentsAssumption
    <3>2. New(T, arg) = [quantiles |-> arg, count |-> 0, sum |-> 0]
      BY <2>2 DEF New
    <3> QED BY <2>2, <3>1, <3>2 DEF IsMetric
  <2>3. CASE T \notin {"Histogram", "Summary"}
    BY <2>3 DEF IsMetric
  <2> QED BY <2>1, <2>2, <2>3
<1>4. Accepted(T, f, l)
  BY DEF AddMetric
<1>5. IsFiniteSet(DOMAIN f.metrics \cup {l})
  BY <1>1, FS_AddElement DEF Good, IsFamily
<1>6. DOMAIN M = DOMAIN f.metrics \cup {l} /\ M = [k \in DOMAIN M |-> M[k]]
  OBVIOUS
<1>7. \A k \in DOMAIN M : M[k] = IF k = l THEN New(T, arg) ELSE f.metrics[k]
  OBVIOUS
<1> HIDE DEF M
<1>8. DOMAIN M \subseteq LabelSets
  BY <1>1, <1>6 DEF Good, IsFamily
<1>9. \A k \in DOMAIN M : IsMetric(T, M[k]) /\ Accepted(T, f, k)
  BY <1>1, <1>3, <1>4, <1>6, <1>7 DEF Good, IsFamily, LabelsChecked
<1> QED BY <1>2, <1>5, <1>6, <1>8, <1>9, MetricsStep

LEMMA RemoveMetricStep ==
  ASSUME IInv, NEW T \in Types, NEW i \in DOMAIN families[T], RemoveMetric(T, i)
  PROVE  IInv'
<1> DEFINE f == families[T][i]
<1>1. Good(T, f)
  BY ByFamily DEF Each
<1>2. PICK r \in DOMAIN f.metrics :
        families' = [families EXCEPT ![T][i].metrics = [l \in DOMAIN @ \ {r} |-> @[l]]]
  BY DEF RemoveMetric
<1> DEFINE M == [l \in DOMAIN f.metrics \ {r} |-> f.metrics[l]]
<1>3. families' = [families EXCEPT ![T][i].metrics = M]
  BY <1>2
<1>4. IsFiniteSet(DOMAIN f.metrics \ {r})
  BY <1>1, FS_RemoveElement DEF Good, IsFamily
<1>5. DOMAIN M = DOMAIN f.metrics \ {r} /\ M = [k \in DOMAIN M |-> M[k]]
  OBVIOUS
<1>6. \A k \in DOMAIN M : M[k] = f.metrics[k]
  OBVIOUS
<1> HIDE DEF M
<1>7. DOMAIN M \subseteq LabelSets
  BY <1>1, <1>5 DEF Good, IsFamily
<1>8. \A k \in DOMAIN M : IsMetric(T, M[k]) /\ Accepted(T, f, k)
  BY <1>1, <1>5, <1>6 DEF Good, IsFamily, LabelsChecked
<1>9. IsFiniteSet(DOMAIN M)
  BY <1>4, <1>5
<1> QED BY <1>3, <1>5, <1>7, <1>8, <1>9, MetricsStep

\* std::lower_bound answers a place among the buckets.
LEMMA BucketInRange ==
  ASSUME NEW m, IsSeq(m.boundaries), NEW v
  PROVE  BucketIndex(m, v) \in 1..(Len(m.boundaries) + 1)
<1> DEFINE N == Len(m.boundaries)
           S == {k \in DOMAIN m.boundaries : Less(m.boundaries[k], v)}
<1>1. N \in Nat /\ DOMAIN m.boundaries = 1..N
  BY SeqIs
<1>2. IsFiniteSet(1..N) /\ Cardinality(1..N) = N
  <2>1. 1 \in Int /\ N \in Int
    BY <1>1
  <2>2. /\ IsFiniteSet(1..N)
        /\ Cardinality(1..N) = IF 1 > N THEN 0 ELSE N-1+1
    BY <2>1, FS_Interval
  <2> QED BY <1>1, <2>2
<1>3. S \in SUBSET (1..N)
  BY <1>1
<1> HIDE DEF S
<1>4. IsFiniteSet(S) /\ Cardinality(S) <= N
  BY <1>2, <1>3, FS_Subset
<1>5. Cardinality(S) \in Nat
  BY <1>4, FS_CardinalityType
<1> HIDE DEF N
<1>6. 1 + Cardinality(S) \in 1..(N + 1)
  BY <1>1, <1>4, <1>5
<1> QED BY <1>6 DEF BucketIndex, S, N

LEMMA UpdateStep ==
  ASSUME IInv, NEW T \in Types, NEW i \in DOMAIN families[T], Update(T, i)
  PROVE  IInv'
<1> DEFINE f == families[T][i]
<1>1. Good(T, f)
  BY ByFamily DEF Each
<1>2. PICK l \in DOMAIN f.metrics, v \in Values : SetMetric(T, i, l, Updated(T, f.metrics[l], v))
  BY DEF Update
<1> DEFINE m == f.metrics[l]
           u == Updated(T, m, v)
           M == [k \in DOMAIN f.metrics \cup {l} |-> IF k = l THEN u ELSE f.metrics[k]]
<1>3. families' = [families EXCEPT ![T][i].metrics = M]
  BY <1>2 DEF SetMetric
<1>4. IsMetric(T, m)
  BY <1>1 DEF Good, IsFamily
<1>5. IsMetric(T, u)
  <2> HIDE DEF m, f
  <2>1. CASE T = "Histogram"
    <3> DEFINE b == BucketIndex(m, v)
    <3>1. /\ m = [boundaries |-> m.boundaries, counts |-> m.counts, sum |-> m.sum]
          /\ IsSeq(m.boundaries)
          /\ m.counts \in [1..(Len(m.boundaries) + 1) -> Nat]
      BY <1>4, <2>1 DEF IsMetric
    <3>2. b \in 1..(Len(m.boundaries) + 1)
      BY <3>1, BucketInRange
    <3>3. u = [m EXCEPT !.counts[b] = @ + 1, !.sum = @ + v]
      BY <2>1 DEF Updated
    <3> HIDE DEF b, u
    <3> DEFINE c == [m.counts EXCEPT ![b] = @ + 1]
    <3>4. u = [boundaries |-> m.boundaries, counts |-> c, sum |-> m.sum + v]
      BY <3>1, <3>3
    <3>5. c \in [1..(Len(m.boundaries) + 1) -> Nat]
      BY <3>1, <3>2
    <3> HIDE DEF c
    <3>6. /\ u = [boundaries |-> u.boundaries, counts |-> u.counts, sum |-> u.sum]
          /\ u.boundaries = m.boundaries /\ u.counts = c
      BY <3>4
    <3> QED BY <2>1, <3>1, <3>5, <3>6 DEF IsMetric
  <2>2. CASE T = "Summary"
    <3>1. /\ m = [quantiles |-> m.quantiles, count |-> m.count, sum |-> m.sum]
          /\ IsSeq(m.quantiles)
      BY <1>4, <2>2 DEF IsMetric
    <3>2. u = [m EXCEPT !.count = @ + 1, !.sum = @ + v]
      BY <2>2 DEF Updated
    <3> HIDE DEF u
    <3>3. u = [quantiles |-> m.quantiles, count |-> m.count + 1, sum |-> m.sum + v]
      BY <3>1, <3>2
    <3>4. u = [quantiles |-> u.quantiles, count |-> u.count, sum |-> u.sum] /\ u.quantiles = m.quantiles
      BY <3>3
    <3> QED BY <2>2, <3>1, <3>4 DEF IsMetric
  <2>3. CASE T \notin {"Histogram", "Summary"}
    BY <2>3 DEF IsMetric
  <2> QED BY <2>1, <2>2, <2>3
<1>6. DOMAIN M = DOMAIN f.metrics /\ M = [k \in DOMAIN M |-> M[k]]
  OBVIOUS
<1>7. \A k \in DOMAIN M : M[k] = IF k = l THEN u ELSE f.metrics[k]
  OBVIOUS
<1> HIDE DEF M, u
<1>8. IsFiniteSet(DOMAIN M) /\ DOMAIN M \subseteq LabelSets
  BY <1>1, <1>6 DEF Good, IsFamily
<1>9. \A k \in DOMAIN M : IsMetric(T, M[k]) /\ Accepted(T, f, k)
  BY <1>1, <1>5, <1>6, <1>7 DEF Good, IsFamily, LabelsChecked
<1> QED BY <1>3, <1>6, <1>8, <1>9, MetricsStep

LEMMA ExpositionInductive == IInv /\ [Next]_families => IInv'
<1> SUFFICES ASSUME IInv, [Next]_families PROVE IInv'
  OBVIOUS
<1>1. CASE UNCHANGED families
  <2>1. Each'
    BY <1>1, ByFamily DEF Each
  <2> QED BY <2>1, ByFamily, PTL
<1>2. CASE \E T \in Types, b \in Builders : Register(T, b)
  BY <1>2, RegisterStep
<1>3. CASE \E T \in Types : RemoveFamily(T)
  BY <1>3, RemoveFamilyStep
<1>4. CASE \E T \in Types : \E i \in DOMAIN families[T] :
             \/ \E l \in LabelSets, arg \in Arguments(T) : AddMetric(T, i, l, arg)
             \/ RemoveMetric(T, i) \/ Update(T, i)
  BY <1>4, AddMetricStep, RemoveMetricStep, UpdateStep
<1> QED BY <1>1, <1>2, <1>3, <1>4 DEF Next

\* The inductive invariant of the composition: whatever is registered, added, updated
\* and removed, names are different and labels have been checked (registry.cc:131-210,
\* family.cc:18-70).
THEOREM ExpositionInvariance == Spec => []IInv
BY ExpositionInitial, ExpositionInductive, PTL DEF Spec

-----------------------------------------------------------------------------
(* Exposition: where the lines of a text come from                          *)

\* at tells which element of which sequence each element of flat is.
Places(at, seqs, flat) ==
  /\ \A n \in DOMAIN flat : /\ at[n][1] \in DOMAIN seqs
                            /\ at[n][2] \in DOMAIN seqs[at[n][1]]
                            /\ flat[n] = seqs[at[n][1]][at[n][2]]
  /\ \A n, k \in DOMAIN flat : at[n][1] = at[k][1] /\ at[n][2] = at[k][2] => n = k

LEMMA Placing ==
  ASSUME NEW seqs, IsSeq(seqs), \A i \in DOMAIN seqs : IsSeq(seqs[i])
  PROVE  IsSeq(FlattenSeq(seqs)) /\ \E at : Places(at, seqs, FlattenSeq(seqs))
<1> DEFINE N == Len(seqs)
<1>1. N \in Nat /\ DOMAIN seqs = 1..N
  BY SeqIs
<1>2. CASE N = 0
  <2>1. FlattenSeq(seqs) = seqs /\ DOMAIN seqs = {}
    BY <1>1, <1>2 DEF FlattenSeq
  <2> QED BY <2>1 DEF Places
<1>3. CASE N # 0
  <2>1. PICK F : Rows(F, N, seqs) /\ FlattenSeq(seqs) = F[N]
    BY <1>1, <1>3, FlattenIs
  <2>2. \A i \in 1..N : F[i] = IF i = 1 THEN seqs[i] ELSE F[i - 1] \o seqs[i]
    BY <2>1 DEF Rows
  <2> DEFINE P(i, at) == /\ Places(at, seqs, F[i])
                         /\ \A n \in DOMAIN F[i] : at[n][1] \in 1..i
             Q(i) == IsSeq(F[i]) /\ \E at : P(i, at)
             S == {i \in Nat : i \in 1..N => Q(i)}
  <2>3. Q(1)
    <3>1. F[1] = seqs[1] /\ IsSeq(seqs[1]) /\ 1 \in 1..1 /\ 1 \in DOMAIN seqs
      BY <1>1, <1>3, <2>2
    <3> DEFINE at == [n \in DOMAIN seqs[1] |-> <<1, n>>]
    <3>2. \A n \in DOMAIN seqs[1] : at[n][1] = 1 /\ at[n][2] = n
      OBVIOUS
    <3> HIDE DEF at
    <3>3. P(1, at)
      BY <3>1, <3>2 DEF Places
    <3> QED BY <3>1, <3>3
  <2>4. ASSUME NEW i \in 1..N, i + 1 \in 1..N, Q(i)
        PROVE  Q(i + 1)
    <3>1. F[i + 1] = F[i] \o seqs[i + 1] /\ IsSeq(seqs[i + 1]) /\ IsSeq(F[i])
      <4>1. i + 1 # 1 /\ (i + 1) - 1 = i
        OBVIOUS
      <4> QED BY <1>1, <2>2, <2>4, <4>1
    <3>2. PICK at : P(i, at)
      BY <2>4
    <3> DEFINE a == F[i]
               b == seqs[i + 1]
               c == F[i + 1]
               to == [n \in DOMAIN c |-> IF n <= Len(a) THEN at[n] ELSE <<i + 1, n - Len(a)>>]
    <3>3. /\ IsSeq(c) /\ Len(c) = Len(a) + Len(b)
          /\ \A k \in 1..(Len(a) + Len(b)) : c[k] = IF k <= Len(a) THEN a[k] ELSE b[k - Len(a)]
      <4>1. IsSeq(a) /\ IsSeq(b) /\ c = a \o b
        BY <3>1
      <4> HIDE DEF a, b, c
      <4>2. /\ IsSeq(a \o b) /\ Len(a \o b) = Len(a) + Len(b)
            /\ \A k \in 1..(Len(a) + Len(b)) :
                 (a \o b)[k] = IF k <= Len(a) THEN a[k] ELSE b[k - Len(a)]
        BY ONLY <4>1, Joined
      <4> QED BY ONLY <4>1, <4>2
    <3>4. /\ Len(a) \in Nat /\ Len(b) \in Nat /\ DOMAIN a = 1..Len(a) /\ DOMAIN b = 1..Len(b)
          /\ DOMAIN c = 1..(Len(a) + Len(b))
      BY <3>1, <3>3, SeqIs
    <3>5. \A n \in DOMAIN c : /\ n <= Len(a) => n \in DOMAIN a
                              /\ ~(n <= Len(a)) => n - Len(a) \in DOMAIN b
      <4> HIDE DEF a, b, c
      <4> QED BY ONLY <3>4
    <3>6. /\ \A n \in DOMAIN a : /\ at[n][1] \in DOMAIN seqs /\ at[n][1] \in 1..i
                                 /\ at[n][2] \in DOMAIN seqs[at[n][1]]
                                 /\ a[n] = seqs[at[n][1]][at[n][2]]
          /\ \A n, k \in DOMAIN a : at[n][1] = at[k][1] /\ at[n][2] = at[k][2] => n = k
      BY <3>2 DEF Places
    <3>7. \A n \in DOMAIN c : /\ n <= Len(a) => to[n][1] = at[n][1] /\ to[n][2] = at[n][2]
                              /\ ~(n <= Len(a)) => to[n][1] = i + 1 /\ to[n][2] = n - Len(a)
      OBVIOUS
    <3> HIDE DEF a, c, to
    <3>8. \A n \in DOMAIN c : n <= Len(a) =>
            /\ to[n][1] \in DOMAIN seqs /\ to[n][1] \in 1..i /\ to[n][2] \in DOMAIN seqs[to[n][1]]
            /\ c[n] = seqs[to[n][1]][to[n][2]]
      BY <3>3, <3>4, <3>5, <3>6, <3>7
    <3>9. \A n \in DOMAIN c : ~(n <= Len(a)) =>
            /\ to[n][1] = i + 1 /\ to[n][2] = n - Len(a) /\ to[n][2] \in DOMAIN seqs[to[n][1]]
            /\ c[n] = seqs[to[n][1]][to[n][2]]
      BY <3>3, <3>4, <3>5, <3>7
    <3>10. i + 1 \in DOMAIN seqs /\ i + 1 \notin 1..i /\ i + 1 \in 1..(i + 1)
           /\ \A k \in 1..i : k \in 1..(i + 1)
      BY <1>1, <2>4
    <3>11. ASSUME NEW n \in DOMAIN c, NEW k \in DOMAIN c, to[n][1] = to[k][1], to[n][2] = to[k][2]
           PROVE  n = k
      <4>1. CASE n <= Len(a) /\ k <= Len(a)
        BY <3>5, <3>6, <3>7, <3>11, <4>1
      <4>2. CASE ~(n <= Len(a)) /\ ~(k <= Len(a))
        <5>1. n - Len(a) = k - Len(a)
          BY <3>9, <3>11, <4>2
        <5> QED BY <3>4, <5>1
      <4>3. CASE n <= Len(a) /\ ~(k <= Len(a))
        BY <3>8, <3>9, <3>10, <3>11, <4>3
      <4>4. CASE ~(n <= Len(a)) /\ k <= Len(a)
        BY <3>8, <3>9, <3>10, <3>11, <4>4
      <4> QED BY <4>1, <4>2, <4>3, <4>4
    <3>12. Places(to, seqs, c)
      BY <3>8, <3>9, <3>10, <3>11 DEF Places
    <3>13. \A n \in DOMAIN c : to[n][1] \in 1..(i + 1)
      BY <3>8, <3>9, <3>10
    <3>14. P(i + 1, to)
      BY <3>12, <3>13 DEF c
    <3> QED BY <3>3, <3>14 DEF c
  <2> HIDE DEF Q
  <2>5. ASSUME NEW i \in Nat, i \in S, i + 1 \in 1..N
        PROVE  Q(i + 1)
    <3>1. CASE i = 0
      BY <2>3, <3>1
    <3>2. CASE i # 0
      <4>1. i \in 1..N
        BY <1>1, <2>5, <3>2
      <4>2. Q(i)
        BY <2>5, <4>1
      <4> QED BY <2>4, <2>5, <4>1, <4>2
    <3> QED BY <3>1, <3>2
  <2>6. 0 \in S
    BY <1>1
  <2>7. \A i \in Nat : i \in S => i + 1 \in S
    <3>1. \A i \in Nat : i \in S /\ i + 1 \in 1..N => Q(i + 1)
      <4> HIDE DEF S
      <4> QED BY <2>5
    <3>2. \A i \in Nat : i + 1 \in Nat
      OBVIOUS
    <3> QED BY ONLY <3>1, <3>2
  <2> HIDE DEF S
  <2>8. Nat \subseteq S
    BY <2>6, <2>7, Induction
  <2>9. Q(N)
    BY <1>1, <1>3, <2>8 DEF S
  <2> QED BY <1>1, <2>1, <2>9 DEF Q
<1> QED BY <1>2, <1>3

\* The elements of a finite set, each of them once.
LEMMA SetToSeqIs ==
  ASSUME NEW S, IsFiniteSet(S)
  PROVE  /\ IsSeq(SetToSeq(S))
         /\ \A k \in DOMAIN SetToSeq(S) : SetToSeq(S)[k] \in S
         /\ \A k, n \in DOMAIN SetToSeq(S) : SetToSeq(S)[k] = SetToSeq(S)[n] => k = n
         /\ \A x \in S : \E k \in DOMAIN SetToSeq(S) : SetToSeq(S)[k] = x
<1> DEFINE N == Cardinality(S)
           s == SetToSeq(S)
<1>1. N \in Nat /\ \E f : f \in Bijection(1..N, S)
  BY FS_CardinalityType DEF ExistsBijection
<1>2. \E f \in [1..N -> S] : IsInjective(f)
  BY <1>1 DEF Bijection, Injection
<1>3. s \in [1..N -> S] /\ IsInjective(s)
  BY <1>2 DEF SetToSeq
<1> HIDE DEF s
<1>4. s \in Injection(1..N, S)
  BY <1>3 DEF Injection
<1>5. Cardinality(1..N) = N
  <2>1. Cardinality(1..N) = IF 1 > N THEN 0 ELSE N - 1 + 1
    BY <1>1, FS_Interval
  <2> QED BY <1>1, <2>1
<1> HIDE DEF N
<1>6. s \in Surjection(1..N, S)
  <2>1. Cardinality(1..N) = Cardinality(S)
    BY <1>5 DEF N
  <2> QED BY <1>4, <2>1, FS_Injection
<1>7. IsSeq(s) /\ DOMAIN s = 1..N
  BY <1>1, <1>3, FunctionIsSeq
<1>8. \A x \in S : \E k \in 1..N : s[k] = x
  BY <1>6 DEF Surjection
<1> QED BY <1>3, <1>7, <1>8 DEF s, IsInjective

\* The pairs of a map.
LEMMA PairsIs ==
  ASSUME NEW l, IsFiniteSet(DOMAIN l)
  PROVE  /\ IsSeq(Pairs(l))
         /\ \A k \in DOMAIN Pairs(l) : /\ Pairs(l)[k][1] \in DOMAIN l
                                       /\ Pairs(l)[k] = <<Pairs(l)[k][1], l[Pairs(l)[k][1]]>>
         /\ \A k, n \in DOMAIN Pairs(l) : Pairs(l)[k][1] = Pairs(l)[n][1] => k = n
         /\ \A x \in DOMAIN l : \E k \in DOMAIN Pairs(l) : Pairs(l)[k] = <<x, l[x]>>
<1> DEFINE names == SetToSeq(DOMAIN l)
           p == Pairs(l)
<1>1. /\ IsSeq(names)
      /\ \A k \in DOMAIN names : names[k] \in DOMAIN l
      /\ \A k, n \in DOMAIN names : names[k] = names[n] => k = n
      /\ \A x \in DOMAIN l : \E k \in DOMAIN names : names[k] = x
  BY SetToSeqIs
<1>2. p = [k \in DOMAIN names |-> <<names[k], l[names[k]]>>]
  BY DEF Pairs
<1> HIDE DEF names, p
<1>3. Len(names) \in Nat /\ DOMAIN names = 1..Len(names)
  BY <1>1, SeqIs
<1>4. IsSeq(p)
  <2>1. p = [k \in 1..Len(names) |-> p[k]]
    BY <1>2, <1>3
  <2> QED BY <1>3, <2>1, FunctionIsSeq
<1>5. DOMAIN p = DOMAIN names
      /\ \A k \in DOMAIN names : p[k] = <<names[k], l[names[k]]>> /\ p[k][1] = names[k]
  BY <1>2
<1>6. /\ \A k \in DOMAIN p : p[k][1] \in DOMAIN l /\ p[k] = <<p[k][1], l[p[k][1]]>>
      /\ \A k, n \in DOMAIN p : p[k][1] = p[n][1] => k = n
      /\ \A x \in DOMAIN l : \E k \in DOMAIN p : p[k] = <<x, l[x]>>
  BY <1>1, <1>5
<1> QED BY <1>4, <1>6 DEF p

\* Family g of a scrape shows family f of type T.
Shown(g, T, f) ==
  LET order == SetToSeq(DOMAIN f.metrics)
  IN  g = [name |-> f.name, help |-> f.help, type |-> MetricType(T),
           metric |-> [k \in DOMAIN order |-> CollectMetric(T, f, order[k])]]

LEMMA CollectAllIs ==
  ASSUME IInv, NEW T \in Types
  PROVE  /\ IsSeq(CollectAll(T))
         /\ \A n \in DOMAIN CollectAll(T) :
              \E i \in DOMAIN families[T] : Shown(CollectAll(T)[n], T, families[T][i])
         /\ \A n, k \in DOMAIN CollectAll(T) :
              CollectAll(T)[n].name = CollectAll(T)[k].name => n = k
<1> DEFINE F == families[T]
           seqs == [i \in DOMAIN F |-> CollectFamily(T, F[i])]
           all == CollectAll(T)
<1>1. IsSeq(F) /\ \A i, j \in DOMAIN F : F[i].name = F[j].name => i = j
  BY ByFamily DEF Each
<1>2. Len(F) \in Nat /\ DOMAIN F = 1..Len(F)
  BY <1>1, SeqIs
<1>3. IsSeq(seqs)
  <2>1. seqs = [i \in 1..Len(F) |-> seqs[i]]
    BY <1>2
  <2> HIDE DEF seqs
  <2> QED BY <1>2, <2>1, FunctionIsSeq
<1>4. \A i \in DOMAIN F : /\ IsSeq(CollectFamily(T, F[i]))
                          /\ \A n \in DOMAIN CollectFamily(T, F[i]) :
                               n = 1 /\ Shown(CollectFamily(T, F[i])[n], T, F[i])
  <2> SUFFICES ASSUME NEW i \in DOMAIN F
               PROVE  /\ IsSeq(CollectFamily(T, F[i]))
                      /\ \A n \in DOMAIN CollectFamily(T, F[i]) :
                           n = 1 /\ Shown(CollectFamily(T, F[i])[n], T, F[i])
    OBVIOUS
  <2> DEFINE order == SetToSeq(DOMAIN F[i].metrics)
             g == [name |-> F[i].name, help |-> F[i].help, type |-> MetricType(T),
                   metric |-> [k \in DOMAIN order |-> CollectMetric(T, F[i], order[k])]]
  <2>1. CollectFamily(T, F[i]) = IF order = << >> THEN << >> ELSE <<g>>
    BY DEF CollectFamily
  <2>2. Shown(g, T, F[i])
    BY DEF Shown
  <2> HIDE DEF g, order
  <2>3. /\ IsSeq(<< >>) /\ DOMAIN << >> = {}
        /\ IsSeq(<<g>>) /\ DOMAIN <<g>> = {1} /\ <<g>>[1] = g
    BY DEF IsSeq, Range
  <2> QED BY <2>1, <2>2, <2>3
<1>5. DOMAIN seqs = DOMAIN F /\ \A i \in DOMAIN F : seqs[i] = CollectFamily(T, F[i])
  OBVIOUS
<1>6. all = FlattenSeq(seqs)
  BY DEF CollectAll
<1> HIDE DEF F, seqs, all
<1>7. IsSeq(all) /\ \E at : Places(at, seqs, all)
  BY <1>3, <1>4, <1>5, <1>6, Placing
<1>8. PICK at : Places(at, seqs, all)
  BY <1>7
<1>9. \A n \in DOMAIN all : /\ at[n][1] \in DOMAIN F /\ at[n][2] = 1
                            /\ Shown(all[n], T, F[at[n][1]])
  BY <1>4, <1>5, <1>8 DEF Places
<1>10. \A n \in DOMAIN all : all[n].name = F[at[n][1]].name
  BY <1>9 DEF Shown
<1>11. \A n, k \in DOMAIN all : all[n].name = all[k].name => n = k
  BY <1>1, <1>8, <1>9, <1>10 DEF Places
<1> QED BY <1>7, <1>9, <1>11 DEF all, F

\* Each family of a scrape shows one of the registry, and has a name of its own.
LEMMA CollectIs ==
  ASSUME IInv
  PROVE  /\ IsSeq(Collect)
         /\ \A p \in DOMAIN Collect : \E T \in Types : \E i \in DOMAIN families[T] :
              Shown(Collect[p], T, families[T][i])
         /\ \A p, q \in DOMAIN Collect : Collect[p].name = Collect[q].name => p = q
<1> DEFINE seqs == [k \in DOMAIN TypeOrder |-> CollectAll(TypeOrder[k])]
           all == Collect
<1>1. /\ IsSeq(TypeOrder) /\ \A k \in DOMAIN TypeOrder : TypeOrder[k] \in Types
      /\ \A k, n \in DOMAIN TypeOrder : TypeOrder[k] = TypeOrder[n] => k = n
  BY TypesAssumption DEF Types, Range, IsInjective
<1>2. Len(TypeOrder) \in Nat /\ DOMAIN TypeOrder = 1..Len(TypeOrder)
  BY <1>1, SeqIs
<1>3. IsSeq(seqs)
  <2>1. seqs = [k \in 1..Len(TypeOrder) |-> seqs[k]]
    BY <1>2
  <2> HIDE DEF seqs
  <2> QED BY <1>2, <2>1, FunctionIsSeq
<1>4. DOMAIN seqs = DOMAIN TypeOrder /\ \A k \in DOMAIN TypeOrder : seqs[k] = CollectAll(TypeOrder[k])
  OBVIOUS
<1>5. all = FlattenSeq(seqs)
  BY DEF Collect
<1>6. \A T \in Types :
        /\ IsSeq(CollectAll(T))
        /\ \A n \in DOMAIN CollectAll(T) :
             \E i \in DOMAIN families[T] : Shown(CollectAll(T)[n], T, families[T][i])
        /\ \A n, k \in DOMAIN CollectAll(T) :
             CollectAll(T)[n].name = CollectAll(T)[k].name => n = k
  BY CollectAllIs
<1> HIDE DEF seqs, all
<1>7. IsSeq(all) /\ \E at : Places(at, seqs, all)
  BY <1>1, <1>3, <1>4, <1>5, <1>6, Placing
<1>8. PICK at : Places(at, seqs, all)
  BY <1>7
<1> DEFINE T(n) == TypeOrder[at[n][1]]
<1>9. \A n \in DOMAIN all : /\ at[n][1] \in DOMAIN TypeOrder /\ T(n) \in Types
                            /\ at[n][2] \in DOMAIN CollectAll(T(n))
                            /\ all[n] = CollectAll(T(n))[at[n][2]]
  BY <1>1, <1>4, <1>8 DEF Places
<1>10. \A n \in DOMAIN all : \E i \in DOMAIN families[T(n)] : Shown(all[n], T(n), families[T(n)][i])
  BY <1>6, <1>9
<1>11. ASSUME NEW n \in DOMAIN all, NEW k \in DOMAIN all, all[n].name = all[k].name
       PROVE  n = k
  <2>1. PICK i \in DOMAIN families[T(n)] : Shown(all[n], T(n), families[T(n)][i])
    BY <1>10
  <2>2. PICK j \in DOMAIN families[T(k)] : Shown(all[k], T(k), families[T(k)][j])
    BY <1>10
  <2>3. families[T(n)][i].name = families[T(k)][j].name
    <3>1. \A g, U, f : Shown(g, U, f) => g.name = f.name
      BY DEF Shown
    <3> QED BY <1>11, <2>1, <2>2, <3>1
  <2>4. T(n) = T(k)
    BY <1>9, <2>3, ByFamily DEF Each
  <2>5. at[n][1] = at[k][1]
    BY <1>1, <1>9, <2>4
  <2>6. at[n][2] = at[k][2]
    BY <1>6, <1>9, <1>11, <2>4
  <2> QED BY <1>8, <2>5, <2>6 DEF Places
<1> QED BY <1>7, <1>9, <1>10, <1>11 DEF all

\* The lines of a family in a text: at most one of help, one that declares the
\* type, and those of the metrics, which are samples.
LEMMA FamilyText ==
  ASSUME NEW c, IsSeq(c.metric),
         \A k \in DOMAIN c.metric :
           /\ IsSeq(SerializeMetric(c, c.metric[k]))
           /\ \A r \in DOMAIN SerializeMetric(c, c.metric[k]) :
                ~Declares(SerializeMetric(c, c.metric[k])[r])
  PROVE  LET text == SerializeFamily(c)
         IN  /\ IsSeq(text)
             /\ \A n \in DOMAIN text : Declares(text[n]) => text[n].of = c.name
             /\ \A n, k \in DOMAIN text : Declares(text[n]) /\ Declares(text[k]) => n = k
             /\ \E at : \A n \in DOMAIN text : IsSample(text[n]) =>
                  /\ at[n][1] \in DOMAIN c.metric
                  /\ at[n][2] \in DOMAIN SerializeMetric(c, c.metric[at[n][1]])
                  /\ text[n] = SerializeMetric(c, c.metric[at[n][1]])[at[n][2]]
                  /\ \A k \in DOMAIN text :
                       IsSample(text[k]) /\ at[n][1] = at[k][1] /\ at[n][2] = at[k][2] => n = k
<1> DEFINE help == IF c.help THEN <<[help |-> c.name]>> ELSE << >>
           type == <<[type |-> TypeWord(c.type), of |-> c.name]>>
           seqs == [k \in DOMAIN c.metric |-> SerializeMetric(c, c.metric[k])]
           lines == FlattenSeq(seqs)
           head == help \o type
           text == SerializeFamily(c)
<1>1. /\ IsSeq(help) /\ Len(help) \in {0, 1}
      /\ \A k \in 1..Len(help) : ~Declares(help[k]) /\ ~IsSample(help[k])
  <2>1. IsSeq(<< >>) /\ Len(<< >>) = 0
    BY Tuples
  <2> DEFINE h == [help |-> c.name]
  <2>2. ~Declares(h) /\ ~IsSample(h)
    BY DEF Declares, IsSample
  <2> HIDE DEF h
  <2>3. IsSeq(<<h>>) /\ Len(<<h>>) = 1 /\ <<h>>[1] = h
    BY DEF IsSeq, Range
  <2>4. help = << >> \/ help = <<h>>
    BY DEF h
  <2> HIDE DEF help
  <2> QED BY <2>1, <2>2, <2>3, <2>4
<1>2. /\ IsSeq(type) /\ Len(type) = 1
      /\ Declares(type[1]) /\ ~IsSample(type[1]) /\ type[1].of = c.name
  <2> DEFINE t == [type |-> TypeWord(c.type), of |-> c.name]
  <2>1. Declares(t) /\ ~IsSample(t) /\ t.of = c.name
    BY DEF Declares, IsSample
  <2> HIDE DEF t
  <2>2. IsSeq(<<t>>) /\ Len(<<t>>) = 1 /\ <<t>>[1] = t
    BY DEF IsSeq, Range
  <2> QED BY <2>1, <2>2 DEF t
<1>3. DOMAIN seqs = DOMAIN c.metric
      /\ \A k \in DOMAIN c.metric : seqs[k] = SerializeMetric(c, c.metric[k])
  OBVIOUS
<1>4. IsSeq(seqs)
  <2>1. Len(c.metric) \in Nat /\ DOMAIN c.metric = 1..Len(c.metric)
    BY SeqIs
  <2>2. seqs = [i \in 1..Len(c.metric) |-> seqs[i]]
    BY <2>1
  <2> HIDE DEF seqs
  <2> QED BY <2>1, <2>2, FunctionIsSeq
<1>5. text = (help \o type) \o lines
  BY DEF SerializeFamily
<1> HIDE DEF help, type, seqs, lines, text
<1>6. IsSeq(lines) /\ \E at : Places(at, seqs, lines)
  BY <1>3, <1>4, Placing DEF lines
<1>7. PICK of : Places(of, seqs, lines)
  BY <1>6
<1>8. /\ \A n \in DOMAIN lines : /\ of[n][1] \in DOMAIN c.metric
                                 /\ of[n][2] \in DOMAIN SerializeMetric(c, c.metric[of[n][1]])
                                 /\ lines[n] = SerializeMetric(c, c.metric[of[n][1]])[of[n][2]]
                                 /\ ~Declares(lines[n])
      /\ \A n, k \in DOMAIN lines : of[n][1] = of[k][1] /\ of[n][2] = of[k][2] => n = k
  <2>1. \A n \in DOMAIN lines : /\ of[n][1] \in DOMAIN c.metric
                                /\ of[n][2] \in DOMAIN seqs[of[n][1]]
                                /\ lines[n] = seqs[of[n][1]][of[n][2]]
    BY <1>3, <1>7 DEF Places
  <2>2. \A n, k \in DOMAIN lines : of[n][1] = of[k][1] /\ of[n][2] = of[k][2] => n = k
    BY <1>7 DEF Places
  <2>3. \A n \in DOMAIN lines : seqs[of[n][1]] = SerializeMetric(c, c.metric[of[n][1]])
    BY <1>3, <2>1
  <2> QED BY <2>1, <2>2, <2>3
<1> DEFINE H == Len(help) + 1
<1>9. /\ IsSeq(head) /\ Len(head) = H /\ Declares(head[H]) /\ head[H].of = c.name
      /\ \A k \in 1..H : /\ ~IsSample(head[k])
                         /\ Declares(head[k]) => k = H
  <2>1. /\ IsSeq(help \o type) /\ Len(help \o type) = Len(help) + Len(type)
        /\ \A k \in 1..(Len(help) + Len(type)) :
             (help \o type)[k] = IF k <= Len(help) THEN help[k] ELSE type[k - Len(help)]
    BY ONLY <1>1, <1>2, Joined
  <2>2. CASE Len(help) = 0
    BY <1>1, <1>2, <2>1, <2>2
  <2>3. CASE Len(help) = 1
    BY <1>1, <1>2, <2>1, <2>3
  <2> QED BY <1>1, <2>2, <2>3
<1> HIDE DEF head
<1>10. /\ IsSeq(text) /\ Len(text) = H + Len(lines)
       /\ \A k \in 1..(H + Len(lines)) : text[k] = IF k <= H THEN head[k] ELSE lines[k - H]
  <2>1. text = head \o lines
    BY <1>5 DEF head
  <2>2. /\ IsSeq(head \o lines) /\ Len(head \o lines) = Len(head) + Len(lines)
        /\ \A k \in 1..(Len(head) + Len(lines)) :
             (head \o lines)[k] = IF k <= Len(head) THEN head[k] ELSE lines[k - Len(head)]
    BY ONLY <1>6, <1>9, Joined
  <2> QED BY <1>9, <2>1, <2>2
<1>11. H \in Nat /\ Len(lines) \in Nat /\ DOMAIN lines = 1..Len(lines)
       /\ DOMAIN text = 1..(H + Len(lines))
  BY <1>1, <1>6, <1>10, SeqIs
<1> HIDE DEF H
<1>12. \A n \in DOMAIN text :
         /\ n <= H => n \in 1..H /\ text[n] = head[n]
         /\ ~(n <= H) => n - H \in DOMAIN lines /\ text[n] = lines[n - H]
  BY ONLY <1>10, <1>11
<1>13. \A n \in DOMAIN text : Declares(text[n]) => n = H
  BY <1>8, <1>9, <1>12
<1>14. \A n \in DOMAIN text : Declares(text[n]) => text[n].of = c.name
  BY <1>9, <1>12, <1>13
<1> DEFINE at == [n \in DOMAIN text |-> of[n - H]]
<1>15. \A n \in DOMAIN text : IsSample(text[n]) =>
         n - H \in DOMAIN lines /\ text[n] = lines[n - H] /\ at[n] = of[n - H]
  BY <1>9, <1>12
<1>16. \A n, k \in DOMAIN text : n - H = k - H => n = k
  BY <1>11
<1> HIDE DEF at
<1>17. \A n \in DOMAIN text : IsSample(text[n]) =>
         /\ at[n][1] \in DOMAIN c.metric
         /\ at[n][2] \in DOMAIN SerializeMetric(c, c.metric[at[n][1]])
         /\ text[n] = SerializeMetric(c, c.metric[at[n][1]])[at[n][2]]
         /\ \A k \in DOMAIN text :
              IsSample(text[k]) /\ at[n][1] = at[k][1] /\ at[n][2] = at[k][2] => n = k
  BY <1>8, <1>15, <1>16
<1>18. \A n, k \in DOMAIN text : Declares(text[n]) /\ Declares(text[k]) => n = k
  BY <1>13
<1> QED BY <1>10, <1>14, <1>17, <1>18 DEF text

\* What tells the lines of a metric apart: the ends of their names and labels.
Suffix(T, r) ==
  IF T \in {"Histogram", "Summary"} /\ r = 1 THEN <<"_", "count">>
  ELSE IF T \in {"Histogram", "Summary"} /\ r = 2 THEN <<"_", "sum">>
  ELSE IF T = "Histogram" THEN <<"_", "bucket">>
  ELSE IF T = "Info" THEN <<"_", "info">> ELSE << >>

Bounds(T, m) == IF T = "Histogram" THEN Append(m.boundaries, Inf) ELSE m.quantiles

HasBound(T, r) == T \in {"Histogram", "Summary"} /\ r \notin {1, 2}

Reserved(T) == IF T = "Histogram" THEN <<"le">> ELSE <<"quantile">>

Extra(T, m, r) ==
  IF HasBound(T, r) THEN <<<<Reserved(T), WriteValue(Bounds(T, m)[r - 2])>>>> ELSE << >>

IsLine(line, c, m, suffix, extra) ==
  /\ IsSample(line) /\ ~Declares(line)
  /\ line.name = c.name \o suffix /\ line.label = m.label \o extra

LEMMA LineIs ==
  ASSUME NEW c, NEW m, NEW suffix, NEW extra, NEW value
  PROVE  /\ IsLine(Line(c, m, suffix, extra, value), c, m, suffix, extra)
         /\ Line(c, m, suffix, extra, value).value = value
BY DEF IsLine, IsSample, Declares, Line

\* Two lines and a vector of others.
LEMMA TwoAnd ==
  ASSUME NEW x, NEW y, NEW r, IsSeq(r)
  PROVE  /\ IsSeq(<<x, y>> \o r) /\ Len(<<x, y>> \o r) = Len(r) + 2
         /\ (<<x, y>> \o r)[1] = x /\ (<<x, y>> \o r)[2] = y
         /\ \A n \in DOMAIN (<<x, y>> \o r) :
              n \notin {1, 2} => n - 2 \in DOMAIN r /\ (<<x, y>> \o r)[n] = r[n - 2]
<1> DEFINE a == <<x, y>>
           s == a \o r
<1>1. IsSeq(a) /\ Len(a) = 2 /\ a[1] = x /\ a[2] = y
  BY Tuples
<1> HIDE DEF a
<1>2. /\ IsSeq(a \o r) /\ Len(a \o r) = Len(a) + Len(r)
      /\ \A k \in 1..(Len(a) + Len(r)) : (a \o r)[k] = IF k <= Len(a) THEN a[k] ELSE r[k - Len(a)]
  BY ONLY <1>1, IsSeq(r), Joined
<1>3. Len(r) \in Nat /\ DOMAIN r = 1..Len(r)
  BY SeqIs
<1>4. DOMAIN s = 1..Len(s)
  BY <1>2, SeqIs
<1>5. \A k \in 1..(2 + Len(r)) : s[k] = IF k <= 2 THEN a[k] ELSE r[k - 2]
  BY <1>1, <1>2
<1>6. IsSeq(s) /\ Len(s) = Len(r) + 2
  BY <1>1, <1>2, <1>3
<1> HIDE DEF s
<1>7. s[1] = x /\ s[2] = y
  BY <1>1, <1>3, <1>5
<1>8. \A n \in DOMAIN s : n \notin {1, 2} => n - 2 \in DOMAIN r /\ s[n] = r[n - 2]
  BY <1>3, <1>4, <1>5, <1>6
<1> QED BY <1>6, <1>7, <1>8 DEF s, a

LEMMA NumberText ==
  ASSUME NEW T \in Types \ {"Histogram", "Summary"}, NEW f, NEW l, NEW c, c.type = MetricType(T)
  PROVE  LET m == CollectMetric(T, f, l)
             lines == SerializeMetric(c, m)
         IN  /\ m.label = Pairs(f.constant_labels) \o Pairs(l)
             /\ IsSeq(lines)
             /\ \A r \in DOMAIN lines : r = 1 /\ IsLine(lines[r], c, m, Suffix(T, r), << >>)
<1> DEFINE m == CollectMetric(T, f, l)
           label == Pairs(f.constant_labels) \o Pairs(l)
<1>1. T \in {"CounterDouble", "CounterInt", "GaugeDouble", "GaugeInt", "Info"}
  BY TypesAssumption
<1>2. m.label = label
  BY <1>1 DEF CollectMetric, ClientMetric
<1>3. \E x : SerializeMetric(c, m) = <<x>> /\ IsLine(x, c, m, Suffix(T, 1), << >>)
  <2>1. CASE T = "Info"
    <3> DEFINE x == Line(c, m, <<"_", "info">>, << >>, WriteValue(m.info.value))
    <3>1. SerializeMetric(c, m) = <<x>>
      BY <2>1 DEF SerializeMetric, SerializeInfo, MetricType
    <3>2. IsLine(x, c, m, <<"_", "info">>, << >>)
      BY LineIs
    <3>3. Suffix(T, 1) = <<"_", "info">>
      BY <2>1 DEF Suffix
    <3> QED BY <3>1, <3>2, <3>3
  <2>2. CASE T # "Info"
    <3> DEFINE v == IF m.number.type = "INT" THEN m.number.value ELSE WriteValue(m.number.value)
               x == Line(c, m, << >>, << >>, v)
    <3>1. c.type \in {"Counter", "Gauge", "Untyped"}
      BY <1>1, <2>2 DEF MetricType
    <3>2. SerializeMetric(c, m) = <<x>>
      BY <3>1 DEF SerializeMetric, SerializeNumber, Plain
    <3>3. IsLine(x, c, m, << >>, << >>)
      BY LineIs
    <3>4. Suffix(T, 1) = << >>
      BY <1>1, <2>2 DEF Suffix
    <3> QED BY <3>2, <3>3, <3>4
  <2> QED BY <2>1, <2>2
<1> HIDE DEF m
<1>4. PICK x : SerializeMetric(c, m) = <<x>> /\ IsLine(x, c, m, Suffix(T, 1), << >>)
  BY <1>3
<1>5. IsSeq(<<x>>) /\ <<x>>[1] = x /\ DOMAIN <<x>> = {1}
  BY Tuples
<1> QED BY <1>2, <1>4, <1>5 DEF m

LEMMA SummaryText ==
  ASSUME NEW f, NEW l, IsMetric("Summary", f.metrics[l]), NEW c, c.type = "Summary"
  PROVE  LET m == CollectMetric("Summary", f, l)
             lines == SerializeMetric(c, m)
         IN  /\ m.label = Pairs(f.constant_labels) \o Pairs(l)
             /\ IsSeq(m.summary.quantile)
             /\ IsSeq(lines)
             /\ \A r \in DOMAIN lines :
                  /\ r \in {1, 2} \/ r - 2 \in DOMAIN Bounds("Summary", f.metrics[l])
                  /\ IsLine(lines[r], c, m, Suffix("Summary", r), Extra("Summary", f.metrics[l], r))
<1> DEFINE m == CollectMetric("Summary", f, l)
           q == f.metrics[l].quantiles
           b == m.summary.quantile
           x == CountLine(c, m, m.summary.sample_count)
           y == SumLine(c, m, m.summary.sample_sum)
           z == [k \in DOMAIN b |->
                   Line(c, m, << >>, <<<< <<"quantile">>, WriteValue(b[k].quantile)>>>>,
                        WriteValue(b[k].value))]
           lines == SerializeMetric(c, m)
<1>1. IsSeq(q)
  BY DEF IsMetric
<1>2. Len(q) \in Nat /\ DOMAIN q = 1..Len(q)
  BY <1>1, SeqIs
<1>3. m.label = Pairs(f.constant_labels) \o Pairs(l)
      /\ b = [k \in DOMAIN q |-> [quantile |-> q[k], value |-> Estimate]]
  BY DEF CollectMetric, ClientMetric
<1>4. lines = <<x, y>> \o z
  BY DEF SerializeMetric, SerializeSummary
<1>5. /\ IsLine(x, c, m, <<"_", "count">>, << >>) /\ IsLine(y, c, m, <<"_", "sum">>, << >>)
  BY LineIs DEF CountLine, SumLine
<1>6. \A k \in DOMAIN b : IsLine(z[k], c, m, << >>, <<<< <<"quantile">>, WriteValue(b[k].quantile)>>>>)
  BY LineIs
<1>7. DOMAIN z = DOMAIN b
  OBVIOUS
<1> HIDE DEF b
<1>8. IsSeq(b) /\ DOMAIN b = DOMAIN q /\ \A k \in DOMAIN q : b[k].quantile = q[k]
  <2>1. b = [k \in 1..Len(q) |-> b[k]]
    BY <1>2, <1>3
  <2>2. IsSeq(b)
    BY <1>2, <2>1, FunctionIsSeq
  <2> QED BY <1>3, <2>2
<1>9. z = [k \in 1..Len(q) |-> z[k]]
  BY <1>2, <1>8
<1> HIDE DEF x, y, z, lines, m, q
<1>10. IsSeq(z)
  BY <1>2, <1>9, FunctionIsSeq
<1>11. /\ IsSeq(lines) /\ lines[1] = x /\ lines[2] = y
       /\ \A n \in DOMAIN lines : n \notin {1, 2} => n - 2 \in DOMAIN z /\ lines[n] = z[n - 2]
  BY <1>4, <1>10, TwoAnd
<1>12. /\ Suffix("Summary", 1) = <<"_", "count">> /\ Suffix("Summary", 2) = <<"_", "sum">>
       /\ \A r : r \notin {1, 2} => Suffix("Summary", r) = << >>
  <2>1. Suffix("Summary", 1) = <<"_", "count">>
    BY DEF Suffix
  <2>2. Suffix("Summary", 2) = <<"_", "sum">>
    <3>1. 2 # 1
      OBVIOUS
    <3> QED BY <3>1, Zenon DEF Suffix
  <2>3. ASSUME NEW r, r \notin {1, 2}
        PROVE  Suffix("Summary", r) = << >>
    BY <2>3 DEF Suffix
  <2> QED BY <2>1, <2>2, <2>3
<1>13. /\ \A r : r \in {1, 2} => Extra("Summary", f.metrics[l], r) = << >>
       /\ \A r : r \notin {1, 2} => Extra("Summary", f.metrics[l], r)
                                      = <<<< <<"quantile">>, WriteValue(q[r - 2])>>>>
       /\ Bounds("Summary", f.metrics[l]) = q
  BY DEF Extra, HasBound, Reserved, Bounds, q
<1>14. \A r \in DOMAIN lines :
         /\ r \in {1, 2} \/ r - 2 \in DOMAIN q
         /\ IsLine(lines[r], c, m, Suffix("Summary", r), Extra("Summary", f.metrics[l], r))
  <2> SUFFICES ASSUME NEW r \in DOMAIN lines
               PROVE  /\ r \in {1, 2} \/ r - 2 \in DOMAIN q
                      /\ IsLine(lines[r], c, m, Suffix("Summary", r),
                                Extra("Summary", f.metrics[l], r))
    OBVIOUS
  <2>1. CASE r = 1
    BY <1>5, <1>11, <1>12, <1>13, <2>1
  <2>2. CASE r = 2
    BY <1>5, <1>11, <1>12, <1>13, <2>2
  <2>3. CASE r \notin {1, 2}
    <3>1. r - 2 \in DOMAIN q /\ lines[r] = z[r - 2]
      BY <1>7, <1>8, <1>11, <2>3
    <3>2. IsLine(z[r - 2], c, m, << >>, <<<< <<"quantile">>, WriteValue(q[r - 2])>>>>)
      BY <1>6, <1>8, <3>1
    <3> QED BY <1>12, <1>13, <2>3, <3>1, <3>2
  <2> QED BY <2>1, <2>2, <2>3
<1> QED BY <1>3, <1>8, <1>11, <1>13, <1>14 DEF lines, m, b

\* Boundaries with the last one.
LEMMA BoundsIs ==
  ASSUME NEW m, IsSeq(m.boundaries)
  PROVE  /\ Len(m.boundaries) \in Nat /\ DOMAIN m.boundaries = 1..Len(m.boundaries)
         /\ DOMAIN Bounds("Histogram", m) = 1..(Len(m.boundaries) + 1)
         /\ \A k \in 1..(Len(m.boundaries) + 1) :
              Bounds("Histogram", m)[k] = IF k > Len(m.boundaries) THEN Inf ELSE m.boundaries[k]
<1> DEFINE b == m.boundaries
           N == Len(b)
           S == Range(b) \cup {Inf}
<1>1. N \in Nat /\ DOMAIN b = 1..N
  BY SeqIs
<1>2. b \in Seq(S)
  BY SeqIs DEF Range
<1>3. Bounds("Histogram", m) = Append(b, Inf)
  BY DEF Bounds
<1> HIDE DEF b
<1>4. Inf \in S
  OBVIOUS
<1> HIDE DEF S
<1>5. DOMAIN Append(b, Inf) = 1..(N + 1)
  BY <1>2, <1>4
<1>6. \A k \in 1..(N + 1) : Append(b, Inf)[k] = IF k > N THEN Inf ELSE b[k]
  BY <1>1, <1>2, <1>4
<1> QED BY <1>1, <1>3, <1>5, <1>6 DEF b

LEMMA HistogramText ==
  ASSUME NEW f, NEW l, IsMetric("Histogram", f.metrics[l]), NEW c, c.type = "Histogram"
  PROVE  LET o == f.metrics[l]
             m == CollectMetric("Histogram", f, l)
             bucket == m.histogram.bucket
             lines == SerializeMetric(c, m)
         IN  /\ m.label = Pairs(f.constant_labels) \o Pairs(l)
             /\ IsSeq(bucket) /\ DOMAIN bucket = 1..(Len(o.boundaries) + 1)
             /\ \A k \in DOMAIN bucket : bucket[k].upper_bound = Bounds("Histogram", o)[k]
             /\ lines = SerializeHistogram(c, m)
             /\ IsSeq(lines) /\ Len(lines) = Len(o.boundaries) + 3
             /\ lines[1].value = Total(o.counts)
             /\ \A r \in DOMAIN lines :
                  /\ r \in {1, 2} \/ r - 2 \in 1..(Len(o.boundaries) + 1)
                  /\ IsLine(lines[r], c, m, Suffix("Histogram", r), Extra("Histogram", o, r))
                  /\ r \notin {1, 2} => lines[r].value = Total(SubSeq(o.counts, 1, r - 2))
<1> DEFINE o == f.metrics[l]
           N == Len(o.boundaries) + 1
           m == CollectMetric("Histogram", f, l)
           b == m.histogram.bucket
           x == CountLine(c, m, m.histogram.sample_count)
           y == SumLine(c, m, m.histogram.sample_sum)
           z == [k \in DOMAIN b |-> BucketLine(c, m, WriteValue(b[k].upper_bound), b[k].cumulative_count)]
           ends == b # << >> /\ Last(b).upper_bound = Inf
           last == BucketLine(c, m, Inf, m.histogram.sample_count)
           lines == SerializeMetric(c, m)
           B == Bounds("Histogram", o)
<1>1. IsSeq(o.boundaries) /\ o.counts \in [1..N -> Nat]
  BY DEF IsMetric
<1>2. /\ Len(o.boundaries) \in Nat /\ N \in Nat /\ N # 0
      /\ DOMAIN B = 1..N
      /\ \A k \in 1..N : B[k] = IF k > Len(o.boundaries) THEN Inf ELSE o.boundaries[k]
  <2> HIDE DEF o
  <2>1. Len(o.boundaries) \in Nat
    BY <1>1, SeqIs
  <2> QED BY <1>1, <2>1, BoundsIs
<1>3. /\ m.label = Pairs(f.constant_labels) \o Pairs(l)
      /\ m.histogram.sample_count = Total(o.counts)
      /\ b = Buckets(o)
  BY DEF CollectMetric, ClientMetric
<1>4. lines = SerializeHistogram(c, m)
  BY DEF SerializeMetric
<1>5. lines = <<x, y>> \o z \o (IF ends THEN << >> ELSE <<last>>)
  BY <1>4 DEF SerializeHistogram
<1>6. /\ IsLine(x, c, m, <<"_", "count">>, << >>) /\ IsLine(y, c, m, <<"_", "sum">>, << >>)
      /\ x.value = m.histogram.sample_count
  <2>1. IsLine(x, c, m, <<"_", "count">>, << >>) /\ IsLine(y, c, m, <<"_", "sum">>, << >>)
    BY LineIs DEF CountLine, SumLine
  <2>2. x.value = m.histogram.sample_count
    BY DEF CountLine, Line
  <2> QED BY <2>1, <2>2
<1>7. \A k \in DOMAIN b :
        /\ IsLine(z[k], c, m, <<"_", "bucket">>, <<<< <<"le">>, WriteValue(b[k].upper_bound)>>>>)
        /\ z[k].value = b[k].cumulative_count
  <2>1. \A k \in DOMAIN b :
          z[k] = Line(c, m, <<"_", "bucket">>, <<<< <<"le">>, WriteValue(b[k].upper_bound)>>>>,
                      b[k].cumulative_count)
    BY DEF BucketLine
  <2> HIDE DEF z, b, m
  <2> SUFFICES ASSUME NEW k \in DOMAIN b
               PROVE  /\ IsLine(z[k], c, m, <<"_", "bucket">>,
                                <<<< <<"le">>, WriteValue(b[k].upper_bound)>>>>)
                      /\ z[k].value = b[k].cumulative_count
    OBVIOUS
  <2> DEFINE e == <<<< <<"le">>, WriteValue(b[k].upper_bound)>>>>
             s == <<"_", "bucket">>
             v == b[k].cumulative_count
  <2>2. z[k] = Line(c, m, s, e, v)
    BY <2>1
  <2> HIDE DEF e, s, v
  <2>3. IsLine(z[k], c, m, s, e) /\ z[k].value = v
    BY <2>2, LineIs
  <2> QED BY <2>3 DEF e, s, v
<1>8. DOMAIN z = DOMAIN b
  OBVIOUS
<1> HIDE DEF b
<1>9. /\ DOMAIN b = 1..N
      /\ \A k \in 1..N : b[k].upper_bound = B[k] /\ b[k].cumulative_count = Total(SubSeq(o.counts, 1, k))
  <2>1. b = [k \in 1..N |-> [cumulative_count |-> Total(SubSeq(o.counts, 1, k)),
                             upper_bound |-> IF k > Len(o.boundaries) THEN Inf ELSE o.boundaries[k]]]
    BY <1>1, <1>3 DEF Buckets
  <2> HIDE DEF N, B
  <2>2. DOMAIN b = 1..N
    BY <2>1
  <2>3. \A k \in 1..N : /\ b[k].upper_bound = IF k > Len(o.boundaries) THEN Inf ELSE o.boundaries[k]
                        /\ b[k].cumulative_count = Total(SubSeq(o.counts, 1, k))
    BY <2>1
  <2> QED BY <1>2, <2>2, <2>3
<1>10. b = [k \in 1..N |-> b[k]]
  BY <1>1, <1>3 DEF Buckets, b
<1>11. z = [k \in 1..N |-> z[k]]
  BY <1>9
<1> HIDE DEF x, y, z, lines, m, o, last, B
<1>12. IsSeq(b) /\ Len(b) = N
  <2> HIDE DEF N
  <2> QED BY <1>2, <1>10, FunctionIsSeq
<1>13. IsSeq(z) /\ Len(z) = N
  <2> HIDE DEF N
  <2> QED BY <1>2, <1>11, FunctionIsSeq
<1>14. ends
  <2>1. b # << >>
    BY <1>2, <1>9
  <2>2. b[N].upper_bound = Inf
    BY <1>2, <1>9
  <2> QED BY <1>12, <2>1, <2>2 DEF Last
<1>15. lines = <<x, y>> \o z
  <2>1. lines = <<x, y>> \o z \o << >>
    BY <1>5, <1>14
  <2> DEFINE s == <<x, y>> \o z
  <2>2. IsSeq(s)
    BY <1>13, TwoAnd
  <2> HIDE DEF s
  <2>3. s \o << >> = s
    BY <2>2 DEF IsSeq
  <2> QED BY <2>1, <2>3 DEF s
<1>16. /\ IsSeq(lines) /\ Len(lines) = N + 2 /\ lines[1] = x /\ lines[2] = y
       /\ \A n \in DOMAIN lines : n \notin {1, 2} => n - 2 \in DOMAIN z /\ lines[n] = z[n - 2]
  BY <1>13, <1>15, TwoAnd
<1>17. /\ Suffix("Histogram", 1) = <<"_", "count">>
       /\ Suffix("Histogram", 2) = <<"_", "sum">>
       /\ \A r : r \notin {1, 2} => Suffix("Histogram", r) = <<"_", "bucket">>
  <2>1. Suffix("Histogram", 1) = <<"_", "count">>
    BY DEF Suffix
  <2>2. Suffix("Histogram", 2) = <<"_", "sum">>
    <3>1. 2 # 1
      OBVIOUS
    <3> QED BY <3>1, Zenon DEF Suffix
  <2>3. ASSUME NEW r, r \notin {1, 2}
        PROVE  Suffix("Histogram", r) = <<"_", "bucket">>
    BY <2>3 DEF Suffix
  <2> QED BY <2>1, <2>2, <2>3
<1>18. /\ \A r : r \in {1, 2} => Extra("Histogram", o, r) = << >>
       /\ \A r : r \notin {1, 2} => Extra("Histogram", o, r) = <<<< <<"le">>, WriteValue(B[r - 2])>>>>
  BY DEF Extra, HasBound, Reserved, B
<1>19. \A r \in DOMAIN lines :
         /\ r \in {1, 2} \/ r - 2 \in 1..N
         /\ IsLine(lines[r], c, m, Suffix("Histogram", r), Extra("Histogram", o, r))
         /\ r \notin {1, 2} => lines[r].value = Total(SubSeq(o.counts, 1, r - 2))
  <2> SUFFICES ASSUME NEW r \in DOMAIN lines
               PROVE  /\ r \in {1, 2} \/ r - 2 \in 1..N
                      /\ IsLine(lines[r], c, m, Suffix("Histogram", r), Extra("Histogram", o, r))
                      /\ r \notin {1, 2} => lines[r].value = Total(SubSeq(o.counts, 1, r - 2))
    OBVIOUS
  <2>1. CASE r = 1
    BY <1>6, <1>16, <1>17, <1>18, <2>1
  <2>2. CASE r = 2
    BY <1>6, <1>16, <1>17, <1>18, <2>2
  <2>3. CASE r \notin {1, 2}
    <3> HIDE DEF N
    <3>1. r - 2 \in 1..N /\ lines[r] = z[r - 2]
      BY <1>8, <1>9, <1>16, <2>3
    <3>2. /\ IsLine(z[r - 2], c, m, <<"_", "bucket">>, <<<< <<"le">>, WriteValue(B[r - 2])>>>>)
          /\ z[r - 2].value = Total(SubSeq(o.counts, 1, r - 2))
      BY <1>7, <1>9, <3>1
    <3> QED BY <1>17, <1>18, <2>3, <3>1, <3>2
  <2> QED BY <2>1, <2>2, <2>3
<1>20. lines[1].value = Total(o.counts)
  BY <1>3, <1>6, <1>16
<1>21. Len(lines) = Len(o.boundaries) + 3
  BY <1>2, <1>16
<1>22. \A k \in DOMAIN b : b[k].upper_bound = B[k]
  BY <1>9
<1> QED BY <1>3, <1>4, <1>9, <1>12, <1>16, <1>19, <1>20, <1>21, <1>22 DEF lines, m, b, o, B

-----------------------------------------------------------------------------
(* Exposition: labels                                                       *)

\* No two pairs have the same name.
Distinct(s) == \A k, n \in DOMAIN s : s[k][1] = s[n][1] => k = n

LEMMA JoinedPairs ==
  ASSUME NEW a, NEW b, IsSeq(a), IsSeq(b)
  PROVE  /\ IsSeq(a \o b)
         /\ \A w : w \in Range(a \o b) <=> w \in Range(a) \/ w \in Range(b)
         /\ Distinct(a) /\ Distinct(b) /\ (\A u \in Range(a), v \in Range(b) : u[1] # v[1])
              => Distinct(a \o b)
<1> DEFINE c == a \o b
           A == Len(a)
           B == Len(b)
<1>1. /\ IsSeq(c) /\ Len(c) = A + B
      /\ \A k \in 1..(A + B) : c[k] = IF k <= A THEN a[k] ELSE b[k - A]
  BY Joined
<1>2. A \in Nat /\ B \in Nat /\ DOMAIN a = 1..A /\ DOMAIN b = 1..B
  BY SeqIs
<1>3. DOMAIN c = 1..(A + B)
  BY <1>1, SeqIs
<1> HIDE DEF c, A, B
<1>4. \A k \in DOMAIN c : /\ k <= A => k \in DOMAIN a /\ c[k] = a[k]
                          /\ ~(k <= A) => k - A \in DOMAIN b /\ c[k] = b[k - A]
  BY ONLY <1>1, <1>2, <1>3
<1>5. /\ \A k \in DOMAIN a : k \in DOMAIN c /\ k <= A
      /\ \A k \in DOMAIN b : k + A \in DOMAIN c /\ ~(k + A <= A) /\ (k + A) - A = k
  BY ONLY <1>2, <1>3
<1>6. /\ \A k \in DOMAIN a : a[k] = c[k]
      /\ \A k \in DOMAIN b : b[k] = c[k + A]
  BY <1>4, <1>5
<1>7. \A w : w \in Range(c) <=> w \in Range(a) \/ w \in Range(b)
  BY <1>4, <1>5, <1>6 DEF Range
<1>8. ASSUME Distinct(a), Distinct(b), \A u \in Range(a), v \in Range(b) : u[1] # v[1],
             NEW k \in DOMAIN c, NEW n \in DOMAIN c, c[k][1] = c[n][1]
      PROVE  k = n
  <2>1. CASE k <= A /\ n <= A
    BY <1>4, <1>8, <2>1 DEF Distinct
  <2>2. CASE ~(k <= A) /\ ~(n <= A)
    <3>1. k - A = n - A
      BY <1>4, <1>8, <2>2 DEF Distinct
    <3> QED BY <1>2, <1>3, <3>1
  <2>3. CASE k <= A /\ ~(n <= A)
    BY <1>4, <1>8, <2>3 DEF Range
  <2>4. CASE ~(k <= A) /\ n <= A
    BY <1>4, <1>8, <2>4 DEF Range
  <2> QED BY <2>1, <2>2, <2>3, <2>4
<1>9. Distinct(a) /\ Distinct(b) /\ (\A u \in Range(a), v \in Range(b) : u[1] # v[1]) => Distinct(c)
  BY <1>8 DEF Distinct
<1> QED BY <1>1, <1>7, <1>9 DEF c

\* The pairs of maps.
LEMMA PairsOf ==
  ASSUME NEW l, l \in LabelSets \cup {<< >>}
  PROVE  /\ IsSeq(Pairs(l)) /\ Distinct(Pairs(l))
         /\ \A w : w \in Range(Pairs(l)) <=> \E x \in DOMAIN l : w = <<x, l[x]>>
<1>1. IsFiniteSet(DOMAIN l)
  <2>1. CASE l = << >>
    <3>1. DOMAIN l = {}
      BY <2>1
    <3> QED BY <3>1, FS_EmptySet
  <2>2. CASE l \in LabelSets
    BY <2>2, ArgumentsAssumption
  <2> QED BY <2>1, <2>2
<1> DEFINE p == Pairs(l)
<1>2. /\ IsSeq(p)
      /\ \A k \in DOMAIN p : p[k][1] \in DOMAIN l /\ p[k] = <<p[k][1], l[p[k][1]]>>
      /\ \A k, n \in DOMAIN p : p[k][1] = p[n][1] => k = n
      /\ \A x \in DOMAIN l : \E k \in DOMAIN p : p[k] = <<x, l[x]>>
  BY <1>1, PairsIs
<1> HIDE DEF p
<1>3. \A w : w \in Range(p) <=> \E x \in DOMAIN l : w = <<x, l[x]>>
  <2>1. ASSUME NEW w \in Range(p) PROVE \E x \in DOMAIN l : w = <<x, l[x]>>
    <3>1. PICK k \in DOMAIN p : w = p[k]
      BY DEF Range
    <3> QED BY <1>2, <3>1
  <2>2. ASSUME NEW x \in DOMAIN l PROVE <<x, l[x]>> \in Range(p)
    <3>1. PICK k \in DOMAIN p : p[k] = <<x, l[x]>>
      BY <1>2
    <3> QED BY <3>1 DEF Range
  <2> QED BY <2>1, <2>2
<1> QED BY <1>2, <1>3 DEF p, Distinct

\* What the serializer may add to the labels of a metric.
Added(T, e) ==
  \/ e = << >>
  \/ T \in {"Histogram", "Summary"} /\ \E v : e = <<<<Reserved(T), v>>>>

\* The label names of a family's metrics.
LEMMA NamesAre ==
  ASSUME NEW T \in Types, NEW f, Good(T, f), NEW l \in DOMAIN f.metrics
  PROVE  /\ f.constant_labels \in LabelSets \cup {<< >>} /\ l \in LabelSets
         /\ DOMAIN l \cap DOMAIN f.constant_labels = {}
         /\ T \in {"Histogram", "Summary"} =>
              Reserved(T) \notin DOMAIN l /\ Reserved(T) \notin DOMAIN f.constant_labels
<1>1. /\ f.constant_labels \in LabelSets \cup {<< >>} /\ l \in LabelSets
      /\ \A n \in DOMAIN f.constant_labels : CheckLabelName(n, MetricType(T))
      /\ \A n \in DOMAIN l : CheckLabelName(n, MetricType(T)) /\ n \notin DOMAIN f.constant_labels
  BY DEF Good, IsFamily, LabelsChecked, Accepted
<1>2. ASSUME T \in {"Histogram", "Summary"}
      PROVE  \A n : CheckLabelName(n, MetricType(T)) => n # Reserved(T)
  <2>1. MetricType(T) = T
    BY <1>2 DEF MetricType
  <2>2. \A n : CheckLabelName(n, T) =>
               <<T, n>> \notin {<<"Histogram", <<"le">>>>, <<"Summary", <<"quantile">>>>}
    BY DEF CheckLabelName
  <2>3. <<T, Reserved(T)>> \in {<<"Histogram", <<"le">>>>, <<"Summary", <<"quantile">>>>}
    BY <1>2 DEF Reserved
  <2> QED BY <2>1, <2>2, <2>3
<1> QED BY <1>1, <1>2

LEMMA LabelIs ==
  ASSUME NEW T \in Types, NEW f, Good(T, f), NEW l \in DOMAIN f.metrics, NEW e, Added(T, e)
  PROVE  LET label == (Pairs(f.constant_labels) \o Pairs(l)) \o e
         IN  /\ IsSeq(Pairs(f.constant_labels) \o Pairs(l)) /\ IsSeq(e) /\ IsSeq(label)
             /\ Distinct(label)
             /\ \A w : w \in Range(label) <=>
                  \/ \E x \in DOMAIN f.constant_labels : w = <<x, f.constant_labels[x]>>
                  \/ \E x \in DOMAIN l : w = <<x, l[x]>>
                  \/ w \in Range(e)
<1> DEFINE C == f.constant_labels
           a == Pairs(C)
           b == Pairs(l)
           ab == a \o b
           label == ab \o e
<1>1. /\ C \in LabelSets \cup {<< >>} /\ l \in LabelSets \cup {<< >>}
      /\ DOMAIN l \cap DOMAIN C = {}
      /\ T \in {"Histogram", "Summary"} => Reserved(T) \notin DOMAIN l /\ Reserved(T) \notin DOMAIN C
  BY NamesAre
<1> HIDE DEF C
<1>2. /\ IsSeq(a) /\ Distinct(a)
      /\ \A w : w \in Range(a) <=> \E x \in DOMAIN C : w = <<x, C[x]>>
  BY <1>1, PairsOf
<1>3. /\ IsSeq(b) /\ Distinct(b)
      /\ \A w : w \in Range(b) <=> \E x \in DOMAIN l : w = <<x, l[x]>>
  BY <1>1, PairsOf
<1> HIDE DEF a, b
<1>4. \A u \in Range(a) : u[1] \in DOMAIN C
  BY <1>2
<1>5. \A u \in Range(b) : u[1] \in DOMAIN l
  BY <1>3
<1>6. \A u \in Range(a), v \in Range(b) : u[1] # v[1]
  BY <1>1, <1>4, <1>5
<1>7. /\ IsSeq(ab) /\ Distinct(ab)
      /\ \A w : w \in Range(ab) <=> w \in Range(a) \/ w \in Range(b)
  BY <1>2, <1>3, <1>6, JoinedPairs
<1>8. /\ IsSeq(e) /\ Distinct(e)
      /\ \A u \in Range(e) : T \in {"Histogram", "Summary"} /\ u[1] = Reserved(T)
  <2>1. CASE e = << >>
    <3>1. IsSeq(e) /\ DOMAIN e = {}
      BY <2>1, Tuples
    <3> QED BY <3>1 DEF Distinct, Range
  <2>2. CASE T \in {"Histogram", "Summary"} /\ \E v : e = <<<<Reserved(T), v>>>>
    <3>1. PICK v : e = <<<<Reserved(T), v>>>>
      BY <2>2
    <3> DEFINE u == <<Reserved(T), v>>
    <3>2. u[1] = Reserved(T)
      OBVIOUS
    <3> HIDE DEF u
    <3>3. e = <<u>>
      BY <3>1 DEF u
    <3>4. IsSeq(e) /\ DOMAIN e = {1} /\ e[1] = u
      BY <3>3, Tuples
    <3> QED BY <2>2, <3>2, <3>4 DEF Distinct, Range
  <2> QED BY <2>1, <2>2 DEF Added
<1> HIDE DEF ab
<1>9. \A u \in Range(ab), v \in Range(e) : u[1] # v[1]
  BY <1>1, <1>4, <1>5, <1>7, <1>8
<1>10. /\ IsSeq(label) /\ Distinct(label)
       /\ \A w : w \in Range(label) <=> w \in Range(ab) \/ w \in Range(e)
  BY <1>7, <1>8, <1>9, JoinedPairs
<1> HIDE DEF label
<1>11. \A w : w \in Range(label) <=>
                \/ \E x \in DOMAIN C : w = <<x, C[x]>>
                \/ \E x \in DOMAIN l : w = <<x, l[x]>>
                \/ w \in Range(e)
  BY <1>2, <1>3, <1>7, <1>10
<1> QED BY <1>7, <1>8, <1>10, <1>11 DEF label, ab, a, b, C

\* The labels of a line tell its metric and what was added.
LEMMA LabelsTell ==
  ASSUME NEW T \in Types, NEW f, Good(T, f),
         NEW l \in DOMAIN f.metrics, NEW e, Added(T, e),
         NEW k \in DOMAIN f.metrics, NEW g, Added(T, g), e = << >> <=> g = << >>,
         Range((Pairs(f.constant_labels) \o Pairs(l)) \o e)
           = Range((Pairs(f.constant_labels) \o Pairs(k)) \o g)
  PROVE  l = k /\ e = g
<1> DEFINE C == f.constant_labels
           E == Range((Pairs(C) \o Pairs(l)) \o e)
           G == Range((Pairs(C) \o Pairs(k)) \o g)
<1>1. \A w : w \in E <=> \/ \E x \in DOMAIN C : w = <<x, C[x]>>
                         \/ \E x \in DOMAIN l : w = <<x, l[x]>>
                         \/ w \in Range(e)
  BY LabelIs
<1>2. \A w : w \in G <=> \/ \E x \in DOMAIN C : w = <<x, C[x]>>
                         \/ \E x \in DOMAIN k : w = <<x, k[x]>>
                         \/ w \in Range(g)
  BY LabelIs
<1>3. /\ l \in LabelSets /\ DOMAIN l \cap DOMAIN C = {}
      /\ k \in LabelSets /\ DOMAIN k \cap DOMAIN C = {}
      /\ T \in {"Histogram", "Summary"} =>
           Reserved(T) \notin DOMAIN l /\ Reserved(T) \notin DOMAIN k /\ Reserved(T) \notin DOMAIN C
  BY NamesAre
<1>4. l = [x \in DOMAIN l |-> l[x]] /\ k = [x \in DOMAIN k |-> k[x]]
  BY <1>3, ArgumentsAssumption
<1>5. E = G
  OBVIOUS
<1> HIDE DEF C, E, G
<1>6. \A d : Added(T, d) =>
        \A w \in Range(d) : /\ T \in {"Histogram", "Summary"}
                            /\ \E v : w = <<Reserved(T), v>> /\ d = <<w>>
  <2> SUFFICES ASSUME NEW d, Added(T, d), NEW w \in Range(d)
               PROVE  /\ T \in {"Histogram", "Summary"}
                      /\ \E v : w = <<Reserved(T), v>> /\ d = <<w>>
    OBVIOUS
  <2>1. CASE d = << >>
    <3>1. DOMAIN d = {}
      BY <2>1, Tuples
    <3> QED BY <3>1 DEF Range
  <2>2. CASE T \in {"Histogram", "Summary"} /\ \E v : d = <<<<Reserved(T), v>>>>
    <3>1. PICK v : d = <<<<Reserved(T), v>>>>
      BY <2>2
    <3> DEFINE u == <<Reserved(T), v>>
    <3>2. d = <<u>>
      BY <3>1
    <3> HIDE DEF u
    <3>3. DOMAIN d = {1} /\ d[1] = u
      BY <3>2, Tuples
    <3>4. w = u
      BY <3>3 DEF Range
    <3> QED BY <2>2, <3>2, <3>4 DEF u
  <2> QED BY <2>1, <2>2 DEF Added
<1>7. \A w \in Range(e) : \E v : w = <<Reserved(T), v>> /\ e = <<w>>
  BY <1>6
<1>8. \A w \in Range(g) : \E v : w = <<Reserved(T), v>> /\ g = <<w>>
  BY <1>6
<1>9. \A x \in DOMAIN l : x \in DOMAIN k /\ l[x] = k[x]
  <2> SUFFICES ASSUME NEW x \in DOMAIN l PROVE x \in DOMAIN k /\ l[x] = k[x]
    OBVIOUS
  <2>1. <<x, l[x]>> \in G
    BY <1>1, <1>5
  <2>2. x \notin DOMAIN C
    BY <1>3
  <2>3. <<x, l[x]>> \notin Range(g)
    <3>1. ASSUME <<x, l[x]>> \in Range(g) PROVE FALSE
      <4>1. PICK v : <<x, l[x]>> = <<Reserved(T), v>>
        BY <1>8, <3>1
      <4>2. x = Reserved(T) /\ T \in {"Histogram", "Summary"}
        BY <1>6, <3>1, <4>1
      <4> QED BY <1>3, <4>2
    <3> QED BY <3>1
  <2>4. ~\E y \in DOMAIN C : <<x, l[x]>> = <<y, C[y]>>
    BY <2>2
  <2>5. \E y \in DOMAIN k : <<x, l[x]>> = <<y, k[y]>>
    BY <1>2, <2>1, <2>3, <2>4
  <2> QED BY <2>5
<1>10. \A x \in DOMAIN k : x \in DOMAIN l
  <2> SUFFICES ASSUME NEW x \in DOMAIN k PROVE x \in DOMAIN l
    OBVIOUS
  <2>1. <<x, k[x]>> \in E
    BY <1>2, <1>5
  <2>2. x \notin DOMAIN C
    BY <1>3
  <2>3. <<x, k[x]>> \notin Range(e)
    <3>1. ASSUME <<x, k[x]>> \in Range(e) PROVE FALSE
      <4>1. PICK v : <<x, k[x]>> = <<Reserved(T), v>>
        BY <1>7, <3>1
      <4>2. x = Reserved(T) /\ T \in {"Histogram", "Summary"}
        BY <1>6, <3>1, <4>1
      <4> QED BY <1>3, <4>2
    <3> QED BY <3>1
  <2>4. ~\E y \in DOMAIN C : <<x, k[x]>> = <<y, C[y]>>
    BY <2>2
  <2>5. \E y \in DOMAIN l : <<x, k[x]>> = <<y, l[y]>>
    BY <1>1, <2>1, <2>3, <2>4
  <2> QED BY <2>5
<1>11. l = k
  BY <1>4, <1>9, <1>10
<1>12. e = g
  <2>1. CASE e = << >>
    BY <2>1
  <2>2. CASE e # << >>
    <3>1. PICK v : e = <<<<Reserved(T), v>>>> /\ T \in {"Histogram", "Summary"}
      BY <2>2 DEF Added
    <3> DEFINE u == <<Reserved(T), v>>
    <3>2. e = <<u>> /\ u[1] = Reserved(T)
      BY <3>1
    <3>3. /\ ~\E y \in DOMAIN C : u = <<y, C[y]>>
          /\ ~\E y \in DOMAIN k : u = <<y, k[y]>>
      BY <1>3, <3>1
    <3> HIDE DEF u
    <3>4. u \in Range(e)
      BY <3>2, Tuples DEF Range
    <3>5. u \in G
      BY <1>1, <1>5, <3>4
    <3>6. u \in Range(g)
      BY <1>2, <3>3, <3>5
    <3> QED BY <1>8, <3>2, <3>6
  <2> QED BY <2>1, <2>2
<1> QED BY <1>11, <1>12

-----------------------------------------------------------------------------
(* Exposition: the lines of a text                                          *)

\* The lines of a metric of any type.
LEMMA MetricText ==
  ASSUME NEW T \in Types, NEW f, Good(T, f), NEW l \in DOMAIN f.metrics,
         NEW c, c.type = MetricType(T)
  PROVE  LET m == CollectMetric(T, f, l)
             lines == SerializeMetric(c, m)
         IN  /\ m.label = Pairs(f.constant_labels) \o Pairs(l)
             /\ IsSeq(lines)
             /\ \A r \in DOMAIN lines :
                  /\ HasBound(T, r) => r - 2 \in DOMAIN Bounds(T, f.metrics[l])
                  /\ T \notin {"Histogram", "Summary"} => r = 1
                  /\ IsLine(lines[r], c, m, Suffix(T, r), Extra(T, f.metrics[l], r))
<1>1. IsMetric(T, f.metrics[l])
  BY DEF Good, IsFamily
<1>2. CASE T = "Histogram"
  <2>1. c.type = "Histogram" /\ IsMetric("Histogram", f.metrics[l])
    BY <1>1, <1>2 DEF MetricType
  <2>2. IsSeq(f.metrics[l].boundaries)
    BY <2>1 DEF IsMetric
  <2>3. DOMAIN Bounds("Histogram", f.metrics[l]) = 1..(Len(f.metrics[l].boundaries) + 1)
    BY <2>2, BoundsIs
  <2> DEFINE m == CollectMetric("Histogram", f, l)
             lines == SerializeMetric(c, m)
  <2>4. /\ m.label = Pairs(f.constant_labels) \o Pairs(l)
        /\ IsSeq(lines)
        /\ \A r \in DOMAIN lines :
             /\ r \in {1, 2} \/ r - 2 \in 1..(Len(f.metrics[l].boundaries) + 1)
             /\ IsLine(lines[r], c, m, Suffix("Histogram", r), Extra("Histogram", f.metrics[l], r))
    BY <2>1, HistogramText
  <2> HIDE DEF m, lines
  <2>5. \A r \in DOMAIN lines :
          /\ HasBound("Histogram", r) => r - 2 \in DOMAIN Bounds("Histogram", f.metrics[l])
          /\ "Histogram" \notin {"Histogram", "Summary"} => r = 1
          /\ IsLine(lines[r], c, m, Suffix("Histogram", r), Extra("Histogram", f.metrics[l], r))
    BY <2>3, <2>4 DEF HasBound
  <2> QED BY <1>2, <2>4, <2>5 DEF m, lines
<1>3. CASE T = "Summary"
  <2>1. c.type = "Summary" /\ IsMetric("Summary", f.metrics[l])
    BY <1>1, <1>3 DEF MetricType
  <2> DEFINE m == CollectMetric("Summary", f, l)
             lines == SerializeMetric(c, m)
  <2>2. /\ m.label = Pairs(f.constant_labels) \o Pairs(l)
        /\ IsSeq(lines)
        /\ \A r \in DOMAIN lines :
             /\ r \in {1, 2} \/ r - 2 \in DOMAIN Bounds("Summary", f.metrics[l])
             /\ IsLine(lines[r], c, m, Suffix("Summary", r), Extra("Summary", f.metrics[l], r))
    BY <2>1, SummaryText
  <2> HIDE DEF m, lines
  <2>3. \A r \in DOMAIN lines :
          /\ HasBound("Summary", r) => r - 2 \in DOMAIN Bounds("Summary", f.metrics[l])
          /\ "Summary" \notin {"Histogram", "Summary"} => r = 1
          /\ IsLine(lines[r], c, m, Suffix("Summary", r), Extra("Summary", f.metrics[l], r))
    BY <2>2 DEF HasBound
  <2> QED BY <1>3, <2>2, <2>3 DEF m, lines
<1>4. CASE T \notin {"Histogram", "Summary"}
  <2> DEFINE m == CollectMetric(T, f, l)
             lines == SerializeMetric(c, m)
  <2>1. /\ m.label = Pairs(f.constant_labels) \o Pairs(l)
        /\ IsSeq(lines)
        /\ \A r \in DOMAIN lines : r = 1 /\ IsLine(lines[r], c, m, Suffix(T, r), << >>)
    BY <1>4, NumberText
  <2> HIDE DEF m, lines
  <2>2. \A r : ~HasBound(T, r) /\ Extra(T, f.metrics[l], r) = << >>
    BY <1>4 DEF Extra, HasBound
  <2> QED BY <1>4, <2>1, <2>2 DEF m, lines
<1> QED BY <1>2, <1>3, <1>4

\* The line is the r-th of metric l of family f.
From(line, T, f, l, r) ==
  /\ l \in DOMAIN f.metrics /\ r \in Nat
  /\ HasBound(T, r) => r - 2 \in DOMAIN Bounds(T, f.metrics[l])
  /\ T \notin {"Histogram", "Summary"} => r = 1
  /\ line.name = f.name \o Suffix(T, r)
  /\ line.label = (Pairs(f.constant_labels) \o Pairs(l)) \o Extra(T, f.metrics[l], r)

LEMMA ShownIs ==
  ASSUME NEW T \in Types, NEW f, Good(T, f), NEW c, Shown(c, T, f)
  PROVE  LET order == SetToSeq(DOMAIN f.metrics)
         IN  /\ c.name = f.name /\ c.type = MetricType(T)
             /\ IsSeq(c.metric) /\ DOMAIN c.metric = DOMAIN order
             /\ \A k \in DOMAIN order : /\ order[k] \in DOMAIN f.metrics
                                        /\ c.metric[k] = CollectMetric(T, f, order[k])
             /\ \A k, n \in DOMAIN order : order[k] = order[n] => k = n
<1> DEFINE order == SetToSeq(DOMAIN f.metrics)
           metric == [k \in DOMAIN order |-> CollectMetric(T, f, order[k])]
<1>1. IsFiniteSet(DOMAIN f.metrics)
  BY DEF Good, IsFamily
<1>2. /\ IsSeq(order) /\ \A k \in DOMAIN order : order[k] \in DOMAIN f.metrics
      /\ \A k, n \in DOMAIN order : order[k] = order[n] => k = n
  BY <1>1, SetToSeqIs
<1>3. c = [name |-> f.name, help |-> f.help, type |-> MetricType(T), metric |-> metric]
  BY DEF Shown
<1> HIDE DEF order
<1>4. DOMAIN metric = DOMAIN order /\ \A k \in DOMAIN order : metric[k] = CollectMetric(T, f, order[k])
  OBVIOUS
<1>5. IsSeq(metric)
  <2>1. Len(order) \in Nat /\ DOMAIN order = 1..Len(order)
    BY <1>2, SeqIs
  <2>2. metric = [k \in 1..Len(order) |-> metric[k]]
    BY <2>1
  <2> HIDE DEF metric
  <2> QED BY <2>1, <2>2, FunctionIsSeq
<1> HIDE DEF metric
<1>6. c.name = f.name /\ c.type = MetricType(T) /\ c.metric = metric
  BY <1>3
<1> QED BY <1>2, <1>4, <1>5, <1>6 DEF order

\* The lines of a family: one declares its type, the samples come from its metrics,
\* no two from the same place.
LEMMA FamilySamples ==
  ASSUME NEW T \in Types, NEW f, Good(T, f), NEW c, Shown(c, T, f)
  PROVE  LET text == SerializeFamily(c)
         IN  /\ IsSeq(text)
             /\ \A n \in DOMAIN text : Declares(text[n]) => text[n].of = c.name
             /\ \A n, k \in DOMAIN text : Declares(text[n]) /\ Declares(text[k]) => n = k
             /\ \E at : \A n \in DOMAIN text : IsSample(text[n]) =>
                  /\ From(text[n], T, f, at[n][1], at[n][2])
                  /\ \A k \in DOMAIN text :
                       IsSample(text[k]) /\ at[n][1] = at[k][1] /\ at[n][2] = at[k][2] => n = k
<1> DEFINE order == SetToSeq(DOMAIN f.metrics)
           L(k) == SerializeMetric(c, c.metric[k])
           text == SerializeFamily(c)
<1>1. /\ c.name = f.name /\ c.type = MetricType(T)
      /\ IsSeq(c.metric) /\ DOMAIN c.metric = DOMAIN order
      /\ \A k \in DOMAIN order : /\ order[k] \in DOMAIN f.metrics
                                 /\ c.metric[k] = CollectMetric(T, f, order[k])
      /\ \A k, n \in DOMAIN order : order[k] = order[n] => k = n
  BY ShownIs
<1> HIDE DEF order
<1>2. ASSUME NEW k \in DOMAIN order
      PROVE  /\ IsSeq(L(k))
             /\ \A r \in DOMAIN L(k) : ~Declares(L(k)[r]) /\ From(L(k)[r], T, f, order[k], r)
  <2> DEFINE l == order[k]
             m == CollectMetric(T, f, l)
             lines == SerializeMetric(c, m)
  <2>1. l \in DOMAIN f.metrics /\ L(k) = lines
    BY <1>1
  <2>2. /\ m.label = Pairs(f.constant_labels) \o Pairs(l)
        /\ IsSeq(lines)
        /\ \A r \in DOMAIN lines :
             /\ HasBound(T, r) => r - 2 \in DOMAIN Bounds(T, f.metrics[l])
             /\ T \notin {"Histogram", "Summary"} => r = 1
             /\ IsLine(lines[r], c, m, Suffix(T, r), Extra(T, f.metrics[l], r))
    BY <1>1, <2>1, MetricText
  <2> HIDE DEF l, m, lines
  <2>3. \A r \in DOMAIN lines : r \in Nat
    BY <2>2, SeqIs
  <2>4. \A r \in DOMAIN lines : ~Declares(lines[r]) /\ From(lines[r], T, f, l, r)
    BY <1>1, <2>1, <2>2, <2>3 DEF IsLine, From
  <2> QED BY <2>1, <2>2, <2>4 DEF l
<1>3. /\ IsSeq(text)
      /\ \A n \in DOMAIN text : Declares(text[n]) => text[n].of = c.name
      /\ \A n, k \in DOMAIN text : Declares(text[n]) /\ Declares(text[k]) => n = k
      /\ \E at : \A n \in DOMAIN text : IsSample(text[n]) =>
           /\ at[n][1] \in DOMAIN c.metric
           /\ at[n][2] \in DOMAIN L(at[n][1])
           /\ text[n] = L(at[n][1])[at[n][2]]
           /\ \A k \in DOMAIN text :
                IsSample(text[k]) /\ at[n][1] = at[k][1] /\ at[n][2] = at[k][2] => n = k
  <2>1. \A k \in DOMAIN c.metric : IsSeq(L(k)) /\ \A r \in DOMAIN L(k) : ~Declares(L(k)[r])
    BY <1>1, <1>2
  <2> QED BY <1>1, <2>1, FamilyText
<1> HIDE DEF L, text
<1>4. PICK of : \A n \in DOMAIN text : IsSample(text[n]) =>
        /\ of[n][1] \in DOMAIN c.metric
        /\ of[n][2] \in DOMAIN L(of[n][1])
        /\ text[n] = L(of[n][1])[of[n][2]]
        /\ \A k \in DOMAIN text :
             IsSample(text[k]) /\ of[n][1] = of[k][1] /\ of[n][2] = of[k][2] => n = k
  BY <1>3
<1> DEFINE at == [n \in DOMAIN text |-> <<order[of[n][1]], of[n][2]>>]
<1>5. \A n \in DOMAIN text : at[n][1] = order[of[n][1]] /\ at[n][2] = of[n][2]
  OBVIOUS
<1> HIDE DEF at
<1>6. \A n \in DOMAIN text : IsSample(text[n]) => From(text[n], T, f, at[n][1], at[n][2])
  BY <1>1, <1>2, <1>4, <1>5
<1>7. \A n, k \in DOMAIN text :
        IsSample(text[n]) /\ IsSample(text[k]) /\ at[n][1] = at[k][1] /\ at[n][2] = at[k][2] => n = k
  BY <1>1, <1>4, <1>5
<1> QED BY <1>3, <1>6, <1>7 DEF text

\* The lines of a text come from the families of its scrape.
LEMMA TextIs ==
  ASSUME IInv
  PROVE  /\ IsSeq(Text)
         /\ \E at : Places(at, [p \in DOMAIN Collect |-> SerializeFamily(Collect[p])], Text)
<1> DEFINE all == Collect
           seqs == [p \in DOMAIN all |-> SerializeFamily(all[p])]
<1>1. /\ IsSeq(all)
      /\ \A p \in DOMAIN all : \E T \in Types : \E i \in DOMAIN families[T] :
           Shown(all[p], T, families[T][i])
  BY CollectIs
<1>2. \A T \in Types : \A i \in DOMAIN families[T] : Good(T, families[T][i])
  BY ByFamily DEF Each
<1>3. Text = FlattenSeq(seqs)
  BY DEF Text, Serialize
<1> HIDE DEF all
<1>4. Len(all) \in Nat /\ DOMAIN all = 1..Len(all)
  BY <1>1, SeqIs
<1>5. \A p \in DOMAIN all : IsSeq(SerializeFamily(all[p]))
  BY <1>1, <1>2, FamilySamples
<1>6. DOMAIN seqs = DOMAIN all /\ \A p \in DOMAIN all : seqs[p] = SerializeFamily(all[p])
  OBVIOUS
<1>7. IsSeq(seqs)
  <2>1. seqs = [k \in 1..Len(all) |-> seqs[k]]
    BY <1>4
  <2> HIDE DEF seqs
  <2> QED BY <1>4, <2>1, FunctionIsSeq
<1> HIDE DEF seqs
<1>8. IsSeq(FlattenSeq(seqs)) /\ \E at : Places(at, seqs, FlattenSeq(seqs))
  BY <1>5, <1>6, <1>7, Placing
<1> QED BY <1>3, <1>8 DEF seqs, all

\* A line of a text is a line of a family in it.
LEMMA LineOf ==
  ASSUME IInv
  PROVE  \E at :
    /\ \A n \in DOMAIN Text :
         /\ at[n][1] \in DOMAIN Collect
         /\ at[n][2] \in DOMAIN SerializeFamily(Collect[at[n][1]])
         /\ Text[n] = SerializeFamily(Collect[at[n][1]])[at[n][2]]
    /\ \A n, k \in DOMAIN Text : at[n][1] = at[k][1] /\ at[n][2] = at[k][2] => n = k
<1> DEFINE all == Collect
           text == Text
           seqs == [p \in DOMAIN all |-> SerializeFamily(all[p])]
<1>1. PICK at : Places(at, seqs, text)
  BY TextIs
<1>2. DOMAIN seqs = DOMAIN all /\ \A p \in DOMAIN all : seqs[p] = SerializeFamily(all[p])
  OBVIOUS
<1> HIDE DEF all, text, seqs
<1>3. \A n \in DOMAIN text : /\ at[n][1] \in DOMAIN all
                             /\ at[n][2] \in DOMAIN SerializeFamily(all[at[n][1]])
                             /\ text[n] = SerializeFamily(all[at[n][1]])[at[n][2]]
  BY <1>1, <1>2 DEF Places
<1>4. \A n, k \in DOMAIN text : at[n][1] = at[k][1] /\ at[n][2] = at[k][2] => n = k
  BY <1>1 DEF Places
<1> QED BY <1>3, <1>4 DEF all, text

\* What the families of a scrape are.
LEMMA FamilyOf ==
  ASSUME IInv, NEW p \in DOMAIN Collect
  PROVE  \E T \in Types : \E i \in DOMAIN families[T] :
           Good(T, families[T][i]) /\ Shown(Collect[p], T, families[T][i])
BY CollectIs, ByFamily DEF Each

LEMMA TypeOnceHolds == IInv => TypeOnce
<1> SUFFICES ASSUME IInv PROVE TypeOnce
  OBVIOUS
<1> DEFINE all == Collect
           text == Text
<1>1. PICK at : /\ \A n \in DOMAIN text :
                     /\ at[n][1] \in DOMAIN all
                     /\ at[n][2] \in DOMAIN SerializeFamily(all[at[n][1]])
                     /\ text[n] = SerializeFamily(all[at[n][1]])[at[n][2]]
                /\ \A n, k \in DOMAIN text : at[n][1] = at[k][1] /\ at[n][2] = at[k][2] => n = k
  BY LineOf
<1>2. \A p, q \in DOMAIN all : all[p].name = all[q].name => p = q
  BY CollectIs
<1>3. \A p \in DOMAIN all :
        /\ \A n \in DOMAIN SerializeFamily(all[p]) :
             Declares(SerializeFamily(all[p])[n]) => SerializeFamily(all[p])[n].of = all[p].name
        /\ \A n, k \in DOMAIN SerializeFamily(all[p]) :
             Declares(SerializeFamily(all[p])[n]) /\ Declares(SerializeFamily(all[p])[k]) => n = k
  <2> SUFFICES ASSUME NEW p \in DOMAIN all
               PROVE  /\ \A n \in DOMAIN SerializeFamily(all[p]) :
                           Declares(SerializeFamily(all[p])[n])
                             => SerializeFamily(all[p])[n].of = all[p].name
                      /\ \A n, k \in DOMAIN SerializeFamily(all[p]) :
                           Declares(SerializeFamily(all[p])[n])
                             /\ Declares(SerializeFamily(all[p])[k]) => n = k
    OBVIOUS
  <2>1. PICK T \in Types : \E i \in DOMAIN families[T] :
          Good(T, families[T][i]) /\ Shown(all[p], T, families[T][i])
    BY FamilyOf
  <2>2. PICK i \in DOMAIN families[T] : Good(T, families[T][i]) /\ Shown(all[p], T, families[T][i])
    BY <2>1
  <2> QED BY <2>2, FamilySamples
<1> HIDE DEF all, text
<1>4. ASSUME NEW n \in DOMAIN text, NEW k \in DOMAIN text,
             Declares(text[n]), Declares(text[k]), text[n].of = text[k].of
      PROVE  n = k
  <2>1. text[n].of = all[at[n][1]].name /\ text[k].of = all[at[k][1]].name
    BY <1>1, <1>3, <1>4
  <2>2. at[n][1] = at[k][1]
    BY <1>1, <1>2, <1>4, <2>1
  <2>3. at[n][2] = at[k][2]
    BY <1>1, <1>3, <1>4, <2>2
  <2> QED BY <1>1, <2>2, <2>3
<1> QED BY <1>4 DEF TypeOnce, text

\* Where a sample of a text comes from.
LEMMA SampleOf ==
  ASSUME IInv, NEW line \in Range(Text), IsSample(line)
  PROVE  \E T \in Types : \E i \in DOMAIN families[T] :
           Good(T, families[T][i]) /\ \E l, r : From(line, T, families[T][i], l, r)
<1>1. PICK n \in DOMAIN Text : line = Text[n]
  BY DEF Range
<1>2. PICK p \in DOMAIN Collect : \E k \in DOMAIN SerializeFamily(Collect[p]) :
        line = SerializeFamily(Collect[p])[k]
  BY <1>1, LineOf
<1>3. PICK k \in DOMAIN SerializeFamily(Collect[p]) : line = SerializeFamily(Collect[p])[k]
  BY <1>2
<1>4. PICK T \in Types : \E i \in DOMAIN families[T] :
        Good(T, families[T][i]) /\ Shown(Collect[p], T, families[T][i])
  BY FamilyOf
<1>5. PICK i \in DOMAIN families[T] : Good(T, families[T][i]) /\ Shown(Collect[p], T, families[T][i])
  BY <1>4
<1> DEFINE f == families[T][i]
           c == Collect[p]
           text == SerializeFamily(c)
<1>6. \E at : \A m \in DOMAIN text : IsSample(text[m]) =>
        /\ From(text[m], T, f, at[m][1], at[m][2])
        /\ \A j \in DOMAIN text :
             IsSample(text[j]) /\ at[m][1] = at[j][1] /\ at[m][2] = at[j][2] => m = j
  <2> HIDE DEF f, c
  <2>1. Good(T, f) /\ Shown(c, T, f)
    BY <1>5 DEF f, c
  <2> QED BY <2>1, FamilySamples
<1> HIDE DEF f, c, text
<1>7. \E l, r : From(text[k], T, f, l, r)
  BY <1>3, <1>6 DEF text, c
<1> QED BY <1>3, <1>5, <1>7 DEF f, c, text

LEMMA ExtraIs ==
  ASSUME NEW T, NEW m, NEW r
  PROVE  Added(T, Extra(T, m, r))
<1> DEFINE e == Extra(T, m, r)
<1>1. CASE HasBound(T, r)
  <2>1. e = <<<<Reserved(T), WriteValue(Bounds(T, m)[r - 2])>>>>
    BY <1>1 DEF Extra
  <2>2. T \in {"Histogram", "Summary"}
    BY <1>1 DEF HasBound
  <2> HIDE DEF e
  <2>3. \E v : e = <<<<Reserved(T), v>>>>
    BY <2>1
  <2>4. Added(T, e)
    BY <2>2, <2>3 DEF Added
  <2> QED BY <2>4 DEF e
<1>2. CASE ~HasBound(T, r)
  BY <1>2 DEF Extra, Added
<1> QED BY <1>1, <1>2

LEMMA LabelNamesUniqueHolds == IInv => LabelNamesUnique
<1> SUFFICES ASSUME IInv, NEW line \in Range(Text), IsSample(line)
             PROVE  IsInjective([k \in DOMAIN line.label |-> line.label[k][1]])
  BY DEF LabelNamesUnique
<1>1. PICK T \in Types : \E i \in DOMAIN families[T] :
        Good(T, families[T][i]) /\ \E l, r : From(line, T, families[T][i], l, r)
  BY SampleOf
<1>2. PICK i \in DOMAIN families[T] :
        Good(T, families[T][i]) /\ \E l, r : From(line, T, families[T][i], l, r)
  BY <1>1
<1> DEFINE f == families[T][i]
<1>3. PICK l, r : From(line, T, f, l, r)
  BY <1>2
<1> DEFINE e == Extra(T, f.metrics[l], r)
           label == (Pairs(f.constant_labels) \o Pairs(l)) \o e
<1>4. l \in DOMAIN f.metrics /\ line.label = label
  BY <1>3 DEF From
<1>5. Added(T, e)
  BY ExtraIs
<1>6. Good(T, f)
  BY <1>2
<1> HIDE DEF f, e
<1>7. Distinct(label)
  BY <1>4, <1>5, <1>6, LabelIs
<1> HIDE DEF label
<1>8. Distinct(line.label)
  BY <1>4, <1>7
<1> QED BY <1>8 DEF Distinct, IsInjective

\* The text of a registry declares the type of each name once, whatever families
\* of whatever types there have been (registry.cc:136-158, family.cc:92-94).
THEOREM TypesDeclaredOnce == Spec => []TypeOnce
BY ExpositionInvariance, TypeOnceHolds, PTL

\* No sample of it has two labels of one name, for any label sets that programs
\* give families and metrics (family.cc:25-29 and 42-51, check_names.cc:76-79).
THEOREM LabelNamesNeverMeet == Spec => []LabelNamesUnique
BY ExpositionInvariance, LabelNamesUniqueHolds, PTL

-----------------------------------------------------------------------------
(* Exposition: series                                                       *)

Ending(s) == s = << >> \/ \E x \in {"count", "sum", "bucket", "info"} : s = <<"_", x>>

LEMMA SuffixEnds ==
  ASSUME NEW T, NEW r
  PROVE  Ending(Suffix(T, r))
<1>1. /\ Ending(<<"_", "count">>) /\ Ending(<<"_", "sum">>) /\ Ending(<<"_", "bucket">>)
      /\ Ending(<<"_", "info">>) /\ Ending(<< >>)
  BY DEF Ending
<1> QED BY <1>1 DEF Suffix

\* Without a name that ends like a derived one, names tell the family and the end.
LEMMA NamesTell ==
  ASSUME NEW a, NEW b, IsSeq(a), IsSeq(b), NEW s, NEW t, Ending(s), Ending(t),
         \A x \in {"count", "sum", "bucket", "info"} : a # b \o <<"_", x>> /\ b # a \o <<"_", x>>,
         a \o s = b \o t
  PROVE  a = b /\ s = t
<1>1. a \o << >> = a /\ b \o << >> = b
  <2>1. a \o << >> = a
    BY ONLY IsSeq(a) DEF IsSeq
  <2>2. b \o << >> = b
    BY ONLY IsSeq(b) DEF IsSeq
  <2> QED BY <2>1, <2>2
<1>2. ASSUME NEW u, Ending(u)
      PROVE  IsSeq(u) /\ (u = << >> \/ Len(u) = 2)
  BY <1>2, Tuples DEF Ending
<1>3. CASE s = << >> /\ t = << >>
  BY <1>1, <1>3
<1>4. CASE s = << >> /\ t # << >>
  <2>1. PICK x \in {"count", "sum", "bucket", "info"} : t = <<"_", x>>
    BY <1>4 DEF Ending
  <2> QED BY <1>1, <1>4, <2>1
<1>5. CASE s # << >> /\ t = << >>
  <2>1. PICK x \in {"count", "sum", "bucket", "info"} : s = <<"_", x>>
    BY <1>5 DEF Ending
  <2> QED BY <1>1, <1>5, <2>1
<1>6. CASE s # << >> /\ t # << >>
  <2>1. IsSeq(s) /\ IsSeq(t) /\ Len(s) = Len(t)
    BY <1>2, <1>6
  <2> DEFINE z == a \o s
  <2>2. Ends(z, a, s) /\ Ends(z, b, t)
    BY <2>1 DEF Ends
  <2> HIDE DEF z
  <2> QED BY <2>1, <2>2, SameFront
<1> QED BY <1>3, <1>4, <1>5, <1>6

\* The end of the name tells which line of a metric it is, up to the bound.
LEMMA SuffixTells ==
  ASSUME NEW T, NEW r, NEW s, Suffix(T, r) = Suffix(T, s),
         T \notin {"Histogram", "Summary"} => r = 1 /\ s = 1
  PROVE  (HasBound(T, r) <=> HasBound(T, s)) /\ (~HasBound(T, r) => r = s)
<1>1. CASE T \notin {"Histogram", "Summary"}
  BY <1>1 DEF HasBound
<1>2. CASE T \in {"Histogram", "Summary"}
  <2>1. \A k : /\ k = 1 => Suffix(T, k) = <<"_", "count">>
               /\ k = 2 => Suffix(T, k) = <<"_", "sum">>
               /\ k \notin {1, 2} => Suffix(T, k) \in {<< >>, <<"_", "bucket">>}
    <3> SUFFICES ASSUME NEW k
                 PROVE  /\ k = 1 => Suffix(T, k) = <<"_", "count">>
                        /\ k = 2 => Suffix(T, k) = <<"_", "sum">>
                        /\ k \notin {1, 2} => Suffix(T, k) \in {<< >>, <<"_", "bucket">>}
      OBVIOUS
    <3>1. k = 1 => Suffix(T, k) = <<"_", "count">>
      BY <1>2 DEF Suffix
    <3>2. k = 2 => Suffix(T, k) = <<"_", "sum">>
      <4>1. 2 # 1
        OBVIOUS
      <4> QED BY <1>2, <4>1, Zenon DEF Suffix
    <3>3. ASSUME k \notin {1, 2}
          PROVE  Suffix(T, k) \in {<< >>, <<"_", "bucket">>}
      <4>1. k # 1 /\ k # 2
        BY <3>3
      <4>2. Suffix(T, k) = IF T = "Histogram" THEN <<"_", "bucket">> ELSE IF T = "Info" THEN <<"_", "info">> ELSE << >>
        BY <4>1, Zenon DEF Suffix
      <4> QED BY <1>2, <4>2
    <3> QED BY <3>1, <3>2, <3>3
  <2>2. /\ <<"_", "count">> # <<"_", "sum">>
        /\ <<"_", "count">> \notin {<< >>, <<"_", "bucket">>}
        /\ <<"_", "sum">> \notin {<< >>, <<"_", "bucket">>}
    OBVIOUS
  <2>3. \A k : HasBound(T, k) <=> k \notin {1, 2}
    BY <1>2 DEF HasBound
  <2>4. CASE r = 1
    <3>1. s = 1
      BY <2>1, <2>2, <2>4
    <3> QED BY <2>3, <2>4, <3>1
  <2>5. CASE r = 2
    <3>1. s = 2
      BY <2>1, <2>2, <2>5
    <3> QED BY <2>3, <2>5, <3>1
  <2>6. CASE r \notin {1, 2}
    <3>1. s \notin {1, 2}
      BY <2>1, <2>2, <2>6
    <3> QED BY <2>3, <2>6, <3>1
  <2> QED BY <2>4, <2>5, <2>6
<1> QED BY <1>1, <1>2

\* Two samples of a family have the same name and labels.
SameSeries(T, f, line, l, r, other, k, s) ==
  /\ From(line, T, f, l, r) /\ From(other, T, f, k, s)
  /\ Suffix(T, r) = Suffix(T, s) /\ Range(line.label) = Range(other.label)

\* They are from the same line of the same metric.
LEMMA SamePlace ==
  ASSUME IInv, BoundsApart, NEW T \in Types, NEW i \in DOMAIN families[T],
         NEW line, NEW l, NEW r, NEW other, NEW k, NEW s,
         SameSeries(T, families[T][i], line, l, r, other, k, s)
  PROVE  l = k /\ r = s
<1> USE DEF SameSeries
<1> DEFINE f == families[T][i]
           e == Extra(T, f.metrics[l], r)
           g == Extra(T, f.metrics[k], s)
<1>1. Good(T, f)
  BY ByFamily DEF Each
<1>2. /\ l \in DOMAIN f.metrics /\ k \in DOMAIN f.metrics /\ r \in Nat /\ s \in Nat
      /\ HasBound(T, r) => r - 2 \in DOMAIN Bounds(T, f.metrics[l])
      /\ HasBound(T, s) => s - 2 \in DOMAIN Bounds(T, f.metrics[k])
      /\ T \notin {"Histogram", "Summary"} => r = 1 /\ s = 1
      /\ line.label = (Pairs(f.constant_labels) \o Pairs(l)) \o e
      /\ other.label = (Pairs(f.constant_labels) \o Pairs(k)) \o g
  BY DEF From
<1>3. (HasBound(T, r) <=> HasBound(T, s)) /\ (~HasBound(T, r) => r = s)
  BY <1>2, SuffixTells
<1>4. Added(T, e) /\ Added(T, g)
  BY ExtraIs
<1>5. e = << >> <=> g = << >>
  <2>1. \A m, n : /\ HasBound(T, n) => Extra(T, m, n) # << >>
                  /\ ~HasBound(T, n) => Extra(T, m, n) = << >>
    BY DEF Extra
  <2> QED BY <1>3, <2>1
<1>6. f \in Families(T)
  BY DEF Families, Range
<1> HIDE DEF f, e, g
<1>7. l = k /\ e = g
  BY <1>1, <1>2, <1>4, <1>5, LabelsTell
<1>8. ASSUME HasBound(T, r)
      PROVE  r = s
  <2> DEFINE b == Bounds(T, f.metrics[l])
             v == WriteValue(b[r - 2])
             w == WriteValue(b[s - 2])
  <2>1. r - 2 \in DOMAIN b /\ s - 2 \in DOMAIN b
    BY <1>2, <1>3, <1>7, <1>8
  <2>2. e = <<<<Reserved(T), v>>>> /\ g = <<<<Reserved(T), w>>>>
    BY <1>3, <1>7, <1>8 DEF Extra, e, g
  <2> HIDE DEF v, w
  <2>3. v = w
    <3> DEFINE d == <<Reserved(T), v>>
               h == <<Reserved(T), w>>
    <3>1. d[2] = v /\ h[2] = w
      OBVIOUS
    <3>2. <<d>> = <<h>>
      BY <1>7, <2>2
    <3> HIDE DEF d, h
    <3>3. d = h
      BY <3>2, Tuples
    <3> QED BY <3>1, <3>3
  <2> HIDE DEF b
  <2>4. IsInjective([n \in DOMAIN b |-> WriteValue(b[n])])
    <3>1. T \in Types \cap {"Histogram", "Summary"} /\ f.metrics[l] \in Range(f.metrics)
      BY <1>2, <1>8 DEF HasBound, Range
    <3> QED BY <1>6, <3>1 DEF BoundsApart, Bounds, b
  <2>5. \A m, n \in DOMAIN b : WriteValue(b[m]) = WriteValue(b[n]) => m = n
    BY <2>4 DEF IsInjective
  <2>6. r - 2 = s - 2
    BY <2>1, <2>3, <2>5 DEF v, w
  <2> QED BY <1>2, <2>6
<1> QED BY <1>3, <1>7, <1>8

LEMMA SeriesUniqueHolds == IInv => SeriesUniqueIfApart
<1> SUFFICES ASSUME IInv, NamesApart, BoundsApart, NEW n \in DOMAIN Text, NEW k \in DOMAIN Text,
                    IsSample(Text[n]), IsSample(Text[k]), Series(Text[n]) = Series(Text[k])
             PROVE  n = k
  BY DEF SeriesUniqueIfApart, SeriesUnique
<1> DEFINE all == Collect
           text == Text
           x == text[n]
           y == text[k]
<1>1. PICK at : /\ \A m \in DOMAIN text :
                     /\ at[m][1] \in DOMAIN all
                     /\ at[m][2] \in DOMAIN SerializeFamily(all[at[m][1]])
                     /\ text[m] = SerializeFamily(all[at[m][1]])[at[m][2]]
                /\ \A m, j \in DOMAIN text : at[m][1] = at[j][1] /\ at[m][2] = at[j][2] => m = j
  BY LineOf
<1>2. \A p, q \in DOMAIN all : all[p].name = all[q].name => p = q
  BY CollectIs
<1>3. x.name = y.name /\ Range(x.label) = Range(y.label)
  BY DEF Series
<1> HIDE DEF all, x, y
<1> DEFINE p == at[n][1]
           q == at[k][1]
<1>4. p \in DOMAIN all /\ q \in DOMAIN all
  BY <1>1
<1>5. PICK T \in Types : \E i \in DOMAIN families[T] :
        Good(T, families[T][i]) /\ Shown(all[p], T, families[T][i])
  BY <1>4, FamilyOf DEF all
<1>6. PICK i \in DOMAIN families[T] : Good(T, families[T][i]) /\ Shown(all[p], T, families[T][i])
  BY <1>5
<1>7. PICK U \in Types : \E j \in DOMAIN families[U] :
        Good(U, families[U][j]) /\ Shown(all[q], U, families[U][j])
  BY <1>4, FamilyOf DEF all
<1>8. PICK j \in DOMAIN families[U] : Good(U, families[U][j]) /\ Shown(all[q], U, families[U][j])
  BY <1>7
<1> DEFINE f == families[T][i]
           g == families[U][j]
           X == SerializeFamily(all[p])
           Y == SerializeFamily(all[q])
<1>9. PICK fr : \A m \in DOMAIN X : IsSample(X[m]) =>
        /\ From(X[m], T, f, fr[m][1], fr[m][2])
        /\ \A h \in DOMAIN X : IsSample(X[h]) /\ fr[m][1] = fr[h][1] /\ fr[m][2] = fr[h][2] => m = h
  <2> HIDE DEF f
  <2>1. Good(T, f) /\ Shown(all[p], T, f)
    BY <1>6 DEF f
  <2> QED BY <2>1, FamilySamples
<1>10. PICK go : \A m \in DOMAIN Y : IsSample(Y[m]) => From(Y[m], U, g, go[m][1], go[m][2])
  <2> HIDE DEF g
  <2>1. Good(U, g) /\ Shown(all[q], U, g)
    BY <1>8 DEF g
  <2> QED BY <2>1, FamilySamples
<1> DEFINE a == at[n][2]
           b == at[k][2]
<1>11. a \in DOMAIN X /\ x = X[a] /\ b \in DOMAIN Y /\ y = Y[b]
  BY <1>1 DEF x, y
<1>12. IsSample(x) /\ IsSample(y)
  BY DEF x, y
<1>13. From(x, T, f, fr[a][1], fr[a][2]) /\ From(y, U, g, go[b][1], go[b][2])
  BY <1>9, <1>10, <1>11, <1>12
<1> HIDE DEF text, X, Y, p, q, a, b
<1>14. f.name = g.name /\ Suffix(T, fr[a][2]) = Suffix(U, go[b][2])
  <2> DEFINE s == Suffix(T, fr[a][2])
             t == Suffix(U, go[b][2])
  <2>1. x.name = f.name \o s /\ y.name = g.name \o t
    BY <1>13 DEF From
  <2>2. IsSeq(f.name) /\ IsSeq(g.name)
    BY <1>6, <1>8 DEF Good, IsFamily
  <2>3. Ending(s) /\ Ending(t)
    BY SuffixEnds
  <2>4. \A z \in {"count", "sum", "bucket", "info"} :
          f.name # g.name \o <<"_", z>> /\ g.name # f.name \o <<"_", z>>
    <3>1. <<T, i>> \in All /\ <<U, j>> \in All
      BY DEF All
    <3>2. /\ <<T, i>>[1] = T /\ <<T, i>>[2] = i
          /\ <<U, j>>[1] = U /\ <<U, j>>[2] = j
      OBVIOUS
    <3> QED BY <3>1, <3>2 DEF NamesApart
  <2> HIDE DEF f, g, s, t
  <2>5. f.name \o s = g.name \o t
    BY <1>3, <2>1
  <2> DEFINE nf == f.name
             ng == g.name
  <2>6. /\ IsSeq(nf) /\ IsSeq(ng) /\ nf \o s = ng \o t
        /\ \A z \in {"count", "sum", "bucket", "info"} :
             nf # ng \o <<"_", z>> /\ ng # nf \o <<"_", z>>
    BY <2>2, <2>4, <2>5
  <2> HIDE DEF nf, ng
  <2>7. nf = ng /\ s = t
    BY ONLY <2>3, <2>6, NamesTell
  <2> QED BY <2>7 DEF s, t, nf, ng
<1>15. T = U /\ i = j
  BY <1>14, ByFamily DEF Each
<1>16. p = q
  <2>1. all[p].name = f.name /\ all[q].name = g.name
    <3>1. \A c, V, h : Shown(c, V, h) => c.name = h.name
      BY DEF Shown
    <3> QED BY <1>6, <1>8, <3>1
  <2> QED BY <1>2, <1>4, <1>14, <2>1
<1>17. Y = X /\ b \in DOMAIN X /\ y = X[b]
  BY <1>11, <1>16 DEF X, Y
<1>18. From(y, T, f, fr[b][1], fr[b][2])
  BY <1>9, <1>12, <1>17
<1>19. Suffix(T, fr[a][2]) = Suffix(T, fr[b][2])
  <2> DEFINE s == Suffix(T, fr[a][2])
             t == Suffix(T, fr[b][2])
             nf == f.name
  <2>1. IsSeq(nf) /\ Ending(s) /\ Ending(t)
    BY <1>6, SuffixEnds DEF Good, IsFamily
  <2>2. nf \o s = nf \o t
    BY <1>3, <1>13, <1>18 DEF From
  <2>3. \A z \in {"count", "sum", "bucket", "info"} : nf # nf \o <<"_", z>>
    <3>1. <<T, i>> \in All /\ <<T, i>>[1] = T /\ <<T, i>>[2] = i
      BY DEF All
    <3> QED BY <3>1 DEF NamesApart
  <2> HIDE DEF nf, s, t
  <2>4. s = t
    BY ONLY <2>1, <2>2, <2>3, NamesTell, ZenonT(30)
  <2> QED BY <2>4 DEF s, t
<1>20. fr[a][1] = fr[b][1] /\ fr[a][2] = fr[b][2]
  <2> DEFINE l == fr[a][1]
             r == fr[a][2]
             m == fr[b][1]
             s == fr[b][2]
  <2>1. SameSeries(T, families[T][i], x, l, r, y, m, s)
    BY <1>3, <1>13, <1>18, <1>19 DEF SameSeries
  <2> HIDE DEF l, r, m, s
  <2>2. T \in Types /\ i \in DOMAIN families[T]
    OBVIOUS
  <2>3. l = m /\ r = s
    BY ONLY IInv, BoundsApart, <2>1, <2>2, SamePlace
  <2> QED BY <2>3 DEF l, r, m, s
<1>21. a = b
  BY <1>9, <1>11, <1>12, <1>17, <1>20
<1>22. at[n][1] = at[k][1] /\ at[n][2] = at[k][2]
  BY <1>16, <1>21 DEF p, q, a, b
<1> QED BY <1>1, <1>22 DEF text

\* No two samples of it have the same name and labels, unless a name ends like a
\* derived one or two bounds are written alike (family.h:66).
THEOREM SeriesAreUnique == Spec => []SeriesUniqueIfApart
BY ExpositionInvariance, SeriesUniqueHolds, PTL

-----------------------------------------------------------------------------
(* Exposition: sums of counts                                               *)

\* The largest number of an interval, and of a set that ends with it.
LEMMA Largest ==
  ASSUME NEW n \in Nat, NEW S \in SUBSET (1..n), n \in S
  PROVE  Max(S) = n
<1>1. \A y \in S : n >= y
  OBVIOUS
<1>2. \A x \in S : (\A y \in S : x >= y) => x = n
  OBVIOUS
<1> QED BY <1>1, <1>2 DEF Max

\* A set of numbers below a bound has a largest one.
LEMMA HasLargest ==
  ASSUME NEW n \in Nat, NEW S \in SUBSET (1..n), S # {}
  PROVE  Max(S) \in S
<1> DEFINE T == {k \in Nat : \A R \in SUBSET (1..k) : R # {} => \E x \in R : \A y \in R : x >= y}
<1>1. 0 \in T
  <2>1. 1..0 = {}
    OBVIOUS
  <2> QED BY <2>1
<1>2. ASSUME NEW k \in Nat, k \in T
      PROVE  k + 1 \in T
  <2> SUFFICES ASSUME NEW R \in SUBSET (1..(k + 1)), R # {}
               PROVE  \E x \in R : \A y \in R : x >= y
    OBVIOUS
  <2>1. CASE k + 1 \in R
    BY <2>1
  <2>2. CASE k + 1 \notin R
    <3>1. R \in SUBSET (1..k)
      <4>1. \A x \in 1..(k + 1) : x # k + 1 => x \in 1..k
        OBVIOUS
      <4> QED BY <2>2, <4>1
    <3> QED BY <1>2, <3>1
  <2> QED BY <2>1, <2>2
<1>3. n \in T
  <2> HIDE DEF T
  <2> QED BY <1>1, <1>2, Induction
<1> QED BY <1>3 DEF Max

\* g folds op over the elements of seq at the places of any set.
Folds(g, N, base, op, seq) == \A s \in SUBSET (1..N) :
  g[s] = IF s = {} THEN base ELSE op[g[s \ {Max(s)}]][seq[Max(s)]]

LEMMA FoldExists ==
  ASSUME NEW N \in Nat, NEW A, NEW B, NEW base \in A, NEW op \in [A -> [B -> A]],
         NEW seq \in [1..N -> B]
  PROVE  \E g \in [SUBSET (1..N) -> A] : Folds(g, N, base, op, seq)
<1> DEFINE Fold(k, g) == \A s \in SUBSET (1..k) :
             g[s] = IF s = {} THEN base ELSE op[g[s \ {Max(s)}]][seq[Max(s)]]
           Done0(k) == \E g \in [SUBSET (1..k) -> A] : Fold(k, g)
           S == {k \in Nat : k <= N => Done0(k)}
<1>1. Done0(0)
  <2>1. SUBSET (1..0) = {{}}
    OBVIOUS
  <2> DEFINE g == [s \in SUBSET (1..0) |-> base]
  <2>2. g \in [SUBSET (1..0) -> A] /\ Fold(0, g)
    BY <2>1
  <2> QED BY <2>2
<1>2. ASSUME NEW k \in Nat, k + 1 <= N, Done0(k)
      PROVE  Done0(k + 1)
  <2>1. PICK g \in [SUBSET (1..k) -> A] : Fold(k, g)
    BY <1>2
  <2> DEFINE h == [s \in SUBSET (1..(k + 1)) |->
                     IF k + 1 \in s THEN op[g[s \ {k + 1}]][seq[k + 1]] ELSE g[s]]
  <2>2. \A s \in SUBSET (1..(k + 1)) :
          /\ s \ {k + 1} \in SUBSET (1..k)
          /\ k + 1 \notin s => s \in SUBSET (1..k)
    <3>1. \A x \in 1..(k + 1) : x # k + 1 => x \in 1..k
      OBVIOUS
    <3> QED BY <3>1
  <2>3. \A s \in SUBSET (1..k) : s \in SUBSET (1..(k + 1)) /\ k + 1 \notin s
    OBVIOUS
  <2>4. h \in [SUBSET (1..(k + 1)) -> A]
    <3>1. k + 1 \in 1..N
      <4>1. k \in Nat /\ k + 1 <= N /\ N \in Nat
        BY <1>2
      <4> QED BY ONLY <4>1
    <3>2. \A s \in SUBSET (1..(k + 1)) : k + 1 \in s => op[g[s \ {k + 1}]][seq[k + 1]] \in A
      <4>1. \A s \in SUBSET (1..(k + 1)) : g[s \ {k + 1}] \in A
        BY <2>2
      <4>2. seq[k + 1] \in B
        BY <3>1
      <4>3. \A x \in A : op[x][seq[k + 1]] \in A
        BY <4>2
      <4> QED BY <4>1, <4>3
    <3>3. \A s \in SUBSET (1..(k + 1)) : k + 1 \notin s => g[s] \in A
      BY <2>2
    <3> QED BY <3>2, <3>3
  <2>5. \A s \in SUBSET (1..k) : h[s] = g[s]
    BY <2>3
  <2>6. ASSUME NEW s \in SUBSET (1..(k + 1)), k + 1 \in s
        PROVE  h[s] = IF s = {} THEN base ELSE op[h[s \ {Max(s)}]][seq[Max(s)]]
    <3>1. Max(s) = k + 1
      BY <2>6, Largest
    <3>2. h[s \ {k + 1}] = g[s \ {k + 1}]
      BY <2>2, <2>5
    <3>3. h[s] = op[g[s \ {k + 1}]][seq[k + 1]]
      BY <2>6
    <3> HIDE DEF h
    <3> QED BY <2>6, <3>1, <3>2, <3>3
  <2>7. ASSUME NEW s \in SUBSET (1..(k + 1)), k + 1 \notin s
        PROVE  h[s] = IF s = {} THEN base ELSE op[h[s \ {Max(s)}]][seq[Max(s)]]
    <3>1. s \in SUBSET (1..k) /\ s \ {Max(s)} \in SUBSET (1..k)
      BY <2>2, <2>7
    <3>2. h[s] = g[s] /\ h[s \ {Max(s)}] = g[s \ {Max(s)}]
      BY <2>5, <3>1
    <3> HIDE DEF h
    <3> QED BY <2>1, <3>1, <3>2
  <2> HIDE DEF h
  <2>8. Fold(k + 1, h)
    BY <2>6, <2>7
  <2> QED BY <2>4, <2>8
<1>3. N \in S
  <2>1. 0 \in S
    BY <1>1
  <2>2. \A k \in Nat : k \in S => k + 1 \in S
    <3> HIDE DEF Done0
    <3> QED BY <1>2
  <2> HIDE DEF S
  <2> QED BY <2>1, <2>2, Induction
<1> QED
  <2>1. Done0(N)
    <3> HIDE DEF Done0
    <3> QED BY <1>3
  <2> QED BY <2>1 DEF Folds

\* The last number of an interval, and the rest.
LEMMA LastOf ==
  ASSUME NEW N \in Nat, NEW m \in 1..N
  PROVE  m \in Nat /\ 1..m \in SUBSET (1..N) /\ m \in 1..m /\ (1..m) \ {m} = 1..(m - 1)
<1>1. m \in Nat /\ m >= 1 /\ m <= N /\ N \in Nat
  OBVIOUS
<1>2. \A x \in Int : x \in 1..(m - 1) <=> x \in 1..m /\ x # m
  BY ONLY <1>1
<1>3. 1..m \subseteq Int /\ 1..(m - 1) \subseteq Int
  BY ONLY <1>1
<1>4. (1..m) \ {m} = 1..(m - 1)
  BY ONLY <1>2, <1>3
<1>5. 1..m \subseteq 1..N /\ m \in 1..m
  BY ONLY <1>1
<1> QED BY ONLY <1>1, <1>4, <1>5

\* G is the results of a fold so far, from left to right.
Runs(G, N, base, op, seq) == G[0] = base /\ \A m \in 1..N : G[m] = op[G[m - 1]][seq[m]]

\* A fold over a sequence goes from left to right.
LEMMA RunningExists ==
  ASSUME NEW N \in Nat, NEW A, NEW B, NEW base \in A, NEW op \in [A -> [B -> A]],
         NEW seq \in [1..N -> B]
  PROVE  \E G \in [0..N -> A] : Runs(G, N, base, op, seq)
<1>1. PICK g \in [SUBSET (1..N) -> A] : Folds(g, N, base, op, seq)
  BY FoldExists
<1> DEFINE G == [m \in 0..N |-> g[1..m]]
<1>2. G \in [0..N -> A]
  <2>1. \A m \in 0..N : 1..m \in SUBSET (1..N)
    OBVIOUS
  <2> QED BY <2>1
<1>3. g[1..0] = base
  <2>1. 1..0 = {} /\ {} \in SUBSET (1..N)
    OBVIOUS
  <2> QED BY <1>1, <2>1 DEF Folds
<1>4. ASSUME NEW m \in 1..N
      PROVE  g[1..m] = op[g[1..(m - 1)]][seq[m]]
  <2>1. m \in Nat /\ 1..m \in SUBSET (1..N) /\ m \in 1..m /\ (1..m) \ {m} = 1..(m - 1)
    BY LastOf
  <2>2. Max(1..m) = m
    BY ONLY <2>1, Largest
  <2> QED BY ONLY <2>1, <2>2, <1>1 DEF Folds
<1>5. Runs(G, N, base, op, seq)
  <2>1. 0 \in 0..N /\ \A m \in 1..N : m \in 0..N /\ m - 1 \in 0..N
    OBVIOUS
  <2> QED BY <1>3, <1>4, <2>1 DEF Runs
<1> HIDE DEF G
<1> QED BY <1>2, <1>5

\* Two results that start alike and go on alike are the same.
Alike(G, H, N) == G[0] = H[0] /\ \A m \in 1..N : G[m - 1] = H[m - 1] => G[m] = H[m]

LEMMA SameResult ==
  ASSUME NEW N \in Nat, NEW G, NEW H, Alike(G, H, N)
  PROVE  G[N] = H[N]
<1> DEFINE S == {k \in Nat : k <= N => G[k] = H[k]}
<1>1. 0 \in S
  BY DEF Alike
<1>2. ASSUME NEW k \in Nat, k \in S
      PROVE  k + 1 \in S
  <2>1. CASE k + 1 <= N
    <3>1. k + 1 \in 1..N /\ (k + 1) - 1 = k /\ k <= N
      BY <2>1
    <3>2. G[(k + 1) - 1] = H[(k + 1) - 1]
      BY <1>2, <3>1
    <3>3. G[k + 1] = H[k + 1]
      BY <3>1, <3>2 DEF Alike
    <3> QED BY <3>3
  <2> QED BY <2>1
<1> HIDE DEF S
<1>3. Nat \subseteq S
  BY <1>1, <1>2, Induction
<1> QED BY <1>3 DEF S

\* + of counts, one argument at a time.
Adding(A) == [x \in A |-> [y \in A |-> x + y]]

\* The sum of a sequence of numbers has the running sums of the sequence.
LEMMA TotalFolds ==
  ASSUME NEW s \in Seq(Int), NEW G \in [0..Len(s) -> Int], G[0] = 0,
         \A m \in 1..Len(s) : G[m] = G[m - 1] + s[m]
  PROVE  Total(s) = G[Len(s)]
<1> DEFINE N == Len(s)
           iter == CHOOSE f : f = [S \in SUBSET DOMAIN s |->
                     IF S = {} THEN 0 ELSE f[S \ {Max(S)}] + s[Max(S)]]
<1>1. Total(s) = iter[DOMAIN s]
  BY DEF Total, FoldLeft, MapThenFoldSet, Max
<1>2. N \in Nat /\ DOMAIN s = 1..N /\ s \in [1..N -> Int]
  OBVIOUS
<1> HIDE DEF N
<1> DEFINE op == Adding(Int)
           base == 0
           Numbers == Int
<1>3. op \in [Numbers -> [Numbers -> Numbers]] /\ \A x, y \in Int : op[x][y] = x + y
  BY DEF Adding
<1>4. base \in Numbers /\ s \in [1..N -> Numbers]
  BY ONLY <1>2
<1> HIDE DEF op
<1>5. PICK g \in [SUBSET (1..N) -> Numbers] : Folds(g, N, base, op, s)
  <2> HIDE DEF base, Numbers
  <2> QED BY ONLY <1>2, <1>3, <1>4, FoldExists
<1>6. \A S \in SUBSET (1..N) : g[S] = IF S = {} THEN 0 ELSE g[S \ {Max(S)}] + s[Max(S)]
  <2> TAKE S \in SUBSET (1..N)
  <2>1. CASE S # {}
    <3>1. Max(S) \in 1..N
      BY <1>2, <2>1, HasLargest
    <3>2. g[S \ {Max(S)}] \in Int /\ s[Max(S)] \in Int
      BY <1>2, <3>1
    <3> QED BY <1>3, <1>5, <2>1, <3>2 DEF Folds
  <2> QED BY <1>5, <2>1 DEF Folds
<1>7. \E f : f = [S \in SUBSET DOMAIN s |-> IF S = {} THEN 0 ELSE f[S \ {Max(S)}] + s[Max(S)]]
  BY <1>2, <1>6
<1>8. iter = [S \in SUBSET DOMAIN s |-> IF S = {} THEN 0 ELSE iter[S \ {Max(S)}] + s[Max(S)]]
  BY <1>7
<1> HIDE DEF iter
<1>9. iter[1..0] = 0
  <2>1. 1..0 = {} /\ {} \in SUBSET DOMAIN s
    OBVIOUS
  <2> QED BY <1>8, <2>1
<1>10. \A m \in 1..N : iter[1..m] = iter[1..(m - 1)] + s[m]
  <2> TAKE m \in 1..N
  <2>1. 1..m \in SUBSET DOMAIN s /\ m \in 1..m /\ (1..m) \ {m} = 1..(m - 1)
    BY <1>2, LastOf
  <2>2. Max(1..m) = m
    BY <1>2, <2>1, Largest
  <2> QED BY ONLY <1>8, <2>1, <2>2
<1>11. iter[1..N] = G[N]
  <2> DEFINE H == [m \in 0..N |-> iter[1..m]]
  <2>1. Alike(H, G, N)
    BY <1>2, <1>9, <1>10 DEF N, Alike
  <2>2. N \in 0..N /\ H[N] = iter[1..N]
    BY <1>2
  <2> HIDE DEF H
  <2>3. H[N] = G[N]
    BY <1>2, <2>1, SameResult
  <2> QED BY <2>2, <2>3
<1> QED BY <1>1, <1>2, <1>11 DEF N

\* The running sums of counts.
LEMMA Sums ==
  ASSUME NEW A \in {Nat, Int}, NEW s \in Seq(A)
  PROVE  \E G \in [0..Len(s) -> A] :
           /\ G[0] = 0 /\ \A m \in 1..Len(s) : G[m] = G[m - 1] + s[m]
           /\ Total(s) = G[Len(s)]
<1> DEFINE N == Len(s)
           op == Adding(A)
           base == 0
<1>1. N \in Nat /\ s \in [1..N -> A] /\ base \in A /\ \A x \in A : x \in Int
  OBVIOUS
<1>2. op \in [A -> [A -> A]] /\ \A x, y \in A : op[x][y] = x + y
  BY DEF Adding
<1> HIDE DEF op, base, N
<1>3. PICK G \in [0..N -> A] : Runs(G, N, base, op, s)
  BY ONLY <1>1, <1>2, RunningExists
<1>4. G[0] = 0 /\ \A m \in 1..N : G[m] = G[m - 1] + s[m]
  <2>1. \A m \in 1..N : G[m - 1] \in A /\ s[m] \in A
    BY <1>1
  <2> QED BY <1>2, <1>3, <2>1 DEF Runs, base
<1>5. s \in Seq(Int) /\ G \in [0..N -> Int]
  BY <1>1 DEF N
<1>6. Total(s) = G[N]
  BY <1>4, <1>5, TotalFolds DEF N
<1> QED BY <1>4, <1>6 DEF N

\* What the buckets of a histogram show grows up to what its count says.
LEMMA Cumulative ==
  ASSUME NEW n \in Nat, NEW s \in [1..n -> Nat]
  PROVE  \E G \in [0..n -> Nat] : /\ \A k \in 0..n : Total(SubSeq(s, 1, k)) = G[k]
                                  /\ \A k \in 1..n : G[k - 1] <= G[k]
                                  /\ Total(s) = G[n]
<1>1. s \in Seq(Nat) /\ Len(s) = n
  OBVIOUS
<1>2. PICK G \in [0..n -> Nat] : /\ G[0] = 0 /\ \A m \in 1..n : G[m] = G[m - 1] + s[m]
                                 /\ Total(s) = G[n]
  BY <1>1, Sums
<1>3. \A k \in 1..n : G[k - 1] <= G[k]
  <2> SUFFICES ASSUME NEW k \in 1..n PROVE G[k - 1] <= G[k]
    OBVIOUS
  <2>1. k - 1 \in 0..n /\ s[k] \in Nat /\ G[k] = G[k - 1] + s[k]
    BY <1>2
  <2>2. G[k - 1] \in Nat
    BY <2>1
  <2> QED BY <2>1, <2>2
<1>4. ASSUME NEW k \in 0..n
      PROVE  Total(SubSeq(s, 1, k)) = G[k]
  <2> DEFINE r == SubSeq(s, 1, k)
             H == [m \in 0..k |-> G[m]]
  <2>1. r \in Seq(Int) /\ Len(r) = k /\ k \in Nat
    BY <1>1
  <2>2. \A m \in 1..k : r[m] = s[m] /\ m \in 1..n
    BY <1>1
  <2>3. H \in [0..k -> Int] /\ H[0] = 0 /\ H[k] = G[k]
    BY <1>2, <2>1
  <2>4. \A m \in 1..k : H[m] = H[m - 1] + r[m]
    <3>1. \A m \in 1..k : H[m] = G[m] /\ H[m - 1] = G[m - 1]
      OBVIOUS
    <3> HIDE DEF H, r
    <3> QED BY <1>2, <2>2, <3>1
  <2> HIDE DEF r, H
  <2>5. Total(r) = H[k]
    BY <2>1, <2>3, <2>4, TotalFolds
  <2> QED BY <2>3, <2>5 DEF r
<1> QED BY <1>2, <1>3, <1>4

LEMMA HistogramsClosedHolds == IInv => HistogramsClosed
<1> SUFFICES ASSUME IInv, NEW c \in Range(Collect), c.type = "Histogram", NEW j \in DOMAIN c.metric
             PROVE  LET lines == SerializeHistogram(c, c.metric[j])
                    IN  /\ \A i \in 3..(Len(lines) - 1) : lines[i].value <= lines[i + 1].value
                        /\ <<<<"le">>, Inf>> \in Range(Last(lines).label)
                        /\ Last(lines).value = lines[1].value
  BY DEF HistogramsClosed
<1>1. PICK p \in DOMAIN Collect : c = Collect[p]
  BY DEF Range
<1>2. PICK T \in Types : \E i \in DOMAIN families[T] :
        Good(T, families[T][i]) /\ Shown(c, T, families[T][i])
  BY <1>1, FamilyOf
<1>3. PICK i \in DOMAIN families[T] : Good(T, families[T][i]) /\ Shown(c, T, families[T][i])
  BY <1>2
<1> DEFINE f == families[T][i]
           l == SetToSeq(DOMAIN f.metrics)[j]
           o == f.metrics[l]
           m == c.metric[j]
           lines == SerializeHistogram(c, m)
           n == Len(o.boundaries) + 1
<1>4. Good(T, f) /\ Shown(c, T, f)
  BY <1>3
<1> HIDE DEF f
<1>5. c.type = MetricType(T) /\ l \in DOMAIN f.metrics /\ m = CollectMetric(T, f, l)
  BY <1>4, ShownIs
<1>6. T = "Histogram"
  BY <1>5, TypesAssumption DEF MetricType
<1> HIDE DEF l
<1>7. IsMetric("Histogram", o)
  BY <1>4, <1>5, <1>6 DEF Good, IsFamily
<1> DEFINE M == CollectMetric("Histogram", f, l)
           L == SerializeMetric(c, M)
<1>8. /\ M.label = Pairs(f.constant_labels) \o Pairs(l)
      /\ L = SerializeHistogram(c, M)
      /\ IsSeq(L) /\ Len(L) = Len(o.boundaries) + 3
      /\ L[1].value = Total(o.counts)
      /\ \A r \in DOMAIN L :
           /\ IsLine(L[r], c, M, Suffix("Histogram", r), Extra("Histogram", o, r))
           /\ r \notin {1, 2} => L[r].value = Total(SubSeq(o.counts, 1, r - 2))
  BY <1>7, HistogramText
<1>9. M = m /\ L = lines
  BY <1>5, <1>6, <1>8
<1> HIDE DEF M, L, o, m, lines
<1>10. Len(o.boundaries) \in Nat /\ o.counts \in [1..n -> Nat] /\ IsSeq(o.boundaries)
  <2>1. IsSeq(o.boundaries) /\ o.counts \in [1..n -> Nat]
    BY <1>7 DEF IsMetric
  <2> QED BY <2>1, SeqIs
<1>11. /\ n \in Nat /\ n # 0 /\ Len(lines) = n + 2 /\ DOMAIN lines = 1..(n + 2)
  <2>1. DOMAIN lines = 1..Len(lines)
    BY <1>8, <1>9, SeqIs
  <2>2. Len(lines) = Len(o.boundaries) + 3
    BY <1>8, <1>9
  <2>3. Len(lines) = n + 2 /\ n \in Nat /\ n # 0
    BY ONLY <1>10, <2>2
  <2> HIDE DEF n
  <2> QED BY <2>1, <2>3
<1>12. Bounds("Histogram", o)[n] = Inf
  <2>1. n > Len(o.boundaries) /\ n \in 1..(Len(o.boundaries) + 1)
    BY <1>10
  <2> QED BY <1>10, <2>1, BoundsIs
<1> HIDE DEF n
<1>13. PICK G \in [0..n -> Nat] : /\ \A k \in 0..n : Total(SubSeq(o.counts, 1, k)) = G[k]
                                  /\ \A k \in 1..n : G[k - 1] <= G[k]
                                  /\ Total(o.counts) = G[n]
  BY <1>10, <1>11, Cumulative
<1>14. \A r \in 3..(n + 2) : lines[r].value = G[r - 2]
  <2> SUFFICES ASSUME NEW r \in 3..(n + 2) PROVE lines[r].value = G[r - 2]
    OBVIOUS
  <2>1. r \in DOMAIN lines /\ r \notin {1, 2} /\ r - 2 \in 0..n
    BY <1>11
  <2> QED BY <1>8, <1>9, <1>13, <2>1
<1>15. ASSUME NEW k \in 3..(Len(lines) - 1)
       PROVE  lines[k].value <= lines[k + 1].value
  <2>1. /\ k \in 3..(n + 2) /\ k + 1 \in 3..(n + 2)
        /\ k - 1 \in 1..n /\ (k - 1) - 1 = k - 2 /\ (k + 1) - 2 = k - 1
    BY <1>11
  <2>2. lines[k].value = G[k - 2] /\ lines[k + 1].value = G[k - 1]
    BY <1>14, <2>1
  <2>3. G[k - 2] <= G[k - 1]
    BY <1>13, <2>1
  <2> QED BY <2>2, <2>3
<1> DEFINE N == n + 2
           e == Extra("Histogram", o, N)
           a == Pairs(f.constant_labels) \o Pairs(l)
<1>16. Last(lines) = lines[N] /\ N \in 3..(n + 2) /\ N - 2 = n
  BY <1>11 DEF Last
<1>17. Last(lines).value = lines[1].value
  <2>1. lines[N].value = G[n]
    BY <1>14, <1>16
  <2> QED BY <1>8, <1>9, <1>13, <1>16, <2>1
<1>18. e = <<<< <<"le">>, Inf>>>>
  <2>1. N \notin {1, 2}
    BY <1>16
  <2>2. e = <<<< <<"le">>, WriteValue(Bounds("Histogram", o)[N - 2])>>>>
    BY <2>1 DEF Extra, HasBound, Reserved
  <2> QED BY <1>12, <1>16, <2>2 DEF WriteValue
<1>19. lines[N].label = a \o e
  <2>1. N \in DOMAIN lines
    BY <1>11, <1>16
  <2> QED BY <1>8, <1>9, <2>1 DEF IsLine
<1>20. IsSeq(a) /\ IsSeq(e)
  <2>1. Added(T, e)
    BY <1>6, ExtraIs
  <2> HIDE DEF e
  <2> QED BY <1>4, <1>5, <2>1, LabelIs
<1>21. <<<<"le">>, Inf>> \in Range(e)
  <2> DEFINE w == <<<<"le">>, Inf>>
  <2>1. e = <<w>>
    BY <1>18
  <2> HIDE DEF w, e
  <2> QED BY <2>1, Tuples DEF Range, w
<1> HIDE DEF a, e, N
<1>22. <<<<"le">>, Inf>> \in Range(Last(lines).label)
  BY <1>16, <1>19, <1>20, <1>21, JoinedPairs
<1> QED BY <1>15, <1>17, <1>22 DEF lines, m

\* The buckets of every histogram in it only grow, up to one that reads +Inf and
\* holds as much as the count says (histogram.cc:80-91, text_serializer.cc:158-170).
THEOREM HistogramsAreClosed == Spec => []HistogramsClosed
BY ExpositionInvariance, HistogramsClosedHolds, PTL

-----------------------------------------------------------------------------
(* A registry's scrape, handed to the serializer                            *)

\* The metrics of a family in a scrape.
LEMMA MetricOf ==
  ASSUME NEW T \in Types, NEW f, Good(T, f), NEW c, Shown(c, T, f), NEW k \in DOMAIN c.metric
  PROVE  \E l \in DOMAIN f.metrics :
           /\ c.metric[k] = CollectMetric(T, f, l)
           /\ c.metric[k].label = Pairs(f.constant_labels) \o Pairs(l)
<1> DEFINE l == SetToSeq(DOMAIN f.metrics)[k]
<1>1. c.type = MetricType(T) /\ l \in DOMAIN f.metrics /\ c.metric[k] = CollectMetric(T, f, l)
  BY ShownIs
<1> HIDE DEF l
<1>2. CollectMetric(T, f, l).label = Pairs(f.constant_labels) \o Pairs(l)
  BY <1>1, MetricText
<1> QED BY <1>1, <1>2

\* It has all that the serializer reads of each type.
LEMMA ScrapeIs == IInv => IsScrape(Collect)
<1> SUFFICES ASSUME IInv PROVE IsScrape(Collect)
  OBVIOUS
<1>1. IsSeq(Collect)
  BY CollectIs
<1>2. ASSUME NEW c \in Range(Collect)
      PROVE  /\ c.type \in {"Counter", "Gauge", "Untyped", "Info", "Summary", "Histogram"}
             /\ IsSeq(c.name) /\ IsSeq(c.metric)
             /\ \A m \in Range(c.metric) :
                  /\ IsSeq(m.label)
                  /\ c.type = "Summary" => IsSeq(m.summary.quantile)
                  /\ c.type = "Histogram" => IsSeq(m.histogram.bucket)
  <2>1. PICK p \in DOMAIN Collect : c = Collect[p]
    BY DEF Range
  <2>2. PICK T \in Types : \E i \in DOMAIN families[T] :
          Good(T, families[T][i]) /\ Shown(c, T, families[T][i])
    BY <2>1, FamilyOf
  <2>3. PICK i \in DOMAIN families[T] : Good(T, families[T][i]) /\ Shown(c, T, families[T][i])
    BY <2>2
  <2> DEFINE f == families[T][i]
  <2>4. Good(T, f) /\ Shown(c, T, f)
    BY <2>3
  <2> HIDE DEF f
  <2>5. c.name = f.name /\ c.type = MetricType(T) /\ IsSeq(c.metric)
    BY <2>4, ShownIs
  <2>6. c.type \in {"Counter", "Gauge", "Untyped", "Info", "Summary", "Histogram"}
        /\ (c.type = "Summary" => T = "Summary") /\ (c.type = "Histogram" => T = "Histogram")
    BY <2>5, TypesAssumption DEF MetricType
  <2>7. IsSeq(c.name)
    BY <2>4, <2>5 DEF Good, IsFamily
  <2>8. ASSUME NEW m \in Range(c.metric)
        PROVE  /\ IsSeq(m.label)
               /\ c.type = "Summary" => IsSeq(m.summary.quantile)
               /\ c.type = "Histogram" => IsSeq(m.histogram.bucket)
    <3>1. PICK k \in DOMAIN c.metric : m = c.metric[k]
      BY DEF Range
    <3>2. PICK l \in DOMAIN f.metrics : /\ m = CollectMetric(T, f, l)
                                        /\ m.label = Pairs(f.constant_labels) \o Pairs(l)
      BY <2>4, <3>1, MetricOf
    <3>3. IsSeq(m.label)
      <4>1. Added(T, << >>)
        BY DEF Added
      <4>2. IsSeq(Pairs(f.constant_labels) \o Pairs(l))
        BY <2>4, <4>1, LabelIs
      <4> QED BY <3>2, <4>2
    <3>4. IsMetric(T, f.metrics[l])
      BY <2>4 DEF Good, IsFamily
    <3>5. c.type = "Summary" => IsSeq(m.summary.quantile)
      BY <2>6, <3>2, <3>4, SummaryText
    <3>6. c.type = "Histogram" => IsSeq(m.histogram.bucket)
      BY <2>6, <3>2, <3>4, HistogramText
    <3> QED BY <3>3, <3>5, <3>6
  <2> QED BY <2>5, <2>6, <2>7, <2>8
<1> QED BY <1>1, <1>2 DEF IsScrape

LEMMA NamesAreOwn == IInv /\ NamesApart => OwnNames(Collect)
<1> SUFFICES ASSUME IInv, NamesApart, NEW p \in DOMAIN Collect
             PROVE  /\ \A q \in DOMAIN Collect :
                         /\ Collect[p].name = Collect[q].name => p = q
                         /\ Collect[p].name # Collect[q].name \o <<"_", "bucket">>
                    /\ IsInjective([k \in DOMAIN Collect[p].metric |-> Collect[p].metric[k].label])
  BY DEF OwnNames
<1> DEFINE c == Collect[p]
<1>1. PICK T \in Types : \E i \in DOMAIN families[T] :
        Good(T, families[T][i]) /\ Shown(c, T, families[T][i])
  BY FamilyOf
<1>2. PICK i \in DOMAIN families[T] : Good(T, families[T][i]) /\ Shown(c, T, families[T][i])
  BY <1>1
<1>3. \A d, V, h : Shown(d, V, h) => d.name = h.name
  BY DEF Shown
<1> DEFINE f == families[T][i]
<1>4. ASSUME NEW q \in DOMAIN Collect
      PROVE  c.name # Collect[q].name \o <<"_", "bucket">>
  <2>1. PICK U \in Types : \E j \in DOMAIN families[U] :
          Good(U, families[U][j]) /\ Shown(Collect[q], U, families[U][j])
    BY FamilyOf
  <2>2. PICK j \in DOMAIN families[U] :
          Good(U, families[U][j]) /\ Shown(Collect[q], U, families[U][j])
    BY <2>1
  <2>3. /\ <<T, i>> \in All /\ <<U, j>> \in All
        /\ <<T, i>>[1] = T /\ <<T, i>>[2] = i /\ <<U, j>>[1] = U /\ <<U, j>>[2] = j
    BY DEF All
  <2>4. families[T][i].name # families[U][j].name \o <<"_", "bucket">>
    BY <2>3 DEF NamesApart
  <2> QED BY <1>2, <1>3, <2>2, <2>4
<1>5. Good(T, f) /\ Shown(c, T, f)
  BY <1>2
<1> HIDE DEF c, f
<1>6. ASSUME NEW k \in DOMAIN c.metric, NEW n \in DOMAIN c.metric,
             c.metric[k].label = c.metric[n].label
      PROVE  k = n
  <2> DEFINE order == SetToSeq(DOMAIN f.metrics)
             l == order[k]
             m == order[n]
             C == Pairs(f.constant_labels)
  <2>1. /\ c.type = MetricType(T) /\ DOMAIN c.metric = DOMAIN order
        /\ l \in DOMAIN f.metrics /\ m \in DOMAIN f.metrics
        /\ c.metric[k] = CollectMetric(T, f, l) /\ c.metric[n] = CollectMetric(T, f, m)
        /\ l = m => k = n
    BY <1>5, ShownIs
  <2> HIDE DEF order, l, m
  <2>2. c.metric[k].label = C \o Pairs(l) /\ c.metric[n].label = C \o Pairs(m)
    BY <1>5, <2>1, MetricText
  <2>3. Added(T, << >>)
    BY DEF Added
  <2>4. Range((C \o Pairs(l)) \o << >>) = Range((C \o Pairs(m)) \o << >>)
    BY <1>6, <2>2
  <2>5. l = m
    BY <1>5, <2>1, <2>3, <2>4, LabelsTell
  <2> QED BY <2>1, <2>5
<1>7. IsInjective([k \in DOMAIN c.metric |-> c.metric[k].label])
  BY <1>6 DEF IsInjective
<1>8. \A q \in DOMAIN Collect : c.name = Collect[q].name => p = q
  BY CollectIs DEF c
<1> QED BY <1>4, <1>7, <1>8 DEF c

LEMMA BoundsAreOwn == IInv /\ BoundsApart => OwnBounds(Collect)
<1> SUFFICES ASSUME IInv, BoundsApart, NEW c \in Range(Collect), c.type = "Histogram",
                    NEW m \in Range(c.metric), NEW n \in DOMAIN m.histogram.bucket,
                    WriteValue(m.histogram.bucket[n].upper_bound) = Inf
             PROVE  n = Len(m.histogram.bucket) /\ m.histogram.bucket[n].upper_bound = Inf
  BY DEF OwnBounds, EndsOnce
<1>1. PICK p \in DOMAIN Collect : c = Collect[p]
  BY DEF Range
<1>2. PICK T \in Types : \E i \in DOMAIN families[T] :
        Good(T, families[T][i]) /\ Shown(c, T, families[T][i])
  BY <1>1, FamilyOf
<1>3. PICK i \in DOMAIN families[T] : Good(T, families[T][i]) /\ Shown(c, T, families[T][i])
  BY <1>2
<1> DEFINE f == families[T][i]
<1>4. Good(T, f) /\ Shown(c, T, f) /\ f \in Families(T)
  BY <1>3 DEF Families, Range
<1> HIDE DEF f
<1>5. PICK k \in DOMAIN c.metric : m = c.metric[k]
  BY DEF Range
<1>6. PICK l \in DOMAIN f.metrics : m = CollectMetric(T, f, l)
  BY <1>4, <1>5, MetricOf
<1>7. T = "Histogram"
  <2>1. c.type = MetricType(T)
    BY <1>4, ShownIs
  <2> QED BY <2>1, TypesAssumption DEF MetricType
<1> DEFINE o == f.metrics[l]
           b == m.histogram.bucket
           B == Bounds("Histogram", o)
           N == Len(o.boundaries) + 1
<1>8. IsMetric("Histogram", o) /\ o \in Range(f.metrics)
  BY <1>4, <1>6, <1>7 DEF Good, IsFamily, Range
<1>9. /\ IsSeq(b) /\ DOMAIN b = 1..N
      /\ \A j \in DOMAIN b : b[j].upper_bound = B[j]
  BY <1>6, <1>7, <1>8, HistogramText
<1>10. IsInjective([j \in DOMAIN B |-> WriteValue(B[j])])
  BY <1>4, <1>7, <1>8 DEF BoundsApart, Bounds
<1> HIDE DEF o, b, B
<1>11. IsSeq(o.boundaries)
  BY <1>8 DEF IsMetric
<1>12. Len(o.boundaries) \in Nat /\ DOMAIN B = 1..N /\ B[N] = Inf
  <2>1. /\ Len(o.boundaries) \in Nat
        /\ DOMAIN B = 1..N
        /\ \A j \in 1..N : B[j] = IF j > Len(o.boundaries) THEN Inf ELSE o.boundaries[j]
    BY <1>11, BoundsIs DEF B
  <2> QED BY <2>1
<1>13. N \in DOMAIN B /\ n \in DOMAIN B /\ Len(b) = N
  <2>1. Len(b) \in Nat /\ DOMAIN b = 1..Len(b)
    BY <1>9, SeqIs
  <2>2. n \in 1..N
    BY <1>9 DEF b
  <2> QED BY <1>9, <1>12, <2>1, <2>2
<1> HIDE DEF N
<1>14. WriteValue(B[N]) = Inf /\ WriteValue(B[n]) = Inf
  <2>1. WriteValue(B[N]) = Inf
    BY <1>12 DEF WriteValue
  <2> QED BY <1>9, <2>1 DEF b
<1>15. n = N
  BY <1>10, <1>13, <1>14 DEF IsInjective
<1> QED BY <1>9, <1>12, <1>13, <1>15 DEF b

\* What ClosedOnce asks of a scrape a registry's scrapes have, as long as no name
\* ends like a derived one and no two bounds are written alike: the serializer,
\* which takes anyone's scrapes, closes each histogram of a registry exactly once
\* (text_serializer.cc:158-170, histogram.cc:80-91).
THEOREM RegistryScrapes ==
  Spec => [](NamesApart /\ BoundsApart =>
               /\ IsScrape(Collect) /\ OwnNames(Collect) /\ OwnBounds(Collect)
               /\ \A p \in DOMAIN Collect : Collect[p].type = "Histogram" =>
                    \A k \in DOMAIN Collect[p].metric :
                      One(Text, Collect[p], Collect[p].metric[k]))
<1>1. ASSUME IInv, NamesApart, BoundsApart
      PROVE  /\ IsScrape(Collect) /\ OwnNames(Collect) /\ OwnBounds(Collect)
             /\ \A p \in DOMAIN Collect : Collect[p].type = "Histogram" =>
                  \A k \in DOMAIN Collect[p].metric :
                    One(Text, Collect[p], Collect[p].metric[k])
  <2>1. IsScrape(Collect) /\ OwnNames(Collect) /\ OwnBounds(Collect)
    BY <1>1, ScrapeIs, NamesAreOwn, BoundsAreOwn
  <2> QED BY <2>1, TextLines DEF Text
<1> QED BY <1>1, ExpositionInvariance, PTL
=============================================================================
