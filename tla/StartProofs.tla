------------------------------ MODULE StartProofs ------------------------------
(***************************************************************************)
(* Proofs about the start of a node (Start) and the parser of its          *)
(* configuration (Json), for every text, file and content of the buffer,   *)
(* every limit of nesting and number of threads.                           *)
(*                                                                         *)
(* First that the functions of Json, which are defined by recursion, are   *)
(* what their definitions say, stay inside of the text and account for     *)
(* their memory (CJSONParse); then that what is parsed depends on nothing  *)
(* behind it (ParseLocal, TailIgnored, CutRefused); then the properties of *)
(* Start.                                                                  *)
(***************************************************************************)
EXTENDS Start, FiniteSetTheorems, SequenceTheorems, TLAPS

-----------------------------------------------------------------------------
(* Texts, and functions that are defined by recursion on their length. *)

TextLen == [s \in Text |-> Len(s)]

LEMMA TextLenNat == TextLen \in [Text -> Nat]
  BY LenProperties DEF TextLen, Text

(* What is left of a text behind its first n bytes. *)
From(s, n) == SubSeq(s, n + 1, Len(s))

LEMMA FromText ==
  ASSUME NEW s \in Text, NEW n \in Nat
  PROVE  From(s, n) \in Text /\ Len(From(s, n)) = IF n <= Len(s) THEN Len(s) - n ELSE 0
<1>1. Len(s) \in Nat /\ \A i \in (n + 1)..Len(s) : s[i] \in Byte
  BY LenProperties DEF Text
<1>2. /\ From(s, n) \in Seq(Byte)
      /\ Len(From(s, n)) = IF n + 1 <= Len(s) THEN Len(s) - (n + 1) + 1 ELSE 0
  BY <1>1, SubSeqProperties DEF From
<1> QED
  BY <1>1, <1>2 DEF Text

LEMMA FromByte ==
  ASSUME NEW s \in Text, NEW n \in Nat, NEW i \in 1..(Len(s) - n)
  PROVE  From(s, n)[i] = s[n + i]
<1>1. Len(s) \in Nat /\ \A j \in (n + 1)..Len(s) : s[j] \in Byte
  BY LenProperties DEF Text
<1>2. \A j \in 1..(Len(s) - (n + 1) + 1) : From(s, n)[j] = s[n + 1 + j - 1]
  BY <1>1, SubSeqProperties DEF From
<1> QED
  BY <1>1, <1>2

LEMMA PrefixText ==
  ASSUME NEW s \in Text, NEW n \in 0..Len(s)
  PROVE  SubSeq(s, 1, n) \in Text /\ Len(SubSeq(s, 1, n)) = n
<1>1. Len(s) \in Nat /\ \A i \in 1..n : s[i] \in Byte
  BY LenProperties DEF Text
<1>2. /\ SubSeq(s, 1, n) \in Seq(Byte)
      /\ Len(SubSeq(s, 1, n)) = IF 1 <= n THEN n - 1 + 1 ELSE 0
  BY <1>1, SubSeqProperties
<1> QED
  BY <1>1, <1>2 DEF Text

LEMMA PrefixByte ==
  ASSUME NEW s \in Text, NEW n \in 0..Len(s), NEW i \in 1..n
  PROVE  SubSeq(s, 1, n)[i] = s[i]
<1>1. Len(s) \in Nat /\ \A j \in 1..n : s[j] \in Byte
  BY LenProperties DEF Text
<1>2. \A j \in 1..(n - 1 + 1) : SubSeq(s, 1, n)[j] = s[1 + j - 1]
  BY <1>1, SubSeqProperties
<1> QED
  BY <1>1, <1>2

(* The rest of a text is shorter. *)
LEMMA Shorter ==
  ASSUME NEW s \in Text, s # <<>>
  PROVE  /\ Len(s) \in Nat /\ Len(s) >= 1 /\ s[1] \in Byte /\ Last(s) \in Byte
         /\ \A n \in Nat : n >= 1 => From(s, n) \in Text /\ TextLen[From(s, n)] < TextLen[s]
         /\ Tail(s) = From(s, 1) /\ Tail(s) \in Text
         /\ Len(Tail(s)) = Len(s) - 1 /\ TextLen[Tail(s)] < TextLen[s]
         /\ Front(s) \in Text /\ TextLen[Front(s)] < TextLen[s]
<1>1. Len(s) \in Nat /\ Len(s) >= 1
  BY EmptySeq DEF Text
<1>2. s[1] \in Byte /\ Last(s) \in Byte
  BY <1>1, ElementOfSeq DEF Text, Last
<1>3. Tail(s) = From(s, 1)
  BY TailIsSubSeq DEF Text, From
<1>4. ASSUME NEW n \in Nat, n >= 1
      PROVE  From(s, n) \in Text /\ Len(From(s, n)) < Len(s)
  <2>1. From(s, n) \in Text /\ Len(From(s, n)) = IF n <= Len(s) THEN Len(s) - n ELSE 0
    BY FromText
  <2> QED
    BY <1>1, <1>4, <2>1
<1>5. Tail(s) \in Text /\ Len(Tail(s)) = Len(s) - 1
  <2>1. From(s, 1) \in Text /\ Len(From(s, 1)) = IF 1 <= Len(s) THEN Len(s) - 1 ELSE 0
    BY FromText
  <2> QED
    BY <1>1, <1>3, <2>1
<1>6. Front(s) \in Text /\ Len(Front(s)) = Len(s) - 1
  <2>1. Len(s) - 1 \in 0..Len(s)
    BY <1>1
  <2> QED
    BY <2>1, PrefixText DEF Front
<1>7. \A t \in Text : TextLen[t] = Len(t)
  BY DEF TextLen
<1>8. \A n \in Nat : n >= 1 => From(s, n) \in Text /\ TextLen[From(s, n)] < TextLen[s]
  BY <1>4, <1>7
<1>9. TextLen[Tail(s)] < TextLen[s] /\ TextLen[Front(s)] < TextLen[s]
  <2>1. Len(Tail(s)) < Len(s) /\ Len(Front(s)) < Len(s)
    BY <1>1, <1>5, <1>6
  <2> QED
    BY <2>1, <1>5, <1>6, <1>7
<1> QED
  BY <1>1, <1>2, <1>3, <1>5, <1>6, <1>8, <1>9

(* Behind the rest of a text. *)
LEMMA FromFrom ==
  ASSUME NEW s \in Text, NEW m \in Nat, NEW n \in Nat, m <= Len(s)
  PROVE  From(From(s, m), n) = From(s, m + n)
<1>1. /\ From(s, m) \in Text /\ From(From(s, m), n) \in Text /\ From(s, m + n) \in Text
      /\ Len(s) \in Nat /\ m + n \in Nat
      /\ Len(From(s, m)) = Len(s) - m
      /\ Len(From(s, m + n)) = IF m + n <= Len(s) THEN Len(s) - (m + n) ELSE 0
      /\ Len(From(From(s, m), n)) = IF n <= Len(s) - m THEN Len(s) - m - n ELSE 0
  <2>1. Len(s) \in Nat /\ m + n \in Nat
    BY LenProperties DEF Text
  <2>2. From(s, m) \in Text /\ Len(From(s, m)) = Len(s) - m
    BY FromText
  <2>3. From(s, m + n) \in Text /\ Len(From(s, m + n)) = IF m + n <= Len(s) THEN Len(s) - (m + n) ELSE 0
    BY <2>1, FromText
  <2>4. From(From(s, m), n) \in Text /\ Len(From(From(s, m), n)) = IF n <= Len(s) - m THEN Len(s) - m - n ELSE 0
    BY <2>2, FromText
  <2> QED
    BY <2>1, <2>2, <2>3, <2>4
<1>2. Len(From(From(s, m), n)) = Len(From(s, m + n))
  BY <1>1
<1>3. \A i \in 1..Len(From(s, m + n)) : From(From(s, m), n)[i] = From(s, m + n)[i]
  <2> SUFFICES ASSUME NEW i \in 1..Len(From(s, m + n)) PROVE From(From(s, m), n)[i] = From(s, m + n)[i]
    OBVIOUS
  <2>1. i \in 1..(Len(s) - (m + n)) /\ Len(From(s, m)) = Len(s) - m /\ m + n \in Nat
    BY <1>1
  <2>2. From(s, m + n)[i] = s[m + n + i]
    BY <2>1, FromByte
  <2>3. From(From(s, m), n)[i] = From(s, m)[n + i]
    BY <1>1, <2>1, FromByte
  <2>4. From(s, m)[n + i] = s[m + (n + i)]
    BY <1>1, <2>1, FromByte
  <2> QED
    BY <2>1, <2>2, <2>3, <2>4, <1>1
<1> QED
  BY <1>1, <1>2, <1>3, SeqEqual DEF Text

(* Induction on texts: what is true of one if it is of those that are       *)
(* shorter is true of all.                                                  *)
TextRecursion == INSTANCE Recursion WITH S <- Text, rank <- TextLen, Def <- LAMBDA g, x : g[x]

LEMMA TextInduction ==
  ASSUME NEW T \in SUBSET Text,
         \A s \in Text : (\A t \in Text : Len(t) < Len(s) => t \in T) => s \in T
  PROVE  T = Text
  BY TextLenNat, TextRecursion!RankInduction DEF TextLen

-----------------------------------------------------------------------------
(* The scans of a text. *)

ValueStep(g, s) ==
  IF s = <<>> THEN 0
  ELSE LET n == g[Front(s)] * 10 + (Last(s) - 48) IN IF n > INT_MAX THEN INT_MAX + 1 ELSE n

ValueRecursion == INSTANCE Recursion WITH S <- Text, rank <- TextLen, Def <- ValueStep

LEMMA ValueOfInt == \A s \in Text : ValueOf[s] \in Int
<1> DEFINE Good == [s \in Text |-> Int]
<1>1. ASSUME NEW s \in Text, NEW g, NEW h,
             \A t \in Text : TextLen[t] < TextLen[s] => g[t] = h[t] /\ g[t] \in Good[t]
      PROVE  ValueStep(g, s) = ValueStep(h, s) /\ ValueStep(g, s) \in Good[s]
  <2>1. CASE s = <<>>
    BY <2>1 DEF ValueStep
  <2>2. CASE s # <<>>
    <3>1. Front(s) \in Text /\ TextLen[Front(s)] < TextLen[s] /\ Last(s) \in Byte
      BY <2>2, Shorter
    <3>2. g[Front(s)] = h[Front(s)] /\ g[Front(s)] \in Int /\ Last(s) \in Int
      BY <1>1, <3>1 DEF Byte
    <3> QED
      BY <2>2, <3>2, JsonAssumption DEF ValueStep
  <2> QED
    BY <2>1, <2>2
<1>2. ValueOf = CHOOSE g : g = [s \in Text |-> ValueStep(g, s)]
  BY DEF ValueOf, ValueStep
<1> HIDE DEF Good
<1>3. \A s \in Text : ValueOf[s] \in Good[s]
  BY <1>1, <1>2, TextLenNat, ValueRecursion!UnfoldsTyped
<1> QED
  BY <1>3 DEF Good

StringEndStep(g, s) ==
  IF s = <<>> \/ s[1] = Quote THEN 0
  ELSE IF s[1] = Backslash THEN 2 + g[SubSeq(s, 3, Len(s))] ELSE 1 + g[Tail(s)]

StringEndRecursion == INSTANCE Recursion WITH S <- Text, rank <- TextLen, Def <- StringEndStep

LEMMA StringEndUnfold ==
  \A s \in Text : StringEnd[s] = StringEndStep(StringEnd, s) /\ StringEnd[s] \in Nat
<1> DEFINE Good == [s \in Text |-> Nat]
<1>1. ASSUME NEW s \in Text, NEW g, NEW h,
             \A t \in Text : TextLen[t] < TextLen[s] => g[t] = h[t] /\ g[t] \in Good[t]
      PROVE  StringEndStep(g, s) = StringEndStep(h, s) /\ StringEndStep(g, s) \in Good[s]
  <2>1. CASE s = <<>>
    BY <2>1 DEF StringEndStep
  <2>2. CASE s # <<>>
    <3>1. /\ g[Tail(s)] = h[Tail(s)] /\ g[Tail(s)] \in Nat
          /\ g[From(s, 2)] = h[From(s, 2)] /\ g[From(s, 2)] \in Nat
      BY <1>1, <2>2, Shorter
    <3> QED
      BY <2>2, <3>1 DEF StringEndStep, From
  <2> QED
    BY <2>1, <2>2
<1>2. StringEnd = CHOOSE g : g = [s \in Text |-> StringEndStep(g, s)]
  BY DEF StringEnd, StringEndStep
<1> HIDE DEF Good
<1>3. \A s \in Text : StringEnd[s] = StringEndStep(StringEnd, s) /\ StringEnd[s] \in Good[s]
  BY <1>1, <1>2, TextLenNat, StringEndRecursion!UnfoldsTyped
<1> QED
  BY <1>3 DEF Good

SkippedStep(g, s) ==
  IF s = <<>> THEN 0
  ELSE IF s[1] = Backslash THEN 1 + g[SubSeq(s, 3, Len(s))] ELSE g[Tail(s)]

SkippedRecursion == INSTANCE Recursion WITH S <- Text, rank <- TextLen, Def <- SkippedStep

LEMMA SkippedUnfold ==
  \A s \in Text : Skipped[s] = SkippedStep(Skipped, s) /\ Skipped[s] \in Nat
<1> DEFINE Good == [s \in Text |-> Nat]
<1>1. ASSUME NEW s \in Text, NEW g, NEW h,
             \A t \in Text : TextLen[t] < TextLen[s] => g[t] = h[t] /\ g[t] \in Good[t]
      PROVE  SkippedStep(g, s) = SkippedStep(h, s) /\ SkippedStep(g, s) \in Good[s]
  <2>1. CASE s = <<>>
    BY <2>1 DEF SkippedStep
  <2>2. CASE s # <<>>
    <3>1. /\ g[Tail(s)] = h[Tail(s)] /\ g[Tail(s)] \in Nat
          /\ g[From(s, 2)] = h[From(s, 2)] /\ g[From(s, 2)] \in Nat
      BY <1>1, <2>2, Shorter
    <3> QED
      BY <2>2, <3>1 DEF SkippedStep, From
  <2> QED
    BY <2>1, <2>2
<1>2. Skipped = CHOOSE g : g = [s \in Text |-> SkippedStep(g, s)]
  BY DEF Skipped, SkippedStep
<1> HIDE DEF Good
<1>3. \A s \in Text : Skipped[s] = SkippedStep(Skipped, s) /\ Skipped[s] \in Good[s]
  BY <1>1, <1>2, TextLenNat, SkippedRecursion!UnfoldsTyped
<1> QED
  BY <1>3 DEF Good

(* A text without bytes. *)
LEMMA FromEnd ==
  ASSUME NEW s \in Text, NEW n \in Nat, n >= Len(s)
  PROVE  From(s, n) = <<>>
<1>1. /\ From(s, n) \in Text /\ Len(s) \in Nat
      /\ Len(From(s, n)) = IF n <= Len(s) THEN Len(s) - n ELSE 0
  BY FromText, LenProperties DEF Text
<1>2. Len(From(s, n)) = 0
  BY <1>1
<1> QED
  BY <1>1, <1>2, EmptySeq DEF Text

LEMMA TailFrom ==
  ASSUME NEW s \in Text, s # <<>>
  PROVE  Tail(s) \in Text /\ Tail(s) = From(s, 1) /\ From(Tail(s), 1) = From(s, 2)
<1>1. 1 <= Len(s) /\ Tail(s) \in Text /\ Tail(s) = From(s, 1)
  BY Shorter
<1>2. From(From(s, 1), 1) = From(s, 1 + 1)
  BY <1>1, FromFrom
<1>3. 1 + 1 = 2
  OBVIOUS
<1> QED
  BY <1>1, <1>2, <1>3

(* Of two backslashes at most one is stepped over by itself. *)
LEMMA SkippedTail ==
  \A s \in Text : s # <<>> => Skipped[Tail(s)] <= Skipped[s] /\ Skipped[s] <= Skipped[Tail(s)] + 1
<1> DEFINE T == {s \in Text : s # <<>> => Skipped[Tail(s)] <= Skipped[s] /\ Skipped[s] <= Skipped[Tail(s)] + 1}
<1>1. ASSUME NEW s \in Text, \A t \in Text : Len(t) < Len(s) => t \in T, s # <<>>
      PROVE  Skipped[Tail(s)] <= Skipped[s] /\ Skipped[s] <= Skipped[Tail(s)] + 1
  <2>1. Tail(s) \in Text /\ Len(Tail(s)) < Len(s) /\ Len(s) \in Nat /\ Len(Tail(s)) = Len(s) - 1
    <3>1. Tail(s) \in Text /\ Len(Tail(s)) = Len(s) - 1 /\ Len(s) \in Nat
      BY <1>1, Shorter
    <3> QED
      BY <3>1
  <2>2. Skipped[Tail(s)] \in Nat /\ Skipped[s] \in Nat
    BY <2>1, SkippedUnfold
  <2>3. CASE s[1] # Backslash
    <3>1. Skipped[s] = Skipped[Tail(s)]
      BY <1>1, <2>3, SkippedUnfold DEF SkippedStep
    <3> QED
      BY <2>2, <3>1
  <2>4. CASE s[1] = Backslash
    <3>1. Skipped[s] = 1 + Skipped[From(s, 2)]
      BY <1>1, <2>4, SkippedUnfold DEF SkippedStep, From
    <3>2. CASE Tail(s) = <<>>
      <4>1. Len(s) <= 2
        <5>1. Len(Tail(s)) = 0
          BY <3>2, EmptySeq
        <5> QED
          BY <2>1, <5>1
      <4>2. From(s, 2) = <<>>
        BY <4>1, FromEnd
      <4>3. <<>> \in Text
        BY EmptySeq DEF Text
      <4>4. Skipped[<<>>] = 0
        BY <4>3, SkippedUnfold DEF SkippedStep
      <4>5. Skipped[s] = 1 + 0
        BY <3>1, <4>2, <4>4
      <4>6. Skipped[Tail(s)] = 0
        BY <3>2, <4>4
      <4> QED
        BY <4>5, <4>6
    <3>3. CASE Tail(s) # <<>>
      <4>1. From(s, 2) = Tail(Tail(s))
        BY <1>1, <2>1, <3>3, TailFrom
      <4>2. Tail(s) \in T
        BY <1>1, <2>1
      <4>3. Skipped[Tail(Tail(s))] \in Nat
        BY <2>1, <3>3, TailFrom, SkippedUnfold
      <4>4. Skipped[Tail(Tail(s))] <= Skipped[Tail(s)] /\ Skipped[Tail(s)] <= Skipped[Tail(Tail(s))] + 1
        BY <3>3, <4>2
      <4>5. Skipped[s] = 1 + Skipped[Tail(Tail(s))]
        BY <3>1, <4>1
      <4> QED
        BY <2>2, <4>3, <4>4, <4>5
    <3> QED
      BY <3>2, <3>3
  <2> QED
    BY <2>3, <2>4
<1>2. ASSUME NEW s \in Text, \A t \in Text : Len(t) < Len(s) => t \in T PROVE s \in T
  BY <1>1, <1>2
<1>3. T \in SUBSET Text
  OBVIOUS
<1> HIDE DEF T
<1>4. T = Text
  BY <1>2, <1>3, TextInduction
<1> USE DEF T
<1> QED
  BY <1>4

LEMMA SkippedTwo ==
  ASSUME NEW s \in Text
  PROVE  From(s, 2) \in Text /\ Skipped[s] <= 1 + Skipped[From(s, 2)]
<1>1. From(s, 2) \in Text
  BY FromText
<1>2. Skipped[s] \in Nat /\ Skipped[From(s, 2)] \in Nat
  BY <1>1, SkippedUnfold
<1>3. CASE s = <<>>
  <2>1. Skipped[s] = 0
    BY <1>3, SkippedUnfold DEF SkippedStep
  <2> QED
    BY <1>1, <1>2, <2>1
<1>4. CASE s # <<>> /\ s[1] = Backslash
  <2>1. Skipped[s] = 1 + Skipped[From(s, 2)]
    BY <1>4, SkippedUnfold DEF SkippedStep, From
  <2> QED
    BY <1>1, <1>2, <2>1
<1>5. CASE s # <<>> /\ s[1] # Backslash
  <2>1. Skipped[s] = Skipped[Tail(s)] /\ Tail(s) \in Text
    BY <1>5, TailFrom, SkippedUnfold DEF SkippedStep
  <2>2. CASE Tail(s) = <<>>
    <3>1. Skipped[Tail(s)] = 0
      BY <2>1, <2>2, SkippedUnfold DEF SkippedStep
    <3> QED
      BY <1>1, <1>2, <2>1, <3>1
  <2>3. CASE Tail(s) # <<>>
    <3>1. From(s, 2) = Tail(Tail(s))
      BY <1>5, <2>1, <2>3, TailFrom
    <3>2. Skipped[Tail(s)] <= Skipped[Tail(Tail(s))] + 1
      BY <2>1, <2>3, SkippedTail
    <3>3. Skipped[s] <= Skipped[From(s, 2)] + 1
      BY <2>1, <3>1, <3>2
    <3> QED
      BY <1>1, <1>2, <3>3
  <2> QED
    BY <2>2, <2>3
<1> QED
  BY <1>3, <1>4, <1>5

-----------------------------------------------------------------------------
(* The conversion of an escape. *)

LEMMA HexDigit == \A c \in Byte : Hex(c) \in -1..15
  BY DEF Hex, Byte, Digit

LEMMA Hex4 ==
  ASSUME NEW s \in Text, Len(s) = 4
  PROVE  parse_hex4(s) \in Nat /\ parse_hex4(s) < 65536
<1>1. s[1] \in Byte /\ s[2] \in Byte /\ s[3] \in Byte /\ s[4] \in Byte
  BY SMT, ElementOfSeq DEF Text
<1> DEFINE a == Hex(s[1])
           b == Hex(s[2])
           c == Hex(s[3])
           d == Hex(s[4])
<1>2. a \in -1..15 /\ b \in -1..15 /\ c \in -1..15 /\ d \in -1..15
  BY SMT, <1>1, HexDigit
<1>3. parse_hex4(s) = IF a = -1 \/ b = -1 \/ c = -1 \/ d = -1 THEN 0
                      ELSE a * 4096 + b * 256 + c * 16 + d
  <2>1. (\E k \in 1..4 : Hex(s[k]) = -1) <=> (a = -1 \/ b = -1 \/ c = -1 \/ d = -1)
    BY SMT
  <2> QED
    BY SMT, <2>1 DEF parse_hex4
<1> HIDE DEF a, b, c, d
<1> QED
  BY SMT, <1>2, <1>3

LEMMA Hex4At ==
  ASSUME NEW s \in Text, NEW i \in Nat, i >= 1, i + 3 <= Len(s)
  PROVE  parse_hex4(SubSeq(s, i, i + 3)) \in Nat /\ parse_hex4(SubSeq(s, i, i + 3)) < 65536
<1> DEFINE t == SubSeq(s, i, i + 3)
<1>1. Len(s) \in Nat
  BY LenProperties DEF Text
<1>2. \A j \in i..(i + 3) : s[j] \in Byte
  BY SMT, <1>1, ElementOfSeq DEF Text
<1>3. t \in Seq(Byte) /\ Len(t) = IF i <= i + 3 THEN i + 3 - i + 1 ELSE 0
  BY <1>2, SubSeqProperties
<1>4. t \in Text /\ Len(t) = 4
  BY <1>3 DEF Text
<1> HIDE DEF t
<1>5. parse_hex4(t) \in Nat /\ parse_hex4(t) < 65536
  BY SMT, <1>4, Hex4
<1> QED
  BY SMT, <1>5 DEF t

LEMMA ContinuationByte ==
  ASSUME NEW c \in Nat
  PROVE  Continuation(c, 1) \in Byte /\ Continuation(c, 64) \in Byte /\ Continuation(c, 4096) \in Byte
<1>1. \A m \in Nat : 128 + (m % 64) \in Byte
  BY SMT DEF Byte
<1>2. c \div 1 \in Nat /\ c \div 64 \in Nat /\ c \div 4096 \in Nat
  BY SMT
<1> QED
  BY SMT, <1>1, <1>2 DEF Continuation

LEMMA Utf8Short ==
  ASSUME NEW c \in Nat, c < 65536
  PROVE  Utf8(c) \in Text /\ Len(Utf8(c)) <= 3
<1>1. Continuation(c, 1) \in Byte /\ Continuation(c, 64) \in Byte
  BY SMT, ContinuationByte
<1>2. CASE c < 128
  <2>1. Utf8(c) = <<c>> /\ c \in Byte
    BY SMT, <1>2 DEF Utf8, Byte
  <2> QED
    BY SMT, <2>1 DEF Text
<1>3. CASE c >= 128 /\ c < 2048
  <2>1. Utf8(c) = <<192 + c \div 64, Continuation(c, 1)>>
    BY SMT, <1>3 DEF Utf8
  <2>2. 192 + c \div 64 \in Byte
    BY SMT, <1>3 DEF Byte
  <2> QED
    BY SMT, <1>1, <2>1, <2>2 DEF Text
<1>4. CASE c >= 2048
  <2>1. Utf8(c) = <<224 + c \div 4096, Continuation(c, 64), Continuation(c, 1)>>
    BY SMT, <1>4 DEF Utf8
  <2>2. 224 + c \div 4096 \in Byte
    BY SMT, <1>4 DEF Byte
  <2> QED
    BY SMT, <1>1, <2>1, <2>2 DEF Text
<1> QED
  BY SMT, <1>1, <1>2, <1>3, <1>4

LEMMA Utf8Long ==
  ASSUME NEW c \in Nat, 65536 <= c, c <= 1114111
  PROVE  Utf8(c) \in Text /\ Len(Utf8(c)) <= 4
<1>1. Continuation(c, 1) \in Byte /\ Continuation(c, 64) \in Byte /\ Continuation(c, 4096) \in Byte
  BY SMT, ContinuationByte
<1>2. Utf8(c) = <<240 + c \div 262144, Continuation(c, 4096), Continuation(c, 64), Continuation(c, 1)>>
  BY SMT DEF Utf8
<1>3. 240 + c \div 262144 \in Byte
  BY SMT DEF Byte
<1> QED
  BY SMT, <1>1, <1>2, <1>3 DEF Text

LEMMA LiteralTyped ==
  ASSUME NEW s \in Text
  PROVE  LET u == utf16_literal_to_utf8(s)
         IN  /\ u.length \in {0, 6, 12} /\ u.length <= Len(s) /\ u.out \in Text
             /\ u.length = 6 => Len(u.out) <= 3
             /\ u.length = 12 => Len(u.out) <= 4
<1> DEFINE Typed_(u) == /\ u.length \in {0, 6, 12} /\ u.length <= Len(s) /\ u.out \in Text
                        /\ u.length = 6 => Len(u.out) <= 3
                        /\ u.length = 12 => Len(u.out) <= 4
<1>1. Typed_(NoLiteral)
  BY LenProperties, EmptySeq DEF NoLiteral, Text
<1> SUFFICES Typed_(utf16_literal_to_utf8(s))
  OBVIOUS
<1>2. CASE Len(s) < 6
  BY <1>1, <1>2 DEF utf16_literal_to_utf8
<1>3. CASE Len(s) >= 6
  <2> DEFINE first == parse_hex4(SubSeq(s, 3, 6))
  <2>0. Len(s) \in Nat
    BY LenProperties DEF Text
  <2>1. first \in Nat /\ first < 65536
    <3>1. parse_hex4(SubSeq(s, 3, 3 + 3)) \in Nat /\ parse_hex4(SubSeq(s, 3, 3 + 3)) < 65536
      BY SMT, <1>3, <2>0, Hex4At
    <3>2. 3 + 3 = 6
      OBVIOUS
    <3> QED
      BY SMT, <3>1, <3>2
  <2>2. utf16_literal_to_utf8(s) = Literal(s, first)
    BY SMT, <1>3, <2>0 DEF utf16_literal_to_utf8
  <2> HIDE DEF first
  <2>3. CASE Literal(s, first) = NoLiteral
    BY <1>1, <2>2, <2>3
  <2>4. CASE Literal(s, first) = [length |-> 6, out |-> Utf8(first)]
    <3>1. Utf8(first) \in Text /\ Len(Utf8(first)) <= 3
      BY SMT, <2>1, Utf8Short
    <3> QED
      BY <1>3, <2>2, <2>4, <3>1
  <2>5. CASE Len(s) >= 12 /\ Literal(s, first) = Pair(first, parse_hex4(SubSeq(s, 9, 12)))
    <3> DEFINE second == parse_hex4(SubSeq(s, 9, 12))
    <3>1. second \in Nat
      <4>1. parse_hex4(SubSeq(s, 9, 9 + 3)) \in Nat
        BY SMT, <2>5, <2>0, Hex4At
      <4>2. 9 + 3 = 12
        OBVIOUS
      <4> QED
        BY SMT, <4>1, <4>2
    <3> HIDE DEF second
    <3>2. CASE Pair(first, second) = NoLiteral
      BY <1>1, <2>2, <2>5, <3>2 DEF second
    <3>3. CASE Pair(first, second) # NoLiteral
      <4> DEFINE c == 65536 + (first % 1024) * 1024 + (second % 1024)
      <4>1. Pair(first, second) = [length |-> 12, out |-> Utf8(c)]
        BY SMT, <3>3 DEF Pair
      <4>2. c \in Nat /\ 65536 <= c /\ c <= 1114111
        <5>1. first % 1024 \in Nat /\ first % 1024 <= 1023 /\ second % 1024 \in Nat /\ second % 1024 <= 1023
          BY SMT, <2>1, <3>1
        <5> QED
          BY SMT, <5>1
      <4> HIDE DEF c
      <4>3. Utf8(c) \in Text /\ Len(Utf8(c)) <= 4
        BY SMT, <4>2, Utf8Long
      <4>4. utf16_literal_to_utf8(s) = [length |-> 12, out |-> Utf8(c)]
        BY <2>2, <2>5, <4>1 DEF second
      <4> QED
        BY <2>5, <4>3, <4>4
    <3> QED
      BY <3>2, <3>3
  <2> QED
    BY SMT, <2>0, <2>3, <2>4, <2>5 DEF Literal
<1> QED
  BY LenProperties, <1>2, <1>3 DEF Text

UnescapedStep(g, s) ==
  LET u == utf16_literal_to_utf8(s)
  IN  IF s = <<>> THEN <<>>
      ELSE IF s[1] # Backslash THEN Behind(<<s[1]>>, g[Tail(s)])
      ELSE IF Letter(s) \in DOMAIN Escapes THEN Behind(<<Escapes[Letter(s)]>>, g[SubSeq(s, 3, Len(s))])
      ELSE IF Letter(s) = LetterU /\ u.length # 0 THEN Behind(u.out, g[SubSeq(s, u.length + 1, Len(s))])
      ELSE NULL

UnescapedRecursion == INSTANCE Recursion WITH S <- Text, rank <- TextLen, Def <- UnescapedStep

(* What is allocated for a string is enough for any of its rests. *)
Fits == [s \in Text |->
  {t \in Text : Len(t) + Skipped[s] <= Len(s) + (IF s = <<>> THEN 0 ELSE 1)} \cup {NULL}]

LEMMA EscapeByte == \A c \in DOMAIN Escapes : Escapes[c] \in Byte
  BY DEF Escapes, Byte

LEMMA BehindFits ==
  ASSUME NEW s \in Text, s # <<>>, NEW out \in Text, NEW n \in Nat, NEW rest \in Fits[From(s, n)],
         Len(out) + Skipped[s] + (IF From(s, n) = <<>> THEN 0 ELSE 1) + Len(From(s, n))
           <= Skipped[From(s, n)] + Len(s) + 1
  PROVE  Behind(out, rest) \in Fits[s]
<1>1. CASE rest = NULL
  BY <1>1 DEF Fits, Behind
<1>2. CASE rest # NULL
  <2>0. From(s, n) \in Text
    BY FromText
  <2>1. /\ rest \in Text
        /\ Len(rest) + Skipped[From(s, n)] <= Len(From(s, n)) + (IF From(s, n) = <<>> THEN 0 ELSE 1)
    BY <1>2, <2>0 DEF Fits
  <2>2. out \o rest \in Text /\ Len(out \o rest) = Len(out) + Len(rest)
    BY <2>1, ConcatProperties DEF Text
  <2>3. Behind(out, rest) = out \o rest
    BY <1>2 DEF Behind
  <2>4. /\ Skipped[s] \in Nat /\ Skipped[From(s, n)] \in Nat
        /\ Len(s) \in Nat /\ Len(out) \in Nat /\ Len(rest) \in Nat /\ Len(From(s, n)) \in Nat
    BY <2>0, <2>1, SkippedUnfold, LenProperties DEF Text
  <2>5. Len(out \o rest) + Skipped[s] <= Len(s) + 1
    <3> DEFINE k == IF From(s, n) = <<>> THEN 0 ELSE 1
    <3>1. k \in Nat /\ Len(rest) + Skipped[From(s, n)] <= Len(From(s, n)) + k
          /\ Len(out) + Skipped[s] + k + Len(From(s, n)) <= Skipped[From(s, n)] + Len(s) + 1
      BY <2>1
    <3> HIDE DEF k
    <3>2. ASSUME NEW a \in Nat, NEW b \in Nat, NEW c \in Nat, NEW d \in Nat, NEW e \in Nat, NEW f \in Nat,
                 b + d <= f + k, a + c + k + f <= d + e + 1
          PROVE  a + b + c <= e + 1
      BY <3>1, <3>2
    <3>3. Len(out) + Len(rest) + Skipped[s] <= Len(s) + 1
      BY <2>4, <3>1, <3>2
    <3> QED
      BY <2>2, <3>3
  <2> QED
    BY <2>2, <2>3, <2>5 DEF Fits
<1> QED
  BY <1>1, <1>2

LEMMA UnescapedUnfold ==
  \A s \in Text : Unescaped[s] = UnescapedStep(Unescaped, s) /\ Unescaped[s] \in Fits[s]
<1>1. ASSUME NEW s \in Text, NEW g, NEW h,
             \A t \in Text : TextLen[t] < TextLen[s] => g[t] = h[t] /\ g[t] \in Fits[t]
      PROVE  UnescapedStep(g, s) = UnescapedStep(h, s) /\ UnescapedStep(g, s) \in Fits[s]
  <2>1. CASE s = <<>>
    <3>1. <<>> \in Text /\ Len(<<>>) = 0
      BY EmptySeq DEF Text
    <3>2. Skipped[<<>>] = 0
      BY <3>1, SkippedUnfold DEF SkippedStep
    <3>3. <<>> \in Fits[<<>>]
      BY <3>1, <3>2 DEF Fits
    <3> QED
      BY <2>1, <3>3 DEF UnescapedStep
  <2>2. ASSUME s # <<>>, NEW n \in Nat, n >= 1
        PROVE  /\ From(s, n) \in Text /\ g[From(s, n)] = h[From(s, n)]
               /\ g[From(s, n)] \in Fits[From(s, n)]
               /\ Skipped[From(s, n)] \in Nat /\ Len(From(s, n)) \in Nat
               /\ Len(From(s, n)) = IF n <= Len(s) THEN Len(s) - n ELSE 0
    <3>1. From(s, n) \in Text /\ TextLen[From(s, n)] < TextLen[s]
      BY <2>2, Shorter
    <3>2. Len(From(s, n)) = IF n <= Len(s) THEN Len(s) - n ELSE 0
      BY FromText
    <3> QED
      BY <1>1, <3>1, <3>2, SkippedUnfold, LenProperties DEF Text
  <2>3. Len(s) \in Nat /\ Skipped[s] \in Nat /\ (s # <<>> => Len(s) >= 1 /\ s[1] \in Byte)
    BY Shorter, SkippedUnfold, LenProperties DEF Text
  <2>4. CASE s # <<>> /\ s[1] # Backslash
    <3>1. /\ From(s, 1) \in Text /\ g[From(s, 1)] = h[From(s, 1)] /\ g[From(s, 1)] \in Fits[From(s, 1)]
          /\ Skipped[From(s, 1)] \in Nat /\ Len(From(s, 1)) = Len(s) - 1
      BY <2>2, <2>3, <2>4
    <3>2. UnescapedStep(g, s) = Behind(<<s[1]>>, g[From(s, 1)]) /\ UnescapedStep(h, s) = Behind(<<s[1]>>, h[From(s, 1)])
      BY <2>4, TailFrom DEF UnescapedStep
    <3>3. Skipped[s] = Skipped[From(s, 1)]
      BY <2>4, SkippedUnfold, TailFrom DEF SkippedStep
    <3>4. <<s[1]>> \in Text /\ Len(<<s[1]>>) = 1
      BY <2>3, <2>4 DEF Text
    <3>5. 1 + Skipped[s] + (IF From(s, 1) = <<>> THEN 0 ELSE 1) + Len(From(s, 1)) <= Skipped[From(s, 1)] + Len(s) + 1
      BY <2>3, <3>1, <3>3
    <3>6. Behind(<<s[1]>>, g[From(s, 1)]) \in Fits[s]
      BY <2>4, <3>1, <3>4, <3>5, BehindFits
    <3> QED
      BY <3>1, <3>2, <3>6
  <2>5. CASE s # <<>> /\ s[1] = Backslash /\ Letter(s) \in DOMAIN Escapes
    <3>1. /\ From(s, 2) \in Text /\ g[From(s, 2)] = h[From(s, 2)] /\ g[From(s, 2)] \in Fits[From(s, 2)]
          /\ Skipped[From(s, 2)] \in Nat /\ Len(From(s, 2)) = IF 2 <= Len(s) THEN Len(s) - 2 ELSE 0
      <4>1. 2 \in Nat /\ 2 >= 1
        OBVIOUS
      <4> QED
        BY <2>2, <2>5, <4>1
    <3> DEFINE e == Escapes[Letter(s)]
    <3>2. /\ UnescapedStep(g, s) = Behind(<<e>>, g[From(s, 2)])
          /\ UnescapedStep(h, s) = Behind(<<e>>, h[From(s, 2)])
      BY <2>5 DEF UnescapedStep, From
    <3>3. Skipped[s] = 1 + Skipped[From(s, 2)]
      BY <2>5, SkippedUnfold DEF SkippedStep, From
    <3>4. e \in Byte
      BY <2>5, EscapeByte
    <3> HIDE DEF e
    <3>5. <<e>> \in Text /\ Len(<<e>>) = 1
      BY <3>4 DEF Text
    <3>6. 1 + Skipped[s] + (IF From(s, 2) = <<>> THEN 0 ELSE 1) + Len(From(s, 2)) <= Skipped[From(s, 2)] + Len(s) + 1
      <4>1. CASE From(s, 2) = <<>>
        <5>1. Len(From(s, 2)) = 0
          BY <4>1, EmptySeq
        <5> QED
          BY <2>3, <2>5, <3>1, <3>3, <4>1, <5>1
      <4>2. CASE From(s, 2) # <<>>
        <5>1. 2 <= Len(s)
          BY <2>3, <4>2, FromEnd
        <5> QED
          BY <2>3, <3>1, <3>3, <4>2, <5>1
      <4> QED
        BY <4>1, <4>2
    <3>7. Behind(<<e>>, g[From(s, 2)]) \in Fits[s]
      BY <2>5, <3>1, <3>5, <3>6, BehindFits
    <3> QED
      BY <3>1, <3>2, <3>7
  <2>6. CASE /\ s # <<>> /\ s[1] = Backslash /\ Letter(s) \notin DOMAIN Escapes
             /\ Letter(s) = LetterU /\ utf16_literal_to_utf8(s).length # 0
    <3> DEFINE u == utf16_literal_to_utf8(s)
               n == u.length
    <3>1. /\ n \in {6, 12} /\ n <= Len(s) /\ u.out \in Text
          /\ n = 6 => Len(u.out) <= 3
          /\ n = 12 => Len(u.out) <= 4
      BY <2>6, LiteralTyped
    <3>2. /\ From(s, n) \in Text /\ g[From(s, n)] = h[From(s, n)] /\ g[From(s, n)] \in Fits[From(s, n)]
          /\ Skipped[From(s, n)] \in Nat /\ Len(From(s, n)) = Len(s) - n
      <4> HIDE DEF n
      <4> QED
        BY <2>2, <2>6, <3>1
    <3>3. /\ UnescapedStep(g, s) = Behind(u.out, g[From(s, n)])
          /\ UnescapedStep(h, s) = Behind(u.out, h[From(s, n)])
      BY <2>6 DEF UnescapedStep, From
    <3>4. Skipped[s] <= Skipped[From(s, n)] + (IF n = 6 THEN 3 ELSE 6)
      <4>1. ASSUME NEW k \in Nat, k + 2 <= Len(s)
            PROVE  /\ Skipped[From(s, k)] \in Nat /\ Skipped[From(s, k + 2)] \in Nat
                   /\ Skipped[From(s, k)] <= 1 + Skipped[From(s, k + 2)]
        <5>1. From(s, k) \in Text /\ From(From(s, k), 2) = From(s, k + 2) /\ From(s, k + 2) \in Text
          <6>1. k <= Len(s) /\ k + 2 \in Nat /\ 2 \in Nat
            BY <2>3, <4>1
          <6>2. From(s, k) \in Text /\ From(s, k + 2) \in Text
            BY <6>1, FromText
          <6> QED
            BY <6>1, <6>2, FromFrom
        <5> QED
          BY <5>1, SkippedTwo, SkippedUnfold
      <4>2. Skipped[s] <= 1 + Skipped[From(s, 2)]
        BY SkippedTwo
      <4>3. 6 <= Len(s)
        BY <2>3, <3>1
      <4>4. Skipped[From(s, 2)] <= 1 + Skipped[From(s, 4)] /\ Skipped[From(s, 2)] \in Nat /\ Skipped[From(s, 4)] \in Nat
        <5>1. 2 + 2 = 4 /\ 2 + 2 <= Len(s)
          BY <2>3, <4>3
        <5> QED
          BY <4>1, <5>1
      <4>5. Skipped[From(s, 4)] <= 1 + Skipped[From(s, 6)] /\ Skipped[From(s, 6)] \in Nat
        <5>1. 4 + 2 = 6 /\ 4 + 2 <= Len(s)
          BY <2>3, <4>3
        <5> QED
          BY <4>1, <5>1
      <4>6. CASE n = 6
        BY <2>3, <4>2, <4>4, <4>5, <4>6, SMTT(40)
      <4>7. CASE n = 12
        <5>1. 12 <= Len(s)
          BY <2>3, <3>1, <4>7
        <5>2. Skipped[From(s, 6)] <= 1 + Skipped[From(s, 8)] /\ Skipped[From(s, 8)] \in Nat
          <6>1. 6 + 2 = 8 /\ 6 + 2 <= Len(s)
            BY <2>3, <5>1
          <6> QED
            BY <4>1, <6>1
        <5>3. Skipped[From(s, 8)] <= 1 + Skipped[From(s, 10)] /\ Skipped[From(s, 10)] \in Nat
          <6>1. 8 + 2 = 10 /\ 8 + 2 <= Len(s)
            BY <2>3, <5>1
          <6> QED
            BY <4>1, <6>1
        <5>4. Skipped[From(s, 10)] <= 1 + Skipped[From(s, 12)] /\ Skipped[From(s, 12)] \in Nat
          <6>1. 10 + 2 = 12 /\ 10 + 2 <= Len(s)
            BY <2>3, <5>1
          <6> QED
            BY <4>1, <6>1
        <5>5. Skipped[s] <= 6 + Skipped[From(s, 12)]
          <6>1. Skipped[s] <= 3 + Skipped[From(s, 6)]
            BY <2>3, <4>2, <4>4, <4>5, SMTT(40)
          <6>2. Skipped[From(s, 6)] <= 3 + Skipped[From(s, 12)]
            BY <4>5, <5>2, <5>3, <5>4
          <6> QED
            BY <2>3, <4>5, <5>4, <6>1, <6>2, SMTT(40)
        <5> QED
          BY <2>3, <4>7, <5>5, <5>4
      <4> QED
        BY <3>1, <4>6, <4>7
    <3>5. Len(u.out) + Skipped[s] + (IF From(s, n) = <<>> THEN 0 ELSE 1) + Len(From(s, n)) <= Skipped[From(s, n)] + Len(s) + 1
      <4>1. Len(u.out) \in Nat
        BY <3>1, LenProperties DEF Text
      <4> HIDE DEF u
      <4>2. CASE n = 6
        BY <2>3, <3>1, <3>2, <3>4, <4>1, <4>2, SMTT(40)
      <4>3. CASE n = 12
        BY <2>3, <3>1, <3>2, <3>4, <4>1, <4>3, SMTT(40)
      <4> QED
        BY <3>1, <4>2, <4>3, SMTT(40)
    <3>6. Behind(u.out, g[From(s, n)]) \in Fits[s]
      <4> HIDE DEF n, u
      <4> QED
        BY <2>6, <3>1, <3>2, <3>5, BehindFits
    <3> QED
      BY <3>2, <3>3, <3>6
  <2>7. CASE /\ s # <<>> /\ s[1] = Backslash /\ Letter(s) \notin DOMAIN Escapes
             /\ ~(Letter(s) = LetterU /\ utf16_literal_to_utf8(s).length # 0)
    <3>1. UnescapedStep(g, s) = NULL /\ UnescapedStep(h, s) = NULL
      BY <2>7 DEF UnescapedStep
    <3> QED
      BY <3>1 DEF Fits
  <2> QED
    BY <2>1, <2>4, <2>5, <2>6, <2>7
<1>2. Unescaped = CHOOSE g : g = [s \in Text |-> UnescapedStep(g, s)]
  BY DEF Unescaped, UnescapedStep
<1> QED
  BY <1>1, <1>2, TextLenNat, UnescapedRecursion!UnfoldsTyped

-----------------------------------------------------------------------------
(* What the buffer holds at an offset. *)

LEMMA FirstFromIs ==
  ASSUME NEW s \in Text, NEW o \in Nat, o <= Len(s), NEW stop
  PROVE  LET e == FirstFrom(s, o, stop)
         IN  /\ e \in o..Len(s) /\ e \in Nat
             /\ e < Len(s) => s[e + 1] \in stop
             /\ \A i \in (o + 1)..e : s[i] \notin stop
<1> DEFINE P(e) == /\ e < Len(s) => s[e + 1] \in stop
                   /\ \A i \in (o + 1)..e : s[i] \notin stop
           W == {i \in (o + 1)..Len(s) : s[i] \in stop}
<1>1. Len(s) \in Nat
  BY LenProperties DEF Text
<1>2. \E e \in o..Len(s) : P(e)
  <2>1. CASE W = {}
    <3>1. Len(s) \in o..Len(s)
      BY <1>1
    <3>2. P(Len(s))
      BY <1>1, <2>1
    <3> QED
      BY <3>1, <3>2
  <2>2. CASE W # {}
    <3>1. W \in SUBSET Nat
      BY <1>1
    <3> HIDE DEF W
    <3>2. PICK m \in W : \A y \in W : m <= y
      BY <2>2, <3>1, TextRecursion!Least
    <3>3. m \in (o + 1)..Len(s) /\ s[m] \in stop
      BY <3>2 DEF W
    <3>4. m - 1 \in o..Len(s) /\ (m - 1) + 1 = m
      BY <1>1, <3>3
    <3>5. ASSUME NEW i \in (o + 1)..(m - 1) PROVE s[i] \notin stop
      <4>1. i \in (o + 1)..Len(s) /\ ~(m <= i)
        BY <1>1, <3>3
      <4> QED
        BY <3>2, <4>1 DEF W
    <3>6. P(m - 1)
      BY <3>3, <3>4, <3>5
    <3> QED
      BY <3>4, <3>6
  <2> QED
    BY <2>1, <2>2
<1>3. FirstFrom(s, o, stop) = CHOOSE e \in o..Len(s) : P(e)
  BY DEF FirstFrom
<1> HIDE DEF P
<1>4. FirstFrom(s, o, stop) \in o..Len(s) /\ P(FirstFrom(s, o, stop))
  BY <1>2, <1>3
<1>5. FirstFrom(s, o, stop) \in Nat
  BY <1>1, <1>4
<1> QED
  BY <1>4, <1>5 DEF P

LEMMA BufferTyped ==
  ASSUME NEW buf \in parse_buffer, NEW o \in Nat
  PROVE  /\ buf.content \in Text /\ Len(buf.content) \in Nat /\ buf.offset \in Nat /\ buf.depth \in Nat
         /\ To(buf, o) \in parse_buffer /\ To(buf, o).content = buf.content
         /\ To(buf, o).offset = o /\ To(buf, o).depth = buf.depth
         /\ CanAccess(buf, 0) <=> buf.offset < Len(buf.content)
<1>1. buf.content \in Text /\ buf.offset \in Nat /\ buf.depth \in Nat
  BY DEF parse_buffer
<1>2. Len(buf.content) \in Nat
  BY <1>1, LenProperties DEF Text
<1>3. CanAccess(buf, 0) <=> buf.offset < Len(buf.content)
  BY <1>1, <1>2 DEF CanAccess
<1> QED
  BY <1>1, <1>2, <1>3 DEF parse_buffer, To

(* Blanks are skipped, never past the end. *)
LEMMA SkipIs ==
  ASSUME NEW buf \in parse_buffer, NEW o \in Nat
  PROVE  LET q == Skip(buf, o)
         IN  /\ q \in parse_buffer /\ q.content = buf.content /\ q.depth = buf.depth
             /\ q.offset >= o
             /\ o < Len(buf.content) => q.offset < Len(buf.content)
             /\ o >= Len(buf.content) => q.offset = o
<1> DEFINE b == To(buf, o)
           k == buffer_skip_whitespace(b)
           e == FirstFrom(buf.content, o, 33..255)
<1>1. /\ buf.content \in Text /\ Len(buf.content) \in Nat
      /\ b \in parse_buffer /\ b.content = buf.content /\ b.offset = o
      /\ CanAccess(b, 0) <=> o < Len(buf.content)
  BY BufferTyped
<1>2. k = IF ~CanAccess(b, 0) THEN o ELSE IF e = Len(buf.content) THEN e - 1 ELSE e
  BY <1>1 DEF buffer_skip_whitespace
<1>3. k \in Nat /\ k >= o /\ (o < Len(buf.content) => k < Len(buf.content)) /\ (o >= Len(buf.content) => k = o)
  <2>1. CASE o >= Len(buf.content)
    BY <1>1, <1>2, <2>1
  <2>2. CASE o < Len(buf.content)
    <3>1. e \in o..Len(buf.content)
      BY <1>1, <2>2, FirstFromIs
    <3> HIDE DEF e
    <3> QED
      BY <1>1, <1>2, <2>2, <3>1
  <2> QED
    BY <1>1, <2>1, <2>2
<1>4. Skip(buf, o) = To(buf, k)
  BY DEF Skip
<1> HIDE DEF k
<1>5. /\ To(buf, k) \in parse_buffer /\ To(buf, k).content = buf.content
      /\ To(buf, k).offset = k /\ To(buf, k).depth = buf.depth
  BY <1>3, BufferTyped
<1> QED
  BY <1>3, <1>4, <1>5

(* What cJSON makes of a string: an item with one more block. *)
StringItem(t) == [Typed("String") EXCEPT !.string = t]

LEMMA AccessTyped ==
  ASSUME NEW buf \in parse_buffer, CanAccess(buf, 0)
  PROVE  /\ buf.content \in Text /\ Len(buf.content) \in Nat /\ buf.offset \in Nat
         /\ buf.offset < Len(buf.content) /\ buf.offset + 1 \in Nat
<1>1. 0 \in Nat
  OBVIOUS
<1>2. /\ buf.content \in Text /\ Len(buf.content) \in Nat /\ buf.offset \in Nat
      /\ buf.offset + 0 < Len(buf.content)
  BY <1>1, BufferTyped DEF CanAccess
<1> QED
  BY <1>2

LEMMA ParseString ==
  ASSUME NEW buf \in parse_buffer, CanAccess(buf, 0)
  PROVE  LET r == parse_string(buf)
         IN  \/ r = Refused(buf)
             \/ \E t \in Text : \E n \in Nat :
                  /\ buf.offset + 2 <= n /\ n <= Len(buf.content)
                  /\ r = Parsed(n, StringItem(t), 1)
<1> DEFINE s == From(buf.content, buf.offset + 1)
           t == SubSeq(s, 1, StringEnd[s])
<1>1. /\ buf.content \in Text /\ Len(buf.content) \in Nat /\ buf.offset \in Nat
      /\ buf.offset < Len(buf.content) /\ buf.offset + 1 \in Nat
  BY AccessTyped
<1>2. s \in Text /\ Len(s) \in Nat /\ Len(s) = Len(buf.content) - (buf.offset + 1)
  <2>1. s \in Text /\ Len(s) = IF buf.offset + 1 <= Len(buf.content) THEN Len(buf.content) - (buf.offset + 1) ELSE 0
    BY <1>1, FromText
  <2> QED
    BY <1>1, <2>1
<1>3. SubSeq(buf.content, buf.offset + 2, Len(buf.content)) = s
  <2>1. buf.offset + 2 = buf.offset + 1 + 1
    BY <1>1
  <2> QED
    BY <2>1 DEF From
<1> HIDE DEF s
<1>4. StringEnd[s] \in Nat
  BY <1>2, StringEndUnfold
<1>5. CASE ~Is(buf, Quote)
  BY <1>5 DEF parse_string, Refused
<1>6. CASE Is(buf, Quote) /\ StringEnd[s] >= Len(s)
  BY <1>3, <1>6 DEF parse_string, Quoted
<1>7. CASE Is(buf, Quote) /\ StringEnd[s] < Len(s)
  <2>0. ~(StringEnd[s] >= Len(s))
    BY <1>2, <1>4, <1>7
  <2>1. parse_string(buf) = Unquoted(buf, t)
    BY <1>3, <1>7, <2>0 DEF parse_string, Quoted
  <2>2. t \in Text /\ Len(t) = StringEnd[s]
    <3>1. StringEnd[s] \in 0..Len(s)
      BY <1>2, <1>4, <1>7
    <3> QED
      BY <1>2, <3>1, PrefixText
  <2>3. CASE Unescaped[t] = NULL
    BY <2>1, <2>3 DEF Unquoted
  <2>4. CASE Unescaped[t] # NULL
    <3> HIDE DEF t
    <3>1. Unescaped[t] \in Fits[t] /\ Len(t) \in Nat /\ Skipped[t] \in Nat
      BY <2>2, UnescapedUnfold, SkippedUnfold, LenProperties DEF Text
    <3>2. /\ Unescaped[t] \in Text /\ Len(Unescaped[t]) \in Nat
          /\ Len(Unescaped[t]) + Skipped[t] <= Len(t) + (IF t = <<>> THEN 0 ELSE 1)
      BY <2>2, <2>4, <3>1, LenProperties DEF Fits, Text
    <3>3. Len(Unescaped[t]) + 1 <= Allocation(t)
      <4>1. Len(Unescaped[t]) + Skipped[t] <= Len(t) + 1
        BY <3>1, <3>2
      <4> QED
        BY <3>1, <3>2, <4>1 DEF Allocation
    <3> DEFINE n == buf.offset + Len(t) + 2
    <3>4. n \in Nat /\ buf.offset + 2 <= n /\ n <= Len(buf.content)
      <4>1. Len(t) + 1 <= Len(buf.content) - (buf.offset + 1)
        BY <1>2, <1>7, <2>2, <3>1
      <4> QED
        BY <1>1, <3>1, <4>1, SMTT(40)
    <3>5. parse_string(buf) = Parsed(n, StringItem(Unescaped[t]), 1)
      BY <2>1, <2>4, <3>3 DEF Unquoted, Parsed, StringItem
    <3> HIDE DEF n
    <3> QED
      BY <3>2, <3>4, <3>5
  <2> QED
    BY <2>3, <2>4
<1> QED
  BY <1>2, <1>4, <1>5, <1>6, <1>7

-----------------------------------------------------------------------------
(* Numbers. *)

LEMMA PartOfText ==
  ASSUME NEW s \in Text, NEW i \in Nat, i >= 1, NEW j \in Nat, j <= Len(s)
  PROVE  SubSeq(s, i, j) \in Text
<1>1. Len(s) \in Nat /\ \A k \in i..j : s[k] \in Byte
  BY ElementOfSeq, LenProperties DEF Text
<1> QED
  BY <1>1, SubSeqProperties DEF Text

LEMMA UnsignedText == \A s \in Text : Unsigned(s) \in Text
  BY TailFrom DEF Unsigned

LEMMA DecimalInt ==
  ASSUME NEW m \in Text, NEW shift \in Int
  PROVE  Decimal(m, shift) \in Int
<1> DEFINE point == IF Point \in Range(m) THEN (CHOOSE k \in DOMAIN m : m[k] = Point) - 1 ELSE Len(m)
           digits == [k \in 1..(point + shift) |->
                        IF k <= point THEN m[k] ELSE IF k < Len(m) THEN m[k + 1] ELSE 48]
<1>1. Len(m) \in Nat /\ DOMAIN m = 1..Len(m) /\ \A k \in 1..Len(m) : m[k] \in Byte
  BY LenProperties, ElementOfSeq DEF Text
<1>2. point \in 0..Len(m)
  <2>1. CASE Point \in Range(m)
    <3>1. \E k \in DOMAIN m : m[k] = Point
      BY <2>1 DEF Range
    <3>2. (CHOOSE k \in DOMAIN m : m[k] = Point) \in 1..Len(m)
      BY <1>1, <3>1
    <3> QED
      BY <1>1, <2>1, <3>2
  <2>2. CASE Point \notin Range(m)
    BY <1>1, <2>2
  <2> QED
    BY <2>1, <2>2
<1> HIDE DEF point
<1>3. ASSUME NEW k \in 1..(point + shift) PROVE digits[k] \in Byte
  <2>1. k \in Nat /\ k >= 1
    BY <1>2
  <2>2. 48 \in Byte
    BY DEF Byte
  <2>3. CASE k <= point
    BY <1>1, <1>2, <2>1, <2>3
  <2>4. CASE ~(k <= point) /\ k < Len(m)
    <3>1. k + 1 \in 1..Len(m)
      BY <1>1, <2>1, <2>4
    <3> QED
      BY <1>1, <2>4, <3>1
  <2> QED
    BY <2>2, <2>3, <2>4
<1>4. digits \in Text
  <2> DEFINE n == IF point + shift >= 0 THEN point + shift ELSE 0
  <2>1. n \in Nat /\ 1..(point + shift) = 1..n
    BY <1>1, <1>2
  <2>2. digits \in [1..n -> Byte]
    BY <1>3, <2>1
  <2> HIDE DEF digits, n
  <2> QED
    BY <2>1, <2>2 DEF Text
<1>5. Decimal(m, shift) = ValueOf[digits]
  BY DEF Decimal, point
<1> HIDE DEF digits
<1> QED
  BY <1>4, <1>5, ValueOfInt

LEMMA ShiftInt == \A e \in Text : Shift(e) \in Int
<1> SUFFICES ASSUME NEW e \in Text, e # <<>> PROVE Shift(e) \in Int
  BY DEF Shift
<1>1. ValueOf[Tail(e)] \in Int /\ ValueOf[Unsigned(e)] \in Int
  BY TailFrom, UnsignedText, ValueOfInt
<1> QED
  BY <1>1 DEF Shift

(* There is a longest beginning. *)
LEMMA LongestIs ==
  ASSUME NEW n \in Nat, NEW splits \in SUBSET ((1..n) \X (1..n)), splits # {}
  PROVE  Longest(splits) \in splits
<1> DEFINE E == {n - p[2] : p \in splits}
<1>1. E \in SUBSET Nat /\ E # {}
  OBVIOUS
<1>2. PICK x \in E : \A y \in E : x <= y
  <2> HIDE DEF E
  <2> QED
    BY <1>1, TextRecursion!Least
<1>3. PICK r \in splits : x = n - r[2]
  BY <1>2
<1>4. ASSUME NEW q \in splits PROVE q[2] <= r[2]
  <2>1. n - r[2] <= n - q[2]
    BY <1>2, <1>3
  <2>2. q[2] \in 1..n /\ r[2] \in 1..n
    OBVIOUS
  <2> QED
    BY <2>1, <2>2
<1> DEFINE B == {p[1] : p \in {q \in splits : q[2] = r[2]}}
<1>5. B \in SUBSET Nat /\ B # {}
  BY <1>3
<1>6. PICK z \in B : \A y \in B : z <= y
  <2> HIDE DEF B
  <2> QED
    BY <1>5, TextRecursion!Least
<1>7. PICK p \in splits : p[2] = r[2] /\ p[1] = z
  BY <1>6
<1>8. ASSUME NEW q \in splits PROVE q[2] < p[2] \/ (q[2] = p[2] /\ p[1] <= q[1])
  <2>1. q[2] <= p[2] /\ q[2] \in 1..n /\ p[2] \in 1..n
    BY <1>4, <1>7
  <2>2. CASE q[2] = p[2]
    <3>1. q[1] \in B
      BY <1>7, <2>2
    <3> QED
      BY <1>6, <1>7, <2>2, <3>1
  <2> QED
    BY <2>1, <2>2
<1> HIDE DEF E, B
<1> QED
  BY <1>8 DEF Longest

LEMMA StrtodTyped ==
  ASSUME NEW s \in Text
  PROVE  Strtod(s).taken \in Nat /\ Strtod(s).taken <= Len(s) /\ Strtod(s).value \in Int
<1> DEFINE splits == {p \in (1..Len(s)) \X (1..Len(s)) :
                        /\ p[1] <= p[2] /\ IsMantissa(Unsigned(SubSeq(s, 1, p[1])))
                        /\ IsExponent(SubSeq(s, p[1] + 1, p[2]))}
<1>1. Len(s) \in Nat
  BY LenProperties DEF Text
<1>2. CASE splits = {}
  <2>1. Strtod(s) = [taken |-> 0, value |-> 0]
    BY <1>2 DEF Strtod
  <2> QED
    BY <1>1, <2>1
<1>3. CASE splits # {}
  <2> DEFINE p == Longest(splits)
  <2>1. Strtod(s) = NumberAt(s, p)
    BY <1>3 DEF Strtod
  <2>2. splits \in SUBSET ((1..Len(s)) \X (1..Len(s)))
    OBVIOUS
  <2>3. p \in splits
    <3> HIDE DEF splits
    <3> QED
      BY <1>1, <1>3, <2>2, LongestIs
  <2>4. p[1] \in 1..Len(s) /\ p[2] \in 1..Len(s)
    BY <2>3
  <2> HIDE DEF p
  <2>5. SubSeq(s, 1, p[1]) \in Text /\ SubSeq(s, p[1] + 2, p[2]) \in Text
    <3>1. p[1] \in Nat /\ p[1] <= Len(s) /\ p[2] \in Nat /\ p[2] <= Len(s) /\ p[1] + 2 \in Nat /\ p[1] + 2 >= 1
      BY <1>1, <2>4
    <3> QED
      BY <3>1, PartOfText
  <2>6. Decimal(Unsigned(SubSeq(s, 1, p[1])), Shift(SubSeq(s, p[1] + 2, p[2]))) \in Int
    BY <2>5, UnsignedText, ShiftInt, DecimalInt
  <2>7. NumberAt(s, p).taken = p[2] /\ NumberAt(s, p).value \in Int
    BY <2>6 DEF NumberAt
  <2> QED
    BY <1>1, <2>1, <2>4, <2>7
<1> QED
  BY <1>2, <1>3

NumberItem(n) == [Typed("Number") EXCEPT !.int = n]

LEMMA ParseNumber ==
  ASSUME NEW buf \in parse_buffer, CanAccess(buf, 0)
  PROVE  LET r == parse_number(buf)
         IN  \/ r = Refused(buf)
             \/ \E k \in Int : \E n \in Nat :
                  buf.offset < n /\ n <= Len(buf.content) /\ r = Parsed(n, NumberItem(k), 0)
<1> DEFINE e == FirstFrom(buf.content, buf.offset, OtherBytes)
           s == SubSeq(buf.content, buf.offset + 1, e)
           v == Strtod(s)
<1>1. /\ buf.content \in Text /\ Len(buf.content) \in Nat /\ buf.offset \in Nat
      /\ buf.offset < Len(buf.content) /\ buf.offset + 1 \in Nat
  BY AccessTyped
<1>2. e \in buf.offset..Len(buf.content) /\ e \in Nat
  BY <1>1, FirstFromIs
<1> HIDE DEF e
<1>3. s \in Text /\ Len(s) = e - buf.offset
  <2>1. \A k \in (buf.offset + 1)..e : buf.content[k] \in Byte
    BY <1>1, <1>2, ElementOfSeq DEF Text
  <2>2. s \in Seq(Byte) /\ Len(s) = IF buf.offset + 1 <= e THEN e - (buf.offset + 1) + 1 ELSE 0
    BY <1>1, <1>2, <2>1, SubSeqProperties
  <2> HIDE DEF s
  <2> QED
    BY <1>1, <1>2, <2>2 DEF Text
<1> HIDE DEF s
<1>4. v.taken \in Nat /\ v.taken <= Len(s) /\ v.value \in Int
  BY <1>3, StrtodTyped
<1>5. parse_number(buf) = Number(buf, v)
  BY DEF parse_number, e, s
<1> HIDE DEF v
<1>6. CASE v.taken = 0
  BY <1>5, <1>6 DEF Number
<1>7. CASE v.taken # 0
  <2>1. Saturated(v.value) \in Int
    BY <1>4, JsonAssumption DEF Saturated, INT_MIN
  <2>2. parse_number(buf) = Parsed(buf.offset + v.taken, NumberItem(Saturated(v.value)), 0)
    BY <1>5, <1>7 DEF Number, NumberItem
  <2>3. buf.offset + v.taken \in Nat /\ buf.offset < buf.offset + v.taken /\ buf.offset + v.taken <= Len(buf.content)
    BY <1>1, <1>2, <1>3, <1>4, <1>7
  <2> QED
    BY <2>1, <2>2, <2>3
<1> QED
  BY <1>6, <1>7

-----------------------------------------------------------------------------
(* Items and their blocks. *)

NumbersLen == [s \in Seq(Nat) |-> Len(s)]

TotalStep(g, s) == IF s = <<>> THEN 0 ELSE Head(s) + g[Tail(s)]

TotalRecursion == INSTANCE Recursion WITH S <- Seq(Nat), rank <- NumbersLen, Def <- TotalStep

LEMMA TotalUnfold ==
  \A s \in Seq(Nat) : Total[s] = TotalStep(Total, s) /\ Total[s] \in Nat
<1> DEFINE Good == [s \in Seq(Nat) |-> Nat]
<1>1. ASSUME NEW s \in Seq(Nat), NEW g, NEW h,
             \A t \in Seq(Nat) : NumbersLen[t] < NumbersLen[s] => g[t] = h[t] /\ g[t] \in Good[t]
      PROVE  TotalStep(g, s) = TotalStep(h, s) /\ TotalStep(g, s) \in Good[s]
  <2>1. CASE s = <<>>
    BY <2>1 DEF TotalStep
  <2>2. CASE s # <<>>
    <3>1. Tail(s) \in Seq(Nat) /\ Len(Tail(s)) = Len(s) - 1 /\ Len(s) \in Nat /\ Head(s) \in Nat
      BY <2>2, HeadTailProperties, LenProperties
    <3>2. NumbersLen[Tail(s)] < NumbersLen[s]
      BY <3>1 DEF NumbersLen
    <3>3. g[Tail(s)] = h[Tail(s)] /\ g[Tail(s)] \in Nat
      BY <1>1, <3>1, <3>2
    <3> QED
      BY <2>2, <3>1, <3>3 DEF TotalStep
  <2> QED
    BY <2>1, <2>2
<1>2. Total = CHOOSE g : g = [s \in Seq(Nat) |-> TotalStep(g, s)]
  BY DEF Total, TotalStep
<1>3. NumbersLen \in [Seq(Nat) -> Nat]
  BY LenProperties DEF NumbersLen
<1> HIDE DEF Good
<1>4. \A s \in Seq(Nat) : Total[s] = TotalStep(Total, s) /\ Total[s] \in Good[s]
  BY <1>1, <1>2, <1>3, TotalRecursion!UnfoldsTyped
<1> QED
  BY <1>4 DEF Good

LEMMA TotalEmpty == Total[<<>>] = 0
  BY TotalUnfold, EmptySeq DEF TotalStep

LEMMA ConsIs ==
  ASSUME NEW S, NEW x \in S, NEW s \in Seq(S)
  PROVE  /\ <<x>> \o s \in Seq(S) /\ <<x>> \o s # <<>>
         /\ Head(<<x>> \o s) = x /\ Tail(<<x>> \o s) = s
         /\ Len(<<x>> \o s) = Len(s) + 1
<1> DEFINE c == <<x>> \o s
<1>0. <<x>> \in Seq(S) /\ Len(<<x>>) = 1 /\ <<x>>[1] = x /\ Len(s) \in Nat
  BY LenProperties
<1>1. /\ c \in Seq(S) /\ Len(c) = Len(s) + 1
      /\ \A i \in 1..(Len(s) + 1) : c[i] = IF i <= 1 THEN <<x>>[i] ELSE s[i - 1]
  <2>1. /\ c \in Seq(S) /\ Len(c) = Len(<<x>>) + Len(s)
        /\ \A i \in 1..(Len(<<x>>) + Len(s)) : c[i] = IF i <= Len(<<x>>) THEN <<x>>[i] ELSE s[i - Len(<<x>>)]
    BY <1>0, ConcatProperties
  <2>2. Len(<<x>>) + Len(s) = Len(s) + 1
    BY <1>0
  <2> HIDE DEF c
  <2> QED
    BY <1>0, <2>1, <2>2
<1> HIDE DEF c
<1>2. c # <<>>
  BY <1>0, <1>1, EmptySeq
<1>3. c[1] = x
  BY <1>0, <1>1
<1>4. Head(c) = x
  BY <1>1, <1>2, <1>3
<1>5. Tail(c) = s
  <2>1. Tail(c) \in Seq(S) /\ Len(Tail(c)) = Len(s) /\ \A i \in 1..Len(Tail(c)) : Tail(c)[i] = c[i + 1]
    BY <1>0, <1>1, <1>2, HeadTailProperties
  <2>2. \A i \in 1..Len(s) : Tail(c)[i] = s[i]
    <3> SUFFICES ASSUME NEW i \in 1..Len(s) PROVE Tail(c)[i] = s[i]
      OBVIOUS
    <3>1. Tail(c)[i] = c[i + 1]
      BY <2>1
    <3>2. i + 1 \in 1..(Len(s) + 1) /\ ~(i + 1 <= 1) /\ i + 1 - 1 = i
      BY <1>0
    <3>3. c[i + 1] = s[i + 1 - 1]
      BY <1>1, <3>2
    <3> QED
      BY <3>1, <3>2, <3>3
  <2> QED
    BY <2>1, <2>2, SeqEqual
<1> QED
  BY <1>1, <1>2, <1>4, <1>5 DEF c

LEMMA One == \A S : \A x \in S : <<x>> \in Seq(S)
  OBVIOUS

LEMMA TotalCons ==
  ASSUME NEW x \in Nat, NEW s \in Seq(Nat)
  PROVE  Total[<<x>> \o s] = x + Total[s]
<1>1. /\ <<x>> \o s \in Seq(Nat) /\ <<x>> \o s # <<>>
      /\ Head(<<x>> \o s) = x /\ Tail(<<x>> \o s) = s
  BY ConsIs
<1>2. Total[<<x>> \o s] = TotalStep(Total, <<x>> \o s)
  BY <1>1, TotalUnfold
<1> HIDE DEF Total
<1> QED
  BY <1>1, <1>2 DEF TotalStep

(* Items, one level after the other. *)
NatId == [n \in Nat |-> n]

ItemsWith(C) ==
  [type : Types, int : Int, string : Text \cup {NULL}, name : Text \cup {NULL}, child : C]

ItemsStep(g, n) == ItemsWith(IF n = 0 THEN {<<>>} ELSE Seq(g[n - 1]))

LEMMA ItemsWithMore ==
  ASSUME NEW C, NEW D, C \subseteq D
  PROVE  ItemsWith(C) \subseteq ItemsWith(D)
  BY DEF ItemsWith

ItemsRecursion == INSTANCE Recursion WITH S <- Nat, rank <- NatId, Def <- ItemsStep

LEMMA ItemsUnfold == \A n \in Nat : Items[n] = ItemsStep(Items, n)
<1>1. ASSUME NEW n \in Nat, NEW g, NEW h, \A m \in Nat : NatId[m] < NatId[n] => g[m] = h[m]
      PROVE  ItemsStep(g, n) = ItemsStep(h, n)
  <2>1. CASE n = 0
    BY <2>1 DEF ItemsStep
  <2>2. CASE n # 0
    <3>1. n - 1 \in Nat /\ NatId[n - 1] < NatId[n]
      BY <2>2 DEF NatId
    <3>2. g[n - 1] = h[n - 1]
      BY <1>1, <3>1
    <3> QED
      BY <2>2, <3>2 DEF ItemsStep
  <2> QED
    BY <2>1, <2>2
<1>2. Items = CHOOSE g : g = [n \in Nat |-> ItemsStep(g, n)]
  BY DEF Items, ItemsStep, ItemsWith
<1>3. NatId \in [Nat -> Nat]
  BY DEF NatId
<1> QED
  BY <1>1, <1>2, <1>3, ItemsRecursion!Unfolds

(* An item of a level is one of all above. *)
LEMMA ItemsGrow == \A n \in Nat : Items[n] \subseteq Items[n + 1]
<1> DEFINE T == {n \in Nat : Items[n] \subseteq Items[n + 1]}
<1>1. ASSUME NEW n \in Nat, \A m \in Nat : m < n => m \in T PROVE n \in T
  <2>1. Items[n + 1] = ItemsWith(Seq(Items[n]))
    <3>1. n + 1 \in Nat /\ n + 1 # 0 /\ n + 1 - 1 = n
      OBVIOUS
    <3> QED
      BY <3>1, ItemsUnfold DEF ItemsStep
  <2>2. CASE n = 0
    <3>1. Items[n] = ItemsWith({<<>>})
      BY <2>2, ItemsUnfold DEF ItemsStep
    <3>2. {<<>>} \subseteq Seq(Items[n])
      BY EmptySeq
    <3>3. ItemsWith({<<>>}) \subseteq ItemsWith(Seq(Items[n]))
      BY <3>2, ItemsWithMore
    <3> QED
      BY <2>1, <3>1, <3>3
  <2>3. CASE n # 0
    <3>1. n - 1 \in Nat /\ n - 1 < n /\ n - 1 + 1 = n
      BY <2>3
    <3>2. Items[n - 1] \subseteq Items[n]
      BY <1>1, <3>1
    <3>3. Seq(Items[n - 1]) \subseteq Seq(Items[n])
      BY <3>2
    <3>4. Items[n] = ItemsWith(Seq(Items[n - 1]))
      BY <2>3, ItemsUnfold DEF ItemsStep
    <3> QED
      BY <2>1, <3>3, <3>4, ItemsWithMore
  <2> QED
    BY <2>2, <2>3
<1>2. T \in SUBSET Nat
  OBVIOUS
<1> HIDE DEF T
<1>3. Nat = T
  BY <1>1, <1>2, TextRecursion!NatIsLeast
<1> USE DEF T
<1> QED
  BY <1>3

(* The blocks of the items of a level. *)
BlocksStep(g, n) ==
  [items \in Seq(Items[n]) |->
     Total[[k \in DOMAIN items |->
              Own(items[k]) + (IF n = 0 THEN 0 ELSE g[n - 1][items[k].child])]]]

BlocksRecursion == INSTANCE Recursion WITH S <- Nat, rank <- NatId, Def <- BlocksStep

LEMMA OwnNat == \A i : Own(i) \in Nat
  BY DEF Own

LEMMA ChildItems ==
  ASSUME NEW n \in Nat, NEW i \in Items[n]
  PROVE  IF n = 0 THEN i.child = <<>> ELSE i.child \in Seq(Items[n - 1])
<1>1. i \in ItemsWith(IF n = 0 THEN {<<>>} ELSE Seq(Items[n - 1]))
  BY ItemsUnfold DEF ItemsStep
<1>2. i.child \in IF n = 0 THEN {<<>>} ELSE Seq(Items[n - 1])
  BY <1>1 DEF ItemsWith
<1> QED
  BY <1>2

LEMMA BlocksUnfold ==
  \A n \in Nat : BlocksOf[n] = BlocksStep(BlocksOf, n) /\ BlocksOf[n] \in [Seq(Items[n]) -> Nat]
<1>1. ASSUME NEW n \in Nat, NEW g, NEW h, \A m \in Nat : NatId[m] < NatId[n] => g[m] = h[m]
      PROVE  BlocksStep(g, n) = BlocksStep(h, n)
  <2>1. CASE n = 0
    BY <2>1 DEF BlocksStep
  <2>2. CASE n # 0
    <3>1. n - 1 \in Nat /\ NatId[n - 1] < NatId[n]
      BY <2>2 DEF NatId
    <3>2. g[n - 1] = h[n - 1]
      BY <1>1, <3>1
    <3> QED
      BY <2>2, <3>2 DEF BlocksStep
  <2> QED
    BY <2>1, <2>2
<1>2. BlocksOf = CHOOSE g : g = [n \in Nat |-> BlocksStep(g, n)]
  BY DEF BlocksOf, BlocksStep
<1>3. NatId \in [Nat -> Nat]
  BY DEF NatId
<1>4. \A n \in Nat : BlocksOf[n] = BlocksStep(BlocksOf, n)
  BY <1>1, <1>2, <1>3, BlocksRecursion!Unfolds
<1> DEFINE T == {n \in Nat : BlocksOf[n] \in [Seq(Items[n]) -> Nat]}
<1>5. ASSUME NEW n \in Nat, \A m \in Nat : m < n => m \in T PROVE n \in T
  <2>1. ASSUME NEW items \in Seq(Items[n])
        PROVE  [k \in DOMAIN items |-> Own(items[k]) + (IF n = 0 THEN 0 ELSE BlocksOf[n - 1][items[k].child])] \in Seq(Nat)
    <3>1. Len(items) \in Nat /\ DOMAIN items = 1..Len(items) /\ \A k \in 1..Len(items) : items[k] \in Items[n]
      BY LenProperties, ElementOfSeq
    <3>2. ASSUME NEW k \in 1..Len(items)
          PROVE  Own(items[k]) + (IF n = 0 THEN 0 ELSE BlocksOf[n - 1][items[k].child]) \in Nat
      <4>1. CASE n = 0
        BY <4>1, OwnNat
      <4>2. CASE n # 0
        <5>1. n - 1 \in Nat /\ n - 1 < n
          BY <4>2
        <5>2. BlocksOf[n - 1] \in [Seq(Items[n - 1]) -> Nat]
          BY <1>5, <5>1
        <5>3. items[k].child \in Seq(Items[n - 1])
          BY <3>1, <4>2, ChildItems
        <5>4. BlocksOf[n - 1][items[k].child] \in Nat
          BY <5>2, <5>3
        <5> QED
          BY <4>2, <5>4, OwnNat
      <4> QED
        BY <4>1, <4>2
    <3> QED
      BY <3>1, <3>2
  <2>2. BlocksStep(BlocksOf, n) \in [Seq(Items[n]) -> Nat]
    BY <2>1, TotalUnfold DEF BlocksStep
  <2> QED
    BY <1>4, <2>2
<1>6. T \in SUBSET Nat
  OBVIOUS
<1> HIDE DEF T
<1>7. Nat = T
  BY <1>5, <1>6, TextRecursion!NatIsLeast
<1> USE DEF T
<1> QED
  BY <1>4, <1>7

(* What an item of level n adds. *)
Weight(n, i) == Own(i) + (IF n = 0 THEN 0 ELSE BlocksOf[n - 1][i.child])

Weights(n, items) == [k \in DOMAIN items |-> Weight(n, items[k])]

LEMMA WeightNat == \A n \in Nat : \A i \in Items[n] : Weight(n, i) \in Nat
<1> SUFFICES ASSUME NEW n \in Nat, NEW i \in Items[n] PROVE Weight(n, i) \in Nat
  OBVIOUS
<1>1. CASE n = 0
  BY <1>1, OwnNat DEF Weight
<1>2. CASE n # 0
  <2>1. n - 1 \in Nat /\ i.child \in Seq(Items[n - 1])
    BY <1>2, ChildItems
  <2>2. BlocksOf[n - 1][i.child] \in Nat
    BY <2>1, BlocksUnfold
  <2> QED
    BY <1>2, <2>2, OwnNat DEF Weight
<1> QED
  BY <1>1, <1>2

LEMMA BlocksOfIs ==
  ASSUME NEW n \in Nat, NEW items \in Seq(Items[n])
  PROVE  /\ BlocksOf[n][items] = Total[Weights(n, items)]
         /\ Weights(n, items) \in Seq(Nat) /\ Len(Weights(n, items)) = Len(items)
         /\ \A k \in 1..Len(items) : Weights(n, items)[k] = Weight(n, items[k])
<1>1. BlocksOf[n] = BlocksStep(BlocksOf, n)
  BY BlocksUnfold
<1>2. BlocksOf[n][items] = Total[Weights(n, items)]
  BY <1>1 DEF BlocksStep, Weights, Weight
<1>3. Len(items) \in Nat /\ DOMAIN items = 1..Len(items) /\ \A k \in 1..Len(items) : items[k] \in Items[n]
  BY LenProperties, ElementOfSeq
<1>4. Weights(n, items) \in [1..Len(items) -> Nat]
  BY <1>3, WeightNat DEF Weights
<1>5. Weights(n, items) \in Seq(Nat)
  BY <1>3, <1>4
<1> QED
  BY <1>2, <1>3, <1>4, <1>5 DEF Weights

LEMMA BlocksOfCons ==
  ASSUME NEW n \in Nat, NEW i \in Items[n], NEW items \in Seq(Items[n])
  PROVE  BlocksOf[n][<<i>> \o items] = Weight(n, i) + BlocksOf[n][items]
<1> DEFINE c == <<i>> \o items
           w == Weight(n, i)
           d == <<w>> \o Weights(n, items)
<1>0. w \in Nat
  BY WeightNat
<1>1. /\ Weights(n, items) \in Seq(Nat) /\ Len(Weights(n, items)) = Len(items) /\ Len(items) \in Nat
      /\ BlocksOf[n][items] = Total[Weights(n, items)]
  BY BlocksOfIs, LenProperties
<1>2. /\ c \in Seq(Items[n]) /\ Len(c) = Len(items) + 1
      /\ \A k \in 1..(Len(items) + 1) : c[k] = IF k = 1 THEN i ELSE items[k - 1]
  <2>1. /\ c \in Seq(Items[n]) /\ Len(c) = Len(<<i>>) + Len(items)
        /\ \A k \in 1..(Len(<<i>>) + Len(items)) : c[k] = IF k <= Len(<<i>>) THEN <<i>>[k] ELSE items[k - Len(<<i>>)]
    <3>1. <<i>> \in Seq(Items[n])
      BY One
    <3> QED
      BY <3>1, ConcatProperties
  <2> HIDE DEF c
  <2> QED
    BY <1>1, <2>1
<1>3. /\ d \in Seq(Nat) /\ Len(d) = Len(items) + 1
      /\ \A k \in 1..(Len(items) + 1) : d[k] = IF k = 1 THEN w ELSE Weights(n, items)[k - 1]
  <2>1. /\ d \in Seq(Nat) /\ Len(d) = Len(<<w>>) + Len(Weights(n, items))
        /\ \A k \in 1..(Len(<<w>>) + Len(Weights(n, items))) :
             d[k] = IF k <= Len(<<w>>) THEN <<w>>[k] ELSE Weights(n, items)[k - Len(<<w>>)]
    <3> HIDE DEF w
    <3>1. <<w>> \in Seq(Nat)
      BY <1>0
    <3> QED
      BY <1>1, <3>1, ConcatProperties
  <2> HIDE DEF d, w
  <2> QED
    BY <1>1, <2>1
<1> HIDE DEF c, d
<1>4. /\ Weights(n, c) \in Seq(Nat) /\ Len(Weights(n, c)) = Len(items) + 1
      /\ \A k \in 1..(Len(items) + 1) : Weights(n, c)[k] = Weight(n, c[k])
  BY <1>2, BlocksOfIs
<1>5. ASSUME NEW k \in 1..(Len(items) + 1) PROVE Weights(n, c)[k] = d[k]
  <2>1. CASE k = 1
    BY <1>2, <1>3, <1>4, <2>1
  <2>2. CASE k # 1
    <3>1. k - 1 \in 1..Len(items)
      BY <1>1, <2>2
    <3>2. d[k] = Weight(n, items[k - 1])
      BY <1>3, <2>2, <3>1, BlocksOfIs
    <3>3. Weights(n, c)[k] = Weight(n, items[k - 1])
      BY <1>2, <1>4, <2>2
    <3> QED
      BY <3>2, <3>3
  <2> QED
    BY <2>1, <2>2
<1>6. Weights(n, c) = d
  BY <1>3, <1>4, <1>5, SeqEqual
<1>7. BlocksOf[n][c] = Total[d]
  BY <1>2, <1>6, BlocksOfIs
<1>8. Total[d] = w + Total[Weights(n, items)]
  <2> HIDE DEF w
  <2> QED
    BY <1>0, <1>1, TotalCons DEF d
<1> QED
  BY <1>1, <1>7, <1>8 DEF c

LEMMA BlocksOfNone == \A n \in Nat : BlocksOf[n][<<>>] = 0
<1> SUFFICES ASSUME NEW n \in Nat PROVE BlocksOf[n][<<>>] = 0
  OBVIOUS
<1>1. <<>> \in Seq(Items[n]) /\ Len(<<>>) = 0
  BY EmptySeq
<1>2. Weights(n, <<>>) \in Seq(Nat) /\ Len(Weights(n, <<>>)) = 0 /\ BlocksOf[n][<<>>] = Total[Weights(n, <<>>)]
  BY <1>1, BlocksOfIs
<1>3. Weights(n, <<>>) = <<>>
  BY <1>2, EmptySeq
<1> QED
  BY <1>2, <1>3, TotalEmpty

(* The level does not matter. *)
LEMMA BlocksGrow == \A n \in Nat : \A items \in Seq(Items[n]) : BlocksOf[n + 1][items] = BlocksOf[n][items]
<1> DEFINE T == {n \in Nat : \A items \in Seq(Items[n]) : BlocksOf[n + 1][items] = BlocksOf[n][items]}
<1>1. ASSUME NEW n \in Nat, \A m \in Nat : m < n => m \in T, NEW items \in Seq(Items[n])
      PROVE  BlocksOf[n + 1][items] = BlocksOf[n][items]
  <2>1. n + 1 \in Nat /\ n + 1 # 0 /\ n + 1 - 1 = n /\ items \in Seq(Items[n + 1])
    BY ItemsGrow
  <2>2. ASSUME NEW k \in 1..Len(items) PROVE Weight(n + 1, items[k]) = Weight(n, items[k])
    <3>1. items[k] \in Items[n]
      BY ElementOfSeq
    <3>2. Weight(n + 1, items[k]) = Own(items[k]) + BlocksOf[n][items[k].child]
      BY <2>1 DEF Weight
    <3>3. CASE n = 0
      <4>1. items[k].child = <<>>
        BY <3>1, <3>3, ChildItems
      <4>2. BlocksOf[n][items[k].child] = 0
        BY <4>1, BlocksOfNone
      <4> QED
        BY <3>2, <3>3, <4>2 DEF Weight
    <3>4. CASE n # 0
      <4>1. n - 1 \in Nat /\ n - 1 < n /\ n - 1 + 1 = n /\ items[k].child \in Seq(Items[n - 1])
        BY <3>1, <3>4, ChildItems
      <4>2. BlocksOf[n - 1 + 1][items[k].child] = BlocksOf[n - 1][items[k].child]
        BY <1>1, <4>1
      <4>3. BlocksOf[n][items[k].child] = BlocksOf[n - 1][items[k].child]
        BY <4>1, <4>2
      <4> QED
        BY <3>2, <3>4, <4>3 DEF Weight
    <3> QED
      BY <3>3, <3>4
  <2>3. Weights(n + 1, items) = Weights(n, items)
    <3>1. /\ Weights(n, items) \in Seq(Nat) /\ Len(Weights(n, items)) = Len(items)
          /\ \A k \in 1..Len(items) : Weights(n, items)[k] = Weight(n, items[k])
      BY BlocksOfIs
    <3>2. /\ Weights(n + 1, items) \in Seq(Nat) /\ Len(Weights(n + 1, items)) = Len(items)
          /\ \A k \in 1..Len(items) : Weights(n + 1, items)[k] = Weight(n + 1, items[k])
      BY <2>1, BlocksOfIs
    <3> QED
      BY <2>2, <3>1, <3>2, SeqEqual
  <2> QED
    BY <2>1, <2>3, BlocksOfIs
<1>2. T \in SUBSET Nat
  OBVIOUS
<1>3. ASSUME NEW n \in Nat, \A m \in Nat : m < n => m \in T PROVE n \in T
  BY <1>1, <1>3
<1> HIDE DEF T
<1>4. Nat = T
  BY <1>2, <1>3, TextRecursion!NatIsLeast
<1> USE DEF T
<1> QED
  BY <1>4

LEMMA ItemsUp == \A m, n \in Nat : n <= m => Items[n] \subseteq Items[m]
<1> DEFINE T == {m \in Nat : \A n \in Nat : n <= m => Items[n] \subseteq Items[m]}
<1>1. ASSUME NEW m \in Nat, \A k \in Nat : k < m => k \in T, NEW n \in Nat, n <= m
      PROVE  Items[n] \subseteq Items[m]
  <2>1. CASE n = m
    BY <2>1
  <2>2. CASE n # m
    <3>1. m - 1 \in Nat /\ m - 1 < m /\ m - 1 + 1 = m /\ n <= m - 1
      BY <1>1, <2>2
    <3>2. Items[n] \subseteq Items[m - 1]
      BY <1>1, <3>1
    <3>3. Items[m - 1] \subseteq Items[m - 1 + 1]
      BY <3>1, ItemsGrow
    <3> QED
      BY <3>1, <3>2, <3>3
  <2> QED
    BY <2>1, <2>2
<1>2. ASSUME NEW m \in Nat, \A k \in Nat : k < m => k \in T PROVE m \in T
  BY <1>1, <1>2
<1>3. T \in SUBSET Nat
  OBVIOUS
<1> HIDE DEF T
<1>4. Nat = T
  BY <1>2, <1>3, TextRecursion!NatIsLeast
<1> USE DEF T
<1> QED
  BY <1>4

(* An item, and its children; an item, and those behind it. *)
LEMMA BlocksOne ==
  ASSUME NEW i \in Items[NESTING_LIMIT]
  PROVE  Blocks(<<i>>) = Own(i) + Blocks(i.child) /\ Blocks(<<i>>) \in Nat
<1> DEFINE N == NESTING_LIMIT
<1>1. N \in Nat
  BY JsonAssumption
<1>2. <<>> \in Seq(Items[N]) /\ <<i>> \in Seq(Items[N])
  BY EmptySeq, One
<1>3. <<i>> \o <<>> = <<i>>
  BY <1>2, ConcatEmptySeq
<1>4. BlocksOf[N][<<i>>] = Weight(N, i) + 0 /\ Weight(N, i) \in Nat
  BY <1>1, <1>2, <1>3, BlocksOfCons, BlocksOfNone, WeightNat
<1>5. Weight(N, i) = Own(i) + BlocksOf[N][i.child]
  <2>1. CASE N = 0
    <3>1. i.child = <<>>
      BY <1>1, <2>1, ChildItems
    <3>2. BlocksOf[N][i.child] = 0
      BY <1>1, <3>1, BlocksOfNone
    <3> QED
      BY <2>1, <3>2 DEF Weight
  <2>2. CASE N # 0
    <3>1. N - 1 \in Nat /\ N - 1 + 1 = N /\ i.child \in Seq(Items[N - 1])
      BY <1>1, <2>2, ChildItems
    <3>2. BlocksOf[N - 1 + 1][i.child] = BlocksOf[N - 1][i.child]
      BY <3>1, BlocksGrow
    <3> QED
      BY <2>2, <3>1, <3>2 DEF Weight
  <2> QED
    BY <2>1, <2>2
<1> QED
  BY <1>4, <1>5 DEF Blocks

LEMMA BlocksCons ==
  ASSUME NEW i \in Items[NESTING_LIMIT], NEW items \in Seq(Items[NESTING_LIMIT])
  PROVE  Blocks(<<i>> \o items) = Blocks(<<i>>) + Blocks(items) /\ Blocks(items) \in Nat
<1> DEFINE N == NESTING_LIMIT
<1>1. N \in Nat
  BY JsonAssumption
<1>2. <<>> \in Seq(Items[N]) /\ <<i>> \in Seq(Items[N]) /\ <<i>> \o <<>> = <<i>>
  <2>1. <<>> \in Seq(Items[N]) /\ <<i>> \in Seq(Items[N])
    BY EmptySeq, One
  <2> QED
    BY <2>1, ConcatEmptySeq
<1>3. BlocksOf[N][<<i>>] = Weight(N, i) + 0 /\ Weight(N, i) \in Nat
  BY <1>1, <1>2, BlocksOfCons, BlocksOfNone, WeightNat
<1>4. BlocksOf[N][<<i>> \o items] = Weight(N, i) + BlocksOf[N][items]
  BY <1>1, BlocksOfCons
<1>5. BlocksOf[N][items] \in Nat
  BY <1>1, BlocksUnfold
<1> QED
  BY <1>3, <1>4, <1>5 DEF Blocks

LEMMA BlocksNone == Blocks(<<>>) = 0
  BY JsonAssumption, BlocksOfNone DEF Blocks

-----------------------------------------------------------------------------
(* Values. *)

Kinds == {"Value", "Array", "Object"}

Places == Kinds \X parse_buffer

(* The levels that a value may have below it. *)
Level(d) == IF d < NESTING_LIMIT THEN NESTING_LIMIT - d ELSE 0

LEMMA LevelNat ==
  ASSUME NEW d \in Nat
  PROVE  /\ Level(d) \in Nat /\ Level(d) <= NESTING_LIMIT
         /\ d < NESTING_LIMIT => Level(d) # 0 /\ Level(d + 1) = Level(d) - 1
  BY JsonAssumption DEF Level

LEMMA LevelItems ==
  ASSUME NEW d \in Nat
  PROVE  /\ Items[Level(d)] \subseteq Items[NESTING_LIMIT]
         /\ Seq(Items[Level(d)]) \subseteq Seq(Items[NESTING_LIMIT])
<1>1. Items[Level(d)] \subseteq Items[NESTING_LIMIT]
  BY LevelNat, ItemsUp, JsonAssumption
<1> QED
  BY <1>1

(* What the parse of a value leaves: nothing, or the item and its blocks. *)
Values(l) ==
  {r \in [ok : BOOLEAN, off : Nat, item : Items[l], live : Int, safe : {TRUE}] :
     r.item.name = NULL /\ r.live + 1 = Blocks(<<r.item>>)}

ValueGood(buf) ==
  {r \in Values(Level(buf.depth)) :
     /\ r.ok => buf.offset < r.off /\ r.off <= Len(buf.content)
     /\ ~r.ok => r.item = cJSON_New_Item}

(* What the parse of elements leaves: their items and their blocks. *)
Lists(l) ==
  {r \in [ok : BOOLEAN, off : Nat, items : Seq(Items[l]), live : Int, safe : {TRUE}] : r.live = Blocks(r.items)}

ListGood(buf) == {r \in Lists(Level(buf.depth)) : r.ok => buf.offset <= r.off}

ParseGood == [x \in Places |-> IF x[1] = "Value" THEN ValueGood(x[2]) ELSE ListGood(x[2])]

(* The parse goes on behind where it is, or from the elements to a value. *)
ParseRank == [x \in Places |->
  (IF x[2].offset < Len(x[2].content) THEN 2 * (Len(x[2].content) - x[2].offset) ELSE 0)
  + (IF x[1] = "Value" THEN 0 ELSE 1)]

LEMMA ParseRankNat == ParseRank \in [Places -> Nat]
<1> SUFFICES ASSUME NEW x \in Places
             PROVE  (IF x[2].offset < Len(x[2].content) THEN 2 * (Len(x[2].content) - x[2].offset) ELSE 0)
                    + (IF x[1] = "Value" THEN 0 ELSE 1) \in Nat
  BY DEF ParseRank
<1>1. x[2] \in parse_buffer
  BY DEF Places
<1>2. Len(x[2].content) \in Nat /\ x[2].offset \in Nat
  BY <1>1, BufferTyped
<1> QED
  BY <1>2, SMTT(40)

LEMMA RankBehind ==
  ASSUME NEW buf \in parse_buffer, NEW q \in parse_buffer, q.content = buf.content,
         buf.offset < q.offset, buf.offset < Len(buf.content), NEW j \in Kinds, NEW k \in Kinds
  PROVE  ParseRank[<<j, q>>] < ParseRank[<<k, buf>>]
<1>1. Len(buf.content) \in Nat /\ buf.offset \in Nat /\ q.offset \in Nat
  BY BufferTyped
<1>2. ParseRank[<<j, q>>] = (IF q.offset < Len(buf.content) THEN 2 * (Len(buf.content) - q.offset) ELSE 0)
                            + (IF j = "Value" THEN 0 ELSE 1)
  BY DEF ParseRank, Places
<1>3. ParseRank[<<k, buf>>] = 2 * (Len(buf.content) - buf.offset) + (IF k = "Value" THEN 0 ELSE 1)
  BY DEF ParseRank, Places
<1> QED
  BY <1>1, <1>2, <1>3, SMTT(40)

LEMMA RankValue ==
  ASSUME NEW buf \in parse_buffer, NEW k \in {"Array", "Object"}
  PROVE  ParseRank[<<"Value", buf>>] < ParseRank[<<k, buf>>]
<1>1. Len(buf.content) \in Nat /\ buf.offset \in Nat
  BY BufferTyped
<1> DEFINE n == IF buf.offset < Len(buf.content) THEN 2 * (Len(buf.content) - buf.offset) ELSE 0
<1>2. ParseRank[<<"Value", buf>>] = n + 0
  BY DEF ParseRank, Places, Kinds
<1>3. ParseRank[<<k, buf>>] = n + 1
  BY DEF ParseRank, Places, Kinds
<1>4. n \in Nat
  BY <1>1
<1> QED
  BY <1>2, <1>3, <1>4

(* Two functions that are the same, and give what a parse may, below x. *)
Agree(g, h, x) ==
  \A y \in Places : ParseRank[y] < ParseRank[x] => g[y] = h[y] /\ g[y] \in ParseGood[y]

LEMMA AgreeBehind ==
  ASSUME NEW buf \in parse_buffer, NEW q \in parse_buffer, q.content = buf.content,
         buf.offset < q.offset, buf.offset < Len(buf.content), NEW j \in Kinds, NEW k \in Kinds,
         NEW g, NEW h, Agree(g, h, <<k, buf>>)
  PROVE  /\ g[<<j, q>>] = h[<<j, q>>]
         /\ j = "Value" => g[<<j, q>>] \in ValueGood(q)
         /\ j # "Value" => g[<<j, q>>] \in ListGood(q)
<1>1. <<j, q>> \in Places /\ <<j, q>>[1] = j /\ <<j, q>>[2] = q
  BY DEF Places
<1>2. ParseRank[<<j, q>>] < ParseRank[<<k, buf>>]
  BY RankBehind
<1>3. g[<<j, q>>] = h[<<j, q>>] /\ g[<<j, q>>] \in ParseGood[<<j, q>>]
  BY <1>1, <1>2 DEF Agree
<1> QED
  BY <1>1, <1>3 DEF ParseGood

LEMMA AgreeValue ==
  ASSUME NEW buf \in parse_buffer, NEW k \in {"Array", "Object"}, NEW g, NEW h, Agree(g, h, <<k, buf>>)
  PROVE  /\ g[<<"Value", buf>>] = h[<<"Value", buf>>]
         /\ g[<<"Value", buf>>] \in ValueGood(buf)
<1>1. <<"Value", buf>> \in Places
  BY DEF Places, Kinds
<1>2. ParseRank[<<"Value", buf>>] < ParseRank[<<k, buf>>]
  BY RankValue
<1>3. g[<<"Value", buf>>] = h[<<"Value", buf>>] /\ g[<<"Value", buf>>] \in ParseGood[<<"Value", buf>>]
  BY <1>1, <1>2 DEF Agree
<1> QED
  BY <1>1, <1>3 DEF ParseGood

(* An item without children. *)
Leaf(k, n, t) == [type |-> k, int |-> n, string |-> t, name |-> NULL, child |-> <<>>]

LEMMA LeafItem ==
  ASSUME NEW k \in Types, NEW n \in Int, NEW t \in Text \cup {NULL}, NEW l \in Nat
  PROVE  Leaf(k, n, t) \in Items[l]
<1>1. Items[l] = ItemsWith(IF l = 0 THEN {<<>>} ELSE Seq(Items[l - 1]))
  BY ItemsUnfold DEF ItemsStep
<1>2. <<>> \in IF l = 0 THEN {<<>>} ELSE Seq(Items[l - 1])
  BY EmptySeq
<1> QED
  BY <1>1, <1>2 DEF Leaf, ItemsWith

LEMMA LeafBlocks ==
  ASSUME NEW k \in Types, NEW n \in Int, NEW t \in Text \cup {NULL}
  PROVE  Blocks(<<Leaf(k, n, t)>>) = 1 + (IF t = NULL THEN 0 ELSE 1)
<1>1. Leaf(k, n, t) \in Items[NESTING_LIMIT]
  BY LeafItem, JsonAssumption
<1>2. Own(Leaf(k, n, t)) = 1 + (IF t = NULL THEN 0 ELSE 1) /\ Leaf(k, n, t).child = <<>>
  BY DEF Own, Leaf
<1>3. Blocks(<<Leaf(k, n, t)>>) = 1 + (IF t = NULL THEN 0 ELSE 1) + 0
  BY <1>1, <1>2, BlocksOne, BlocksNone
<1> QED
  BY <1>3

LEMMA ParsedGood ==
  ASSUME NEW buf \in parse_buffer, NEW off \in Nat, buf.offset < off, off <= Len(buf.content),
         NEW k \in Types, NEW n \in Int, NEW t \in Text \cup {NULL},
         NEW live \in Nat, live = IF t = NULL THEN 0 ELSE 1
  PROVE  Parsed(off, Leaf(k, n, t), live) \in ValueGood(buf)
<1>1. Leaf(k, n, t) \in Items[Level(buf.depth)]
  BY LeafItem, LevelNat DEF parse_buffer
<1>2. live + 1 = Blocks(<<Leaf(k, n, t)>>)
  BY LeafBlocks
<1>3. Leaf(k, n, t).name = NULL
  BY DEF Leaf
<1> QED
  BY <1>1, <1>2, <1>3 DEF Parsed, ValueGood, Values

LEMMA NewLeaf ==
  /\ cJSON_New_Item = Leaf("Invalid", 0, NULL)
  /\ \A k : Typed(k) = Leaf(k, 0, NULL)
  /\ \A t : StringItem(t) = Leaf("String", 0, t)
  /\ \A n : NumberItem(n) = Leaf("Number", n, NULL)
  /\ [Typed("True") EXCEPT !.int = 1] = Leaf("True", 1, NULL)
<1>1. cJSON_New_Item = Leaf("Invalid", 0, NULL)
  BY DEF cJSON_New_Item, Leaf
<1>2. ASSUME NEW k PROVE Typed(k) = Leaf(k, 0, NULL)
  BY DEF cJSON_New_Item, Typed, Leaf
<1>3. ASSUME NEW t PROVE StringItem(t) = Leaf("String", 0, t)
  BY <1>2 DEF StringItem, Leaf
<1>4. ASSUME NEW n PROVE NumberItem(n) = Leaf("Number", n, NULL)
  BY <1>2 DEF NumberItem, Leaf
<1>5. [Typed("True") EXCEPT !.int = 1] = Leaf("True", 1, NULL)
  BY <1>2 DEF Leaf
<1> QED
  BY <1>1, <1>2, <1>3, <1>4, <1>5

LEMMA NewItem ==
  /\ \A l \in Nat : cJSON_New_Item \in Items[l]
  /\ Blocks(<<cJSON_New_Item>>) = 1
<1>1. "Invalid" \in Types /\ 0 \in Int /\ NULL \in Text \cup {NULL}
  BY DEF Types
<1>2. Blocks(<<cJSON_New_Item>>) = 1 + 0
  BY <1>1, LeafBlocks, NewLeaf
<1> QED
  BY <1>1, <1>2, LeafItem, NewLeaf

LEMMA RefusedGood == \A buf \in parse_buffer : Refused(buf) \in ValueGood(buf)
<1> SUFFICES ASSUME NEW buf \in parse_buffer PROVE Refused(buf) \in ValueGood(buf)
  OBVIOUS
<1>1. cJSON_New_Item \in Items[Level(buf.depth)]
  BY NewItem, LevelNat DEF parse_buffer
<1>2. cJSON_New_Item.name = NULL /\ buf.offset \in Nat
  BY DEF cJSON_New_Item, parse_buffer
<1> QED
  BY <1>1, <1>2, NewItem DEF Refused, ValueGood, Values

-----------------------------------------------------------------------------
(* Elements. *)

(* The parse of a name leaves the name; so does that of none. *)
NameGood(s) ==
  /\ s.item.string \in Text \cup {NULL} /\ s.safe = TRUE
  /\ s.live = IF s.item.string = NULL THEN 0 ELSE 1

LEMMA NameOfString ==
  ASSUME NEW buf \in parse_buffer, CanAccess(buf, 0)
  PROVE  LET s == parse_string(buf)
         IN  NameGood(s) /\ (s.ok => s.off \in Nat /\ buf.offset < s.off /\ s.off <= Len(buf.content))
<1>1. CASE parse_string(buf) = Refused(buf)
  BY <1>1 DEF Refused, NameGood, cJSON_New_Item
<1>2. ASSUME NEW t \in Text, NEW n \in Nat, buf.offset + 2 <= n, n <= Len(buf.content),
             parse_string(buf) = Parsed(n, StringItem(t), 1)
      PROVE  NameGood(parse_string(buf)) /\ parse_string(buf).off \in Nat
             /\ buf.offset < parse_string(buf).off /\ parse_string(buf).off <= Len(buf.content)
  <2>1. parse_string(buf) = Parsed(n, Leaf("String", 0, t), 1)
    BY <1>2, NewLeaf
  <2>2. t # NULL
    BY JsonAssumption
  <2>3. NameGood(parse_string(buf)) /\ parse_string(buf).off = n
    BY <2>1, <2>2 DEF Parsed, NameGood, Leaf
  <2>4. buf.offset < n
    BY <1>2 DEF parse_buffer
  <2> QED
    BY <1>2, <2>3, <2>4
<1> QED
  BY <1>1, <1>2, ParseString

LEMMA NameOfRefused == \A buf : NameGood(Refused(buf))
  BY DEF Refused, NameGood, cJSON_New_Item

LEMMA OnlyGood ==
  ASSUME NEW l \in Nat, l <= NESTING_LIMIT, NEW s, NameGood(s), NEW off \in Nat,
         NEW v \in Values(l)
  PROVE  /\ Only(s, v, off) \in Lists(l) /\ Only(s, v, off).ok = v.ok /\ Only(s, v, off).off = off
         /\ \E i \in Items[l] : Only(s, v, off).items = <<i>>
<1> DEFINE string == s.item.string
           i == [v.item EXCEPT !.name = string]
           e == Only(s, v, off)
<1>0. /\ v.ok \in BOOLEAN /\ v.safe = TRUE /\ v.item \in Items[l] /\ v.item.name = NULL
      /\ v.live \in Int /\ v.live + 1 = Blocks(<<v.item>>)
  BY DEF Values
<1>1. v.item \in ItemsWith(IF l = 0 THEN {<<>>} ELSE Seq(Items[l - 1]))
  BY <1>0, ItemsUnfold DEF ItemsStep
<1>2. string \in Text \cup {NULL}
  BY DEF NameGood
<1>3. i \in ItemsWith(IF l = 0 THEN {<<>>} ELSE Seq(Items[l - 1]))
  BY <1>1, <1>2 DEF ItemsWith
<1>4. i \in Items[l]
  BY <1>3, ItemsUnfold DEF ItemsStep
<1>5. i.child = v.item.child /\ i.string = v.item.string /\ i.name = string
  BY <1>1 DEF ItemsWith
<1>6. Own(i) = Own(v.item) + (IF string = NULL THEN 0 ELSE 1)
  BY <1>0, <1>5 DEF Own
<1>7. v.item \in Items[NESTING_LIMIT] /\ i \in Items[NESTING_LIMIT]
  BY <1>0, <1>4, ItemsUp, JsonAssumption
<1>8. Blocks(<<i>>) = Blocks(<<v.item>>) + (IF string = NULL THEN 0 ELSE 1)
  <2>1. Blocks(<<v.item>>) = Own(v.item) + Blocks(v.item.child) /\ Blocks(<<v.item>>) \in Nat
    BY <1>7, BlocksOne
  <2>2. Blocks(<<i>>) = Own(i) + Blocks(i.child)
    BY <1>7, BlocksOne
  <2>3. Own(v.item) \in Nat
    BY OwnNat
  <2>4. Blocks(v.item.child) \in Nat
    <3>1. v.item.child \in Seq(Items[NESTING_LIMIT])
      <4>1. IF NESTING_LIMIT = 0 THEN v.item.child = <<>> ELSE v.item.child \in Seq(Items[NESTING_LIMIT - 1])
        BY <1>7, ChildItems, JsonAssumption
      <4>2. CASE NESTING_LIMIT = 0
        BY <4>1, <4>2, EmptySeq
      <4>3. CASE NESTING_LIMIT # 0
        <5>1. NESTING_LIMIT - 1 \in Nat /\ NESTING_LIMIT \in Nat /\ NESTING_LIMIT - 1 <= NESTING_LIMIT
          BY <4>3, JsonAssumption
        <5>2. Items[NESTING_LIMIT - 1] \subseteq Items[NESTING_LIMIT]
          BY <5>1, ItemsUp
        <5> QED
          BY <4>1, <4>3, <5>2
      <4> QED
        BY <4>2, <4>3
    <3> QED
      BY <3>1, <1>7, BlocksCons
  <2> HIDE DEF i, string
  <2> QED
    BY <1>5, <1>6, <2>1, <2>2, <2>3, <2>4
<1>9. /\ e.ok = v.ok /\ e.off = off /\ e.items = <<i>> /\ e.safe = TRUE
      /\ e.live = 1 + s.live + v.live
      /\ e = [ok |-> v.ok, off |-> off, items |-> <<i>>, live |-> 1 + s.live + v.live, safe |-> s.safe /\ v.safe]
  BY <1>0 DEF Only, NameGood
<1>10. 1 + s.live + v.live = Blocks(<<i>>) /\ 1 + s.live + v.live \in Int
  <2>1. s.live = IF string = NULL THEN 0 ELSE 1
    BY DEF NameGood
  <2>2. Blocks(<<v.item>>) \in Nat
    BY <1>7, BlocksOne
  <2> HIDE DEF i, string
  <2> QED
    BY <1>0, <1>8, <2>1, <2>2
<1>11. <<i>> \in Seq(Items[l])
  BY <1>4, One
<1>12. (s.safe /\ v.safe) = TRUE
  BY <1>0 DEF NameGood
<1> HIDE DEF i
<1> QED
  BY <1>0, <1>4, <1>9, <1>10, <1>11, <1>12 DEF Lists

LEMMA JoinedGood ==
  ASSUME NEW l \in Nat, l <= NESTING_LIMIT, NEW e \in Lists(l), NEW i \in Items[l], e.items = <<i>>, NEW r \in Lists(l)
  PROVE  Joined(e, r) \in Lists(l) /\ Joined(e, r).ok = r.ok /\ Joined(e, r).off = r.off
<1>1. r.items \in Seq(Items[l]) /\ r.live = Blocks(r.items) /\ e.live = Blocks(<<i>>)
      /\ r.safe = TRUE /\ e.safe = TRUE /\ r.live \in Int /\ e.live \in Int
  BY DEF Lists
<1>2. Items[l] \subseteq Items[NESTING_LIMIT]
  BY ItemsUp, JsonAssumption
<1>3. i \in Items[NESTING_LIMIT] /\ r.items \in Seq(Items[NESTING_LIMIT])
  BY <1>1, <1>2
<1>4. Blocks(<<i>> \o r.items) = Blocks(<<i>>) + Blocks(r.items)
  BY <1>3, BlocksCons
<1>5. <<i>> \o r.items \in Seq(Items[l])
  BY <1>1, ConsIs
<1>6. /\ Joined(e, r).ok = r.ok /\ Joined(e, r).off = r.off /\ Joined(e, r).items = <<i>> \o r.items
      /\ Joined(e, r).live = r.live + e.live /\ Joined(e, r).safe = (r.safe /\ e.safe)
      /\ r.ok \in BOOLEAN /\ r.off \in Nat
  BY DEF Joined, Lists
<1>7. (r.safe /\ e.safe) = TRUE
  BY <1>1
<1>8. r.live + e.live = Blocks(<<i>> \o r.items) /\ r.live + e.live \in Int
  BY <1>1, <1>4
<1>9. Joined(e, r) = [ok |-> Joined(e, r).ok, off |-> Joined(e, r).off, items |-> Joined(e, r).items,
                      live |-> Joined(e, r).live, safe |-> Joined(e, r).safe]
  <2>1. r = [ok |-> r.ok, off |-> r.off, items |-> r.items, live |-> r.live, safe |-> r.safe]
    BY DEF Lists
  <2>2. DOMAIN r = {"ok", "off", "items", "live", "safe"}
    BY <2>1
  <2> DEFINE j == Joined(e, r)
  <2>3. DOMAIN j = {"ok", "off", "items", "live", "safe"} /\ j = [x \in DOMAIN j |-> j[x]]
    BY <2>2 DEF Joined
  <2> HIDE DEF j
  <2>4. j = [ok |-> j.ok, off |-> j.off, items |-> j.items, live |-> j.live, safe |-> j.safe]
    BY <2>3
  <2> QED
    BY <2>4 DEF j
<1> QED
  BY <1>5, <1>6, <1>7, <1>8, <1>9 DEF Lists

(* A value of the array or object whose elements are at buf. *)
Ahead(vb, buf) ==
  vb \in parse_buffer /\ vb.content = buf.content /\ vb.depth = buf.depth /\ buf.offset <= vb.offset

LEMMA ElementGood ==
  ASSUME NEW buf \in parse_buffer, NEW kind \in {"Array", "Object"}, NEW s, NameGood(s),
         NEW vb, Ahead(vb, buf),
         NEW v \in ValueGood(vb), NEW g, NEW h, Agree(g, h, <<kind, buf>>)
  PROVE  /\ Element(g, buf, kind, s, v) = Element(h, buf, kind, s, v)
         /\ Element(g, buf, kind, s, v) \in ListGood(buf)
<1> DEFINE q == Skip(buf, v.off)
           e == Only(s, v, q.offset)
           n == Skip(buf, q.offset + 1)
           l == Level(buf.depth)
<1>1. /\ v.off \in Nat /\ v.ok \in BOOLEAN
      /\ v.ok => vb.offset < v.off /\ v.off <= Len(buf.content)
  BY DEF ValueGood, Values, Ahead
<1>2. v \in Values(l)
  BY DEF ValueGood, Ahead
<1>3. /\ Len(buf.content) \in Nat /\ buf.offset \in Nat /\ buf.depth \in Nat /\ vb.offset \in Nat
      /\ l \in Nat /\ l <= NESTING_LIMIT /\ buf.offset <= vb.offset
  BY BufferTyped, LevelNat DEF Ahead
<1>4. /\ q \in parse_buffer /\ q.content = buf.content /\ q.offset >= v.off /\ q.offset \in Nat
  BY <1>1, SkipIs, BufferTyped
<1>5. e \in Lists(l) /\ e.ok = v.ok /\ e.off = q.offset /\ \E i \in Items[l] : e.items = <<i>>
  <2> HIDE DEF q, l
  <2> QED
    BY <1>2, <1>3, <1>4, OnlyGood
<1>6. v.ok => buf.offset < q.offset
  BY <1>1, <1>3, <1>4
<1>7. CASE ~(v.ok /\ Is(q, Comma))
  <2>1. Element(g, buf, kind, s, v) = e /\ Element(h, buf, kind, s, v) = e
    BY <1>7 DEF Element
  <2>2. e \in ListGood(buf)
    <3>1. e.ok => buf.offset <= e.off
      <4> HIDE DEF e, q
      <4> QED
        BY <1>3, <1>4, <1>5, <1>6
    <3> HIDE DEF e
    <3> QED
      BY <1>5, <3>1 DEF ListGood
  <2> QED
    BY <2>1, <2>2
<1>8. CASE v.ok /\ Is(q, Comma)
  <2>1. /\ n \in parse_buffer /\ n.content = buf.content /\ n.depth = buf.depth /\ n.offset >= q.offset + 1
    <3>1. q.offset + 1 \in Nat
      BY <1>4
    <3> HIDE DEF q
    <3> QED
      BY <3>1, SkipIs
  <2>2. buf.offset < n.offset /\ buf.offset < Len(buf.content) /\ n.offset \in Nat
    <3>1. n.offset \in Nat
      BY <2>1, BufferTyped
    <3>2. buf.offset < Len(buf.content)
      BY <1>1, <1>3, <1>8
    <3> HIDE DEF q, n
    <3> QED
      BY <1>3, <1>4, <1>6, <1>8, <2>1, <3>1, <3>2
  <2>3. g[<<kind, n>>] = h[<<kind, n>>] /\ g[<<kind, n>>] \in ListGood(n)
    <3>1. kind \in Kinds /\ kind # "Value"
      BY DEF Kinds
    <3> HIDE DEF n
    <3> QED
      BY <2>1, <2>2, <3>1, AgreeBehind
  <2> DEFINE r == g[<<kind, n>>]
  <2>4. r \in Lists(l) /\ (r.ok => n.offset <= r.off) /\ r.off \in Nat
    BY <2>1, <2>3 DEF ListGood, Lists
  <2>5. Element(g, buf, kind, s, v) = Joined(e, r) /\ Element(h, buf, kind, s, v) = Joined(e, r)
    BY <1>8, <2>3 DEF Element
  <2>6. Joined(e, r) \in Lists(l) /\ Joined(e, r).ok = r.ok /\ Joined(e, r).off = r.off
    <3>1. PICK i \in Items[l] : e.items = <<i>>
      BY <1>5
    <3> HIDE DEF e, r, l
    <3> QED
      BY <1>3, <1>5, <2>4, <3>1, JoinedGood
  <2>7. r.ok => buf.offset <= r.off
    <3> HIDE DEF r, n
    <3> QED
      BY <1>3, <2>2, <2>4
  <2>8. Joined(e, r) \in ListGood(buf)
    <3> HIDE DEF e, r
    <3> QED
      BY <2>6, <2>7 DEF ListGood
  <2> QED
    BY <2>5, <2>8
<1> QED
  BY <1>7, <1>8

LEMMA ElementHere ==
  ASSUME NEW buf \in parse_buffer, NEW s, NameGood(s), NEW v \in ValueGood(buf), NEW g, NEW h,
         Agree(g, h, <<"Array", buf>>), Ahead(buf, buf)
  PROVE  /\ Element(g, buf, "Array", s, v) = Element(h, buf, "Array", s, v)
         /\ Element(g, buf, "Array", s, v) \in ListGood(buf)
<1>1. "Array" \in {"Array", "Object"}
  OBVIOUS
<1>2. Element(g, buf, "Array", s, v) = Element(h, buf, "Array", s, v)
  BY <1>1, ElementGood
<1> QED
  BY <1>1, ElementGood

LEMMA RefusedOnly ==
  ASSUME NEW buf \in parse_buffer, NEW b \in parse_buffer, NEW s, NameGood(s), NEW off \in Nat
  PROVE  Only(s, Refused(b), off) \in ListGood(buf)
<1> DEFINE v == Refused(b)
           l == Level(buf.depth)
<1>1. l \in Nat /\ l <= NESTING_LIMIT
  BY LevelNat, BufferTyped
<1>2. v.ok = FALSE
  BY DEF Refused
<1>3. v \in Values(l)
  <2>1. cJSON_New_Item \in Items[l] /\ cJSON_New_Item.name = NULL
    BY <1>1, NewItem DEF cJSON_New_Item
  <2>2. b.offset \in Nat
    BY BufferTyped
  <2> HIDE DEF l
  <2> QED
    BY <2>1, <2>2, NewItem DEF Refused, Values
<1>4. Only(s, v, off) \in Lists(l) /\ Only(s, v, off).ok = v.ok
  <2> HIDE DEF v, l
  <2> QED
    BY <1>1, <1>3, OnlyGood
<1> HIDE DEF v
<1> QED
  BY <1>2, <1>4 DEF ListGood, v

LEMMA MemberGood ==
  ASSUME NEW buf \in parse_buffer, NEW s, NameGood(s),
         s.ok => s.off \in Nat /\ buf.offset < s.off /\ s.off <= Len(buf.content), s.off \in Nat,
         NEW g, NEW h, Agree(g, h, <<"Object", buf>>)
  PROVE  /\ Member(g, buf, s) = Member(h, buf, s)
         /\ Member(g, buf, s) \in ListGood(buf)
<1> DEFINE q == Skip(buf, s.off)
           n == Skip(buf, q.offset + 1)
<1>1. q \in parse_buffer /\ q.content = buf.content /\ q.offset >= s.off /\ q.offset \in Nat /\ q.offset + 1 \in Nat
  <2>1. q \in parse_buffer /\ q.content = buf.content /\ q.offset >= s.off
    BY SkipIs
  <2>2. q.offset \in Nat
    BY <2>1, BufferTyped
  <2> QED
    BY <2>1, <2>2
<1>2. CASE ~(s.ok /\ Is(q, Colon))
  <2>1. Member(g, buf, s) = Only(s, Refused(q), q.offset) /\ Member(h, buf, s) = Only(s, Refused(q), q.offset)
    BY <1>2 DEF Member
  <2>2. Only(s, Refused(q), q.offset) \in ListGood(buf)
    <3> HIDE DEF q
    <3> QED
      BY <1>1, RefusedOnly
  <2> QED
    BY <2>1, <2>2
<1>3. CASE s.ok /\ Is(q, Colon)
  <2>0. Len(buf.content) \in Nat /\ buf.offset \in Nat /\ buf.offset < Len(buf.content)
    <3>1. Len(buf.content) \in Nat /\ buf.offset \in Nat
      BY BufferTyped
    <3> QED
      BY <1>3, <3>1
  <2>1. n \in parse_buffer /\ n.content = buf.content /\ n.depth = buf.depth /\ n.offset >= q.offset + 1 /\ n.offset \in Nat
    <3> HIDE DEF q
    <3> QED
      BY <1>1, SkipIs, BufferTyped
  <2>2. buf.offset < n.offset /\ buf.offset <= n.offset
    <3> HIDE DEF q, n
    <3> QED
      BY <1>1, <1>3, <2>0, <2>1
  <2>3. g[<<"Value", n>>] = h[<<"Value", n>>] /\ g[<<"Value", n>>] \in ValueGood(n)
    <3>1. "Value" \in Kinds /\ "Object" \in Kinds
      BY DEF Kinds
    <3> HIDE DEF n
    <3> QED
      BY <2>0, <2>1, <2>2, <3>1, AgreeBehind
  <2>4. /\ Member(g, buf, s) = Element(g, buf, "Object", s, g[<<"Value", n>>])
        /\ Member(h, buf, s) = Element(h, buf, "Object", s, g[<<"Value", n>>])
    BY <1>3, <2>3 DEF Member
  <2> HIDE DEF n
  <2>5. /\ Element(g, buf, "Object", s, g[<<"Value", n>>]) = Element(h, buf, "Object", s, g[<<"Value", n>>])
        /\ Element(g, buf, "Object", s, g[<<"Value", n>>]) \in ListGood(buf)
    <3>1. Ahead(n, buf)
      BY <2>1, <2>2 DEF Ahead
    <3> QED
      BY <2>3, <3>1, ElementGood
  <2> QED
    BY <2>4, <2>5
<1> QED
  BY <1>2, <1>3

LEMMA ElementsGood ==
  ASSUME NEW buf \in parse_buffer, NEW kind \in {"Array", "Object"}, NEW g, NEW h, Agree(g, h, <<kind, buf>>)
  PROVE  /\ Elements(g, buf, kind) = Elements(h, buf, kind)
         /\ Elements(g, buf, kind) \in ListGood(buf)
<1>1. CASE kind = "Array"
  <2> DEFINE v == g[<<"Value", buf>>]
  <2>1. v = h[<<"Value", buf>>] /\ v \in ValueGood(buf)
    BY AgreeValue
  <2>2. Elements(g, buf, kind) = Element(g, buf, kind, Refused(buf), v) /\ Elements(h, buf, kind) = Element(h, buf, kind, Refused(buf), v)
    BY <1>1, <2>1 DEF Elements
  <2>3. buf.offset <= buf.offset
    BY DEF parse_buffer
  <2> DEFINE s == Refused(buf)
  <2>4. NameGood(s) /\ Ahead(buf, buf)
    BY <2>3, NameOfRefused DEF Ahead
  <2> HIDE DEF v, s
  <2>5. Agree(g, h, <<"Array", buf>>)
    BY <1>1
  <2>6. Element(g, buf, "Array", s, v) = Element(h, buf, "Array", s, v) /\ Element(g, buf, "Array", s, v) \in ListGood(buf)
    BY <2>1, <2>4, <2>5, ElementHere
  <2> QED
    BY <1>1, <2>2, <2>6 DEF s
<1>2. CASE kind = "Object" /\ CanAccess(buf, 0)
  <2> DEFINE s == parse_string(buf)
  <2>1. NameGood(s) /\ (s.ok => s.off \in Nat /\ buf.offset < s.off /\ s.off <= Len(buf.content))
    BY <1>2, NameOfString
  <2>2. s.off \in Nat
    <3>1. CASE s = Refused(buf)
      BY <3>1 DEF Refused, parse_buffer
    <3>2. ASSUME NEW t \in Text, NEW n \in Nat, s = Parsed(n, StringItem(t), 1) PROVE s.off \in Nat
      BY <3>2 DEF Parsed
    <3> QED
      BY <1>2, <3>1, <3>2, ParseString
  <2>3. Elements(g, buf, kind) = Member(g, buf, s) /\ Elements(h, buf, kind) = Member(h, buf, s)
    BY <1>2 DEF Elements
  <2> HIDE DEF s
  <2>4. Member(g, buf, s) = Member(h, buf, s) /\ Member(g, buf, s) \in ListGood(buf)
    BY <1>2, <2>1, <2>2, MemberGood
  <2> QED
    BY <2>3, <2>4
<1>3. CASE kind = "Object" /\ ~CanAccess(buf, 0)
  <2>1. /\ Elements(g, buf, kind) = Only(Refused(buf), Refused(buf), buf.offset)
        /\ Elements(h, buf, kind) = Only(Refused(buf), Refused(buf), buf.offset)
    BY <1>3 DEF Elements
  <2>2. buf.offset \in Nat
    BY DEF parse_buffer
  <2> QED
    BY <2>1, <2>2, NameOfRefused, RefusedOnly
<1> QED
  BY <1>1, <1>2, <1>3

LEMMA CloseGood ==
  ASSUME NEW buf \in parse_buffer, NEW kind \in {"Array", "Object"}, NEW q \in parse_buffer,
         q.content = buf.content, q.depth = buf.depth + 1, buf.depth < NESTING_LIMIT,
         buf.offset < q.offset, NEW r \in ListGood(q)
  PROVE  Close(buf, kind, r) \in ValueGood(buf)
<1> DEFINE l == Level(buf.depth)
           item == [Typed(kind) EXCEPT !.child = r.items]
<1>1. /\ buf.content \in Text /\ Len(buf.content) \in Nat
      /\ buf.offset \in Nat /\ buf.depth \in Nat /\ q.offset \in Nat
  BY BufferTyped
<1>2. l \in Nat /\ l # 0 /\ l <= NESTING_LIMIT /\ Level(q.depth) = l - 1 /\ l - 1 \in Nat
  <2>1. l \in Nat /\ l <= NESTING_LIMIT /\ l # 0 /\ Level(buf.depth + 1) = l - 1
    BY <1>1, LevelNat
  <2> HIDE DEF l
  <2> QED
    BY <2>1
<1>3. /\ r.ok \in BOOLEAN /\ r.off \in Nat /\ r.items \in Seq(Items[l - 1]) /\ r.live \in Int /\ r.safe = TRUE
      /\ r.live = Blocks(r.items) /\ (r.ok => q.offset <= r.off)
  BY <1>2 DEF ListGood, Lists
<1>4. CASE r.ok /\ Is(To(buf, r.off), Bracket(kind))
  <2>1. Close(buf, kind, r) = Filled(kind, r)
    BY <1>4 DEF Close
  <2>2. r.off < Len(buf.content)
    <3>1. To(buf, r.off) \in parse_buffer /\ To(buf, r.off).content = buf.content /\ To(buf, r.off).offset = r.off
      BY <1>3, BufferTyped
    <3>2. CanAccess(To(buf, r.off), 0)
      BY <1>4 DEF Is
    <3> QED
      BY <3>1, <3>2, BufferTyped
  <2>3. r.off + 1 \in Nat /\ buf.offset < r.off + 1 /\ r.off + 1 <= Len(buf.content)
    BY <1>1, <1>3, <1>4, <2>2
  <2>4. item = [type |-> kind, int |-> 0, string |-> NULL, name |-> NULL, child |-> r.items]
    BY NewLeaf DEF Leaf
  <2>5. item \in Items[l]
    <3>1. Items[l] = ItemsWith(Seq(Items[l - 1]))
      BY <1>2, ItemsUnfold DEF ItemsStep
    <3>2. kind \in Types
      BY DEF Types
    <3> HIDE DEF item, l
    <3> QED
      BY <1>3, <2>4, <3>1, <3>2 DEF ItemsWith
  <2>6. Blocks(<<item>>) = 1 + r.live
    <3>1. item \in Items[NESTING_LIMIT]
      <4> HIDE DEF item, l
      <4> QED
        BY <1>2, <2>5, ItemsUp, JsonAssumption
    <3>2. Own(item) = 1 /\ item.child = r.items
      <4> HIDE DEF item
      <4> QED
        BY <2>4 DEF Own
    <3>3. Blocks(<<item>>) = Own(item) + Blocks(item.child)
      <4> HIDE DEF item
      <4> QED
        BY <3>1, BlocksOne
    <3> HIDE DEF item
    <3> QED
      BY <1>3, <3>2, <3>3
  <2>7. Filled(kind, r) = [ok |-> TRUE, off |-> r.off + 1, item |-> item, live |-> r.live, safe |-> TRUE]
    BY <1>3 DEF Filled
  <2>8. item.name = NULL
    BY <2>4
  <2>9. r.live + 1 = Blocks(<<item>>)
    BY <1>3, <2>6
  <2> HIDE DEF item
  <2> QED
    BY <1>3, <2>1, <2>3, <2>5, <2>7, <2>8, <2>9 DEF ValueGood, Values
<1>5. CASE ~(r.ok /\ Is(To(buf, r.off), Bracket(kind)))
  <2>1. Close(buf, kind, r) = Failed(r)
    BY <1>5 DEF Close
  <2>2. Failed(r) = [ok |-> FALSE, off |-> r.off, item |-> cJSON_New_Item, live |-> 0, safe |-> TRUE]
    <3>1. r.live - Blocks(r.items) = 0
      BY <1>3
    <3> QED
      BY <1>3, <3>1 DEF Failed
  <2>3. cJSON_New_Item \in Items[l] /\ cJSON_New_Item.name = NULL
    BY <1>2, NewItem DEF cJSON_New_Item
  <2> QED
    BY <1>3, <2>1, <2>2, <2>3, NewItem DEF ValueGood, Values
<1> QED
  BY <1>4, <1>5

LEMMA StructureGood ==
  ASSUME NEW buf \in parse_buffer, CanAccess(buf, 0), NEW kind \in {"Array", "Object"},
         NEW g, NEW h, Agree(g, h, <<"Value", buf>>)
  PROVE  /\ Structure(g, buf, kind) = Structure(h, buf, kind)
         /\ Structure(g, buf, kind) \in ValueGood(buf)
<1> DEFINE b == [buf EXCEPT !.depth = @ + 1]
           q == Skip(b, buf.offset + 1)
<1>1. /\ buf.content \in Text /\ Len(buf.content) \in Nat /\ buf.offset \in Nat /\ buf.depth \in Nat
      /\ buf.offset < Len(buf.content) /\ buf.offset + 1 \in Nat
  <2>1. 0 \in Nat
    OBVIOUS
  <2>2. /\ buf.content \in Text /\ Len(buf.content) \in Nat /\ buf.offset \in Nat /\ buf.depth \in Nat
        /\ buf.offset < Len(buf.content)
    BY <2>1, BufferTyped
  <2> QED
    BY <2>2
<1>2. b \in parse_buffer /\ b.content = buf.content /\ b.depth = buf.depth + 1
  BY DEF parse_buffer
<1>3. /\ q \in parse_buffer /\ q.content = buf.content /\ q.depth = buf.depth + 1 /\ q.offset \in Nat
      /\ buf.offset < q.offset
  <2> HIDE DEF b
  <2>1. /\ q \in parse_buffer /\ q.content = buf.content /\ q.depth = buf.depth + 1
        /\ q.offset >= buf.offset + 1
    BY <1>1, <1>2, SkipIs
  <2>2. q.offset \in Nat
    BY <2>1, BufferTyped
  <2> HIDE DEF q
  <2> QED
    BY <1>1, <2>1, <2>2
<1>4. CASE buf.depth >= NESTING_LIMIT \/ ~CanAccess(q, 0)
  <2>1. Structure(g, buf, kind) = Refused(buf) /\ Structure(h, buf, kind) = Refused(buf)
    BY <1>4 DEF Structure
  <2> QED
    BY <2>1, RefusedGood
<1>5. CASE ~(buf.depth >= NESTING_LIMIT \/ ~CanAccess(q, 0)) /\ Is(q, Bracket(kind))
  <2>1. Structure(g, buf, kind) = Parsed(q.offset + 1, Typed(kind), 0) /\ Structure(h, buf, kind) = Parsed(q.offset + 1, Typed(kind), 0)
    BY <1>5 DEF Structure
  <2> HIDE DEF q
  <2>2. q.offset + 1 \in Nat /\ buf.offset < q.offset + 1 /\ q.offset + 1 <= Len(buf.content)
    <3>1. q.offset < Len(buf.content)
      BY <1>3, <1>5, BufferTyped
    <3> QED
      BY <1>1, <1>3, <3>1
  <2>3. Parsed(q.offset + 1, Leaf(kind, 0, NULL), 0) \in ValueGood(buf)
    <3>1. kind \in Types /\ NULL \in Text \cup {NULL} /\ 0 \in Int /\ 0 \in Nat
      BY DEF Types
    <3> QED
      BY <2>2, <3>1, ParsedGood
  <2> QED
    BY <2>1, <2>3, NewLeaf
<1>6. CASE ~(buf.depth >= NESTING_LIMIT \/ ~CanAccess(q, 0)) /\ ~Is(q, Bracket(kind))
  <2> DEFINE r == g[<<kind, q>>]
  <2>1. r = h[<<kind, q>>] /\ r \in ListGood(q)
    <3>1. kind \in Kinds /\ kind # "Value" /\ "Value" \in Kinds
      BY DEF Kinds
    <3> HIDE DEF q
    <3> QED
      BY <1>1, <1>3, <3>1, AgreeBehind
  <2>2. Structure(g, buf, kind) = Close(buf, kind, r) /\ Structure(h, buf, kind) = Close(buf, kind, r)
    BY <1>6, <2>1 DEF Structure
  <2>3. buf.depth < NESTING_LIMIT
    BY <1>1, <1>6, JsonAssumption
  <2> HIDE DEF r, q
  <2>4. Close(buf, kind, r) \in ValueGood(buf)
    BY <1>3, <2>1, <2>3, CloseGood
  <2> QED
    BY <2>2, <2>4
<1> QED
  BY <1>4, <1>5, <1>6

-----------------------------------------------------------------------------
(* The parse. *)

ParseStep(g, x) == IF x[1] = "Value" THEN Value(g, x[2]) ELSE Elements(g, x[2], x[1])

ParseRecursion == INSTANCE Recursion WITH S <- Places, rank <- ParseRank, Def <- ParseStep

LEMMA WordGood ==
  ASSUME NEW buf \in parse_buffer, NEW w \in Text, w # <<>>, Word(buf, w), NEW k \in Types, NEW n \in Int
  PROVE  Parsed(buf.offset + Len(w), Leaf(k, n, NULL), 0) \in ValueGood(buf)
<1>1. Len(w) \in Nat /\ Len(w) >= 1 /\ buf.offset \in Nat
  BY Shorter DEF parse_buffer
<1>2. buf.offset + Len(w) <= Len(buf.content)
  BY DEF Word
<1>3. buf.offset + Len(w) \in Nat /\ buf.offset < buf.offset + Len(w)
  BY <1>1
<1>4. NULL \in Text \cup {NULL} /\ 0 \in Nat
  OBVIOUS
<1> QED
  BY <1>2, <1>3, <1>4, ParsedGood

LEMMA ValueStepGood ==
  ASSUME NEW buf \in parse_buffer, NEW g, NEW h, Agree(g, h, <<"Value", buf>>)
  PROVE  /\ Value(g, buf) = Value(h, buf)
         /\ Value(g, buf) \in ValueGood(buf)
<1>1. CASE Word(buf, NullWord)
  <2>1. NullWord \in Text /\ NullWord # <<>> /\ Len(NullWord) = 4
    BY DEF NullWord, Text, Byte
  <2>2. Parsed(buf.offset + 4, Leaf("NULL", 0, NULL), 0) \in ValueGood(buf)
    <3>1. "NULL" \in Types /\ 0 \in Int
      BY DEF Types
    <3>2. Parsed(buf.offset + Len(NullWord), Leaf("NULL", 0, NULL), 0) \in ValueGood(buf)
      BY <1>1, <2>1, <3>1, WordGood
    <3> QED
      BY <2>1, <3>2
  <2>3. Value(g, buf) = Parsed(buf.offset + 4, Typed("NULL"), 0) /\ Value(h, buf) = Parsed(buf.offset + 4, Typed("NULL"), 0)
    BY <1>1 DEF Value
  <2> QED
    BY <2>2, <2>3, NewLeaf
<1>2. CASE ~Word(buf, NullWord) /\ Word(buf, FalseWord)
  <2>1. FalseWord \in Text /\ FalseWord # <<>> /\ Len(FalseWord) = 5
    BY DEF FalseWord, Text, Byte
  <2>2. Parsed(buf.offset + 5, Leaf("False", 0, NULL), 0) \in ValueGood(buf)
    <3>1. "False" \in Types /\ 0 \in Int
      BY DEF Types
    <3>2. Parsed(buf.offset + Len(FalseWord), Leaf("False", 0, NULL), 0) \in ValueGood(buf)
      BY <1>2, <2>1, <3>1, WordGood
    <3> QED
      BY <2>1, <3>2
  <2>3. Value(g, buf) = Parsed(buf.offset + 5, Typed("False"), 0) /\ Value(h, buf) = Parsed(buf.offset + 5, Typed("False"), 0)
    BY <1>2 DEF Value
  <2> QED
    BY <2>2, <2>3, NewLeaf
<1>3. CASE ~Word(buf, NullWord) /\ ~Word(buf, FalseWord) /\ Word(buf, TrueWord)
  <2>1. TrueWord \in Text /\ TrueWord # <<>> /\ Len(TrueWord) = 4
    BY DEF TrueWord, Text, Byte
  <2>2. Parsed(buf.offset + 4, Leaf("True", 1, NULL), 0) \in ValueGood(buf)
    <3>1. "True" \in Types /\ 1 \in Int
      BY DEF Types
    <3>2. Parsed(buf.offset + Len(TrueWord), Leaf("True", 1, NULL), 0) \in ValueGood(buf)
      BY <1>3, <2>1, <3>1, WordGood
    <3> QED
      BY <2>1, <3>2
  <2>3. /\ Value(g, buf) = Parsed(buf.offset + 4, [Typed("True") EXCEPT !.int = 1], 0)
        /\ Value(h, buf) = Parsed(buf.offset + 4, [Typed("True") EXCEPT !.int = 1], 0)
    BY <1>3 DEF Value
  <2> QED
    BY <2>2, <2>3, NewLeaf
<1> DEFINE NoWord == ~Word(buf, NullWord) /\ ~Word(buf, FalseWord) /\ ~Word(buf, TrueWord)
<1>4. CASE NoWord /\ ~CanAccess(buf, 0)
  <2>1. Value(g, buf) = Refused(buf) /\ Value(h, buf) = Refused(buf)
    BY <1>4 DEF Value
  <2> QED
    BY <2>1, RefusedGood
<1>5. CASE NoWord /\ CanAccess(buf, 0) /\ At(buf, 0) = Quote
  <2>1. Value(g, buf) = parse_string(buf) /\ Value(h, buf) = parse_string(buf)
    BY <1>5 DEF Value, Quote, Digit, Minus, OpenArray, OpenObject
  <2>2. ASSUME NEW t \in Text, NEW n \in Nat, buf.offset + 2 <= n, n <= Len(buf.content),
               parse_string(buf) = Parsed(n, StringItem(t), 1)
        PROVE  parse_string(buf) \in ValueGood(buf)
    <3>1. buf.offset < n /\ 1 \in Nat /\ 0 \in Int /\ t \in Text \cup {NULL} /\ "String" \in Types
      BY <2>2 DEF parse_buffer, Types
    <3>2. t # NULL
      BY JsonAssumption
    <3>3. Parsed(n, Leaf("String", 0, t), 1) \in ValueGood(buf)
      BY <2>2, <3>1, <3>2, ParsedGood
    <3> QED
      BY <2>2, <3>3, NewLeaf
  <2> QED
    BY <1>5, <2>1, <2>2, ParseString, RefusedGood
<1>6. CASE NoWord /\ CanAccess(buf, 0) /\ At(buf, 0) \in Digit \cup {Minus}
  <2>1. Value(g, buf) = parse_number(buf) /\ Value(h, buf) = parse_number(buf)
    BY <1>6 DEF Value, Quote, Digit, Minus, OpenArray, OpenObject
  <2>2. ASSUME NEW k \in Int, NEW n \in Nat, buf.offset < n, n <= Len(buf.content),
               parse_number(buf) = Parsed(n, NumberItem(k), 0)
        PROVE  parse_number(buf) \in ValueGood(buf)
    <3>1. 0 \in Nat /\ NULL \in Text \cup {NULL} /\ "Number" \in Types
      BY DEF Types
    <3>2. Parsed(n, Leaf("Number", k, NULL), 0) \in ValueGood(buf)
      BY <2>2, <3>1, ParsedGood
    <3> QED
      BY <2>2, <3>2, NewLeaf
  <2> QED
    BY <1>6, <2>1, <2>2, ParseNumber, RefusedGood
<1>7. CASE NoWord /\ CanAccess(buf, 0) /\ At(buf, 0) = OpenArray
  <2>1. Value(g, buf) = Structure(g, buf, "Array") /\ Value(h, buf) = Structure(h, buf, "Array")
    BY <1>7 DEF Value, Quote, Digit, Minus, OpenArray, OpenObject
  <2> QED
    BY <1>7, <2>1, StructureGood
<1>8. CASE NoWord /\ CanAccess(buf, 0) /\ At(buf, 0) = OpenObject
  <2>1. Value(g, buf) = Structure(g, buf, "Object") /\ Value(h, buf) = Structure(h, buf, "Object")
    BY <1>8 DEF Value, Quote, Digit, Minus, OpenArray, OpenObject
  <2> QED
    BY <1>8, <2>1, StructureGood
<1>9. CASE NoWord /\ CanAccess(buf, 0) /\ At(buf, 0) \notin Digit \cup {Quote, Minus, OpenArray, OpenObject}
  <2>1. Value(g, buf) = Refused(buf) /\ Value(h, buf) = Refused(buf)
    BY <1>9 DEF Value
  <2> QED
    BY <2>1, RefusedGood
<1> QED
  BY <1>1, <1>2, <1>3, <1>4, <1>5, <1>6, <1>7, <1>8, <1>9

LEMMA ParseUnfold ==
  \A x \in Places : Parse[x] = ParseStep(Parse, x) /\ Parse[x] \in ParseGood[x]
<1>1. ASSUME NEW x \in Places, NEW g, NEW h,
             \A y \in Places : ParseRank[y] < ParseRank[x] => g[y] = h[y] /\ g[y] \in ParseGood[y]
      PROVE  ParseStep(g, x) = ParseStep(h, x) /\ ParseStep(g, x) \in ParseGood[x]
  <2> DEFINE kind == x[1]
             buf == x[2]
  <2>1. kind \in Kinds /\ buf \in parse_buffer /\ x = <<kind, buf>>
    BY DEF Places
  <2>2. Agree(g, h, <<kind, buf>>)
    BY <1>1, <2>1 DEF Agree
  <2>3. CASE kind = "Value"
    <3>1. Value(g, buf) = Value(h, buf) /\ Value(g, buf) \in ValueGood(buf)
      <4> HIDE DEF kind, buf
      <4> QED
        BY <2>1, <2>2, <2>3, ValueStepGood
    <3> QED
      BY <2>3, <3>1 DEF ParseStep, ParseGood
  <2>4. CASE kind # "Value"
    <3>0. kind \in {"Array", "Object"}
      BY <2>1, <2>4 DEF Kinds
    <3>1. Elements(g, buf, kind) = Elements(h, buf, kind) /\ Elements(g, buf, kind) \in ListGood(buf)
      <4> HIDE DEF kind, buf
      <4> QED
        BY <2>1, <2>2, <3>0, ElementsGood
    <3> QED
      BY <2>4, <3>1 DEF ParseStep, ParseGood
  <2> QED
    BY <2>3, <2>4
<1>2. Parse = CHOOSE g : g = [x \in Places |-> ParseStep(g, x)]
  BY DEF Parse, ParseStep, Places, Kinds
<1> QED
  BY <1>1, <1>2, ParseRankNat, ParseRecursion!UnfoldsTyped

(* Whatever the text, cJSON_Parse stays inside of it and of what it allocates, *)
(* and leaves the item and its blocks, or nothing.                          *)
THEOREM CJSONParse ==
  ASSUME NEW b \in Text
  PROVE  LET p == cJSON_Parse(b)
         IN  /\ p.safe = TRUE
             /\ p.ok => p.item \in Items[NESTING_LIMIT] /\ p.item # NULL /\ p.live = Blocks(<<p.item>>)
             /\ ~p.ok => p.item = NULL /\ p.live = 0
<1> DEFINE buf == Skip([content |-> b, offset |-> 0, depth |-> 0], skip_utf8_bom(b))
           p == Parse[<<"Value", buf>>]
<1>1. buf \in parse_buffer /\ buf.depth = 0
  <2>1. [content |-> b, offset |-> 0, depth |-> 0] \in parse_buffer
    BY DEF parse_buffer
  <2>2. skip_utf8_bom(b) \in Nat
    BY DEF skip_utf8_bom
  <2> QED
    BY <2>1, <2>2, SkipIs
<1> HIDE DEF buf
<1>2. p \in ValueGood(buf)
  <2>1. <<"Value", buf>> \in Places
    BY <1>1 DEF Places, Kinds
  <2>2. p \in ParseGood[<<"Value", buf>>]
    BY <2>1, ParseUnfold
  <2> QED
    BY <2>1, <2>2 DEF ParseGood
<1>3. cJSON_Parse(b) = Result(p)
  BY DEF cJSON_Parse, buf
<1>4. /\ p.ok \in BOOLEAN /\ p.safe = TRUE /\ p.item \in Items[Level(0)] /\ p.live \in Int
      /\ p.live + 1 = Blocks(<<p.item>>)
  BY <1>1, <1>2 DEF ValueGood, Values
<1>5. p.item \in Items[NESTING_LIMIT] /\ p.item # NULL
  BY <1>4, LevelItems, JsonAssumption
<1> HIDE DEF p
<1>6. CASE p.ok
  <2>1. Result(p).safe = p.safe /\ Result(p).ok = p.ok /\ Result(p).item = p.item /\ Result(p).live = p.live + 1
    BY <1>2, <1>6 DEF Result, ValueGood, Values
  <2> QED
    BY <1>3, <1>4, <1>5, <1>6, <2>1
<1>7. CASE ~p.ok
  <2>1. Result(p).safe = p.safe /\ Result(p).ok = p.ok /\ Result(p).item = NULL
        /\ Result(p).live = p.live + 1 - Blocks(<<p.item>>)
    BY <1>2, <1>7 DEF Result, ValueGood, Values, Deleted
  <2>2. p.live + 1 - Blocks(<<p.item>>) = 0
    BY <1>4
  <2> QED
    BY <1>3, <1>4, <1>7, <2>1, <2>2
<1> QED
  BY <1>6, <1>7

-----------------------------------------------------------------------------
(* The parser looks no further than what it parses. *)

(* The first m bytes of two texts are the same. *)
Same(a, c, m) == m <= Len(a) /\ m <= Len(c) /\ \A i \in 1..m : a[i] = c[i]

(* Two buffers that are the same up to m. *)
Alike(p, q, m) ==
  /\ p \in parse_buffer /\ q \in parse_buffer
  /\ p.offset = q.offset /\ p.depth = q.depth /\ Same(p.content, q.content, m)

LEMMA AlikeLess ==
  ASSUME NEW p, NEW q, NEW m \in Nat, NEW n \in Nat, n <= m, Alike(p, q, m)
  PROVE  Alike(p, q, n)
<1>1. Len(p.content) \in Nat /\ Len(q.content) \in Nat
  BY LenProperties DEF Alike, parse_buffer, Text
<1> QED
  BY <1>1 DEF Alike, Same

LEMMA FirstFromOnly ==
  ASSUME NEW s \in Text, NEW o \in Nat, o <= Len(s), NEW stop, NEW e \in o..Len(s),
         e < Len(s) => s[e + 1] \in stop, \A i \in (o + 1)..e : s[i] \notin stop
  PROVE  FirstFrom(s, o, stop) = e
<1> DEFINE f == FirstFrom(s, o, stop)
<1>1. /\ f \in o..Len(s) /\ f \in Nat
      /\ f < Len(s) => s[f + 1] \in stop
      /\ \A i \in (o + 1)..f : s[i] \notin stop
  BY FirstFromIs
<1>2. Len(s) \in Nat
  BY LenProperties DEF Text
<1> HIDE DEF f
<1>3. ~(f < e)
  <2> SUFFICES ASSUME f < e PROVE FALSE
    OBVIOUS
  <2>1. f + 1 \in (o + 1)..e /\ f < Len(s)
    BY <1>1, <1>2
  <2> QED
    BY <1>1, <2>1
<1>4. ~(e < f)
  <2> SUFFICES ASSUME e < f PROVE FALSE
    OBVIOUS
  <2>1. e + 1 \in (o + 1)..f /\ e < Len(s)
    BY <1>1, <1>2
  <2> QED
    BY <1>1, <2>1
<1>5. f = e
  BY <1>1, <1>2, <1>3, <1>4
<1> QED
  BY <1>5 DEF f

(* A byte that is no blank, and may begin a value or stand behind one. *)
Inked(buf) == CanAccess(buf, 0) /\ At(buf, 0) \in 33..255

LEMMA FirstInkIs ==
  ASSUME NEW s \in Text, NEW o \in Nat, o <= Len(s), NEW e, e = FirstFrom(s, o, 33..255)
  PROVE  /\ e \in o..Len(s) /\ e \in Nat
         /\ \A i \in (o + 1)..e : s[i] \notin 33..255
<1> DEFINE ink == 33..255
<1>1. e = FirstFrom(s, o, ink)
  OBVIOUS
<1> HIDE DEF ink
<1>2. /\ e \in o..Len(s) /\ e \in Nat
      /\ \A i \in (o + 1)..e : s[i] \notin ink
  BY <1>1, FirstFromIs
<1> QED
  BY <1>2 DEF ink

(* Where Skip comes to a byte that is no blank there are only blanks before. *)
LEMMA SkipInked ==
  ASSUME NEW buf \in parse_buffer, NEW o \in Nat, Inked(Skip(buf, o))
  PROVE  LET e == Skip(buf, o).offset
         IN  /\ e \in Nat /\ o <= e /\ e < Len(buf.content) /\ o < Len(buf.content)
             /\ buf.content[e + 1] \in 33..255
             /\ \A i \in (o + 1)..e : buf.content[i] \notin 33..255
<1> DEFINE q == Skip(buf, o)
           b == To(buf, o)
           e == FirstFrom(buf.content, o, 33..255)
<1>1. /\ buf.content \in Text /\ Len(buf.content) \in Nat
      /\ b \in parse_buffer /\ b.content = buf.content /\ b.offset = o
      /\ CanAccess(b, 0) <=> o < Len(buf.content)
  BY BufferTyped
<1>2. /\ q \in parse_buffer /\ q.content = buf.content /\ q.offset >= o /\ q.offset \in Nat
      /\ o >= Len(buf.content) => q.offset = o
  BY SkipIs DEF parse_buffer
<1>3. q.offset < Len(buf.content) /\ buf.content[q.offset + 1] \in 33..255
  <2>1. q.offset + 0 < Len(buf.content) /\ buf.content[q.offset + 0 + 1] \in 33..255
    BY <1>2 DEF Inked, CanAccess, At
  <2>2. q.offset + 0 = q.offset
    BY <1>2
  <2> QED
    BY <2>1, <2>2
<1>4. o < Len(buf.content)
  BY <1>1, <1>2, <1>3
<1>5. q.offset = IF e = Len(buf.content) THEN e - 1 ELSE e
  <2>1. buffer_skip_whitespace(b) = IF e = Len(buf.content) THEN e - 1 ELSE e
    BY <1>1, <1>4 DEF buffer_skip_whitespace
  <2>2. buffer_skip_whitespace(b) \in Nat
    <3>1. e \in o..Len(buf.content)
      BY <1>1, <1>4, FirstFromIs
    <3> HIDE DEF e
    <3> QED
      BY <1>1, <1>4, <2>1, <3>1
  <2>3. q = To(buf, buffer_skip_whitespace(b))
    BY DEF Skip
  <2> HIDE DEF b, e, q
  <2> QED
    BY <2>1, <2>2, <2>3, BufferTyped
<1>6. /\ e \in o..Len(buf.content) /\ e \in Nat
      /\ \A i \in (o + 1)..e : buf.content[i] \notin 33..255
  <2> DEFINE s == buf.content
  <2>1. s \in Text /\ o \in Nat /\ o <= Len(s)
    BY <1>1, <1>4
  <2>2. e = FirstFrom(s, o, 33..255)
    OBVIOUS
  <2> HIDE DEF e, s
  <2>3. /\ e \in o..Len(s) /\ e \in Nat
        /\ \A i \in (o + 1)..e : s[i] \notin 33..255
    BY <2>1, <2>2, FirstInkIs
  <2> QED
    BY <2>3 DEF s
<1> HIDE DEF e, q
<1>7. e # Len(buf.content)
  <2> SUFFICES ASSUME e = Len(buf.content) PROVE FALSE
    OBVIOUS
  <2>1. q.offset = e - 1
    BY <1>5
  <2>2. q.offset + 1 \in (o + 1)..e
    BY <1>1, <1>2, <1>4, <1>6, <2>1
  <2> QED
    BY <1>3, <1>6, <2>2
<1>8. q.offset = e
  BY <1>5, <1>7
<1>9. /\ q.offset \in Nat /\ o <= q.offset /\ q.offset < Len(buf.content) /\ o < Len(buf.content)
      /\ buf.content[q.offset + 1] \in 33..255
      /\ \A i \in (o + 1)..q.offset : buf.content[i] \notin 33..255
  BY <1>2, <1>3, <1>4, <1>6, <1>8
<1> QED
  BY <1>9 DEF q

(* The next byte that is no blank is found without what is behind it. *)
LEMMA SkipLocal ==
  ASSUME NEW p \in parse_buffer, NEW t \in parse_buffer, NEW o \in Nat, NEW m \in Nat,
         Inked(Skip(p, o)), Skip(p, o).offset + 1 <= m, Alike(p, t, m)
  PROVE  /\ Alike(Skip(p, o), Skip(t, o), m) /\ Inked(Skip(t, o)) /\ At(Skip(t, o), 0) = At(Skip(p, o), 0)
         /\ Skip(p, o).content = p.content /\ Skip(p, o).offset < m
<1> DEFINE e == Skip(p, o).offset
           b == To(t, o)
<1>1. /\ e \in Nat /\ o <= e /\ e < Len(p.content) /\ o < Len(p.content)
      /\ p.content[e + 1] \in 33..255
      /\ \A i \in (o + 1)..e : p.content[i] \notin 33..255
  BY SkipInked
<1>2. /\ t.content \in Text /\ Len(t.content) \in Nat /\ Len(p.content) \in Nat /\ Same(p.content, t.content, m)
      /\ p.depth = t.depth /\ t.depth \in Nat
      /\ b \in parse_buffer /\ b.content = t.content /\ b.offset = o
      /\ CanAccess(b, 0) <=> o < Len(t.content)
  BY BufferTyped DEF Alike
<1>3. e + 1 <= m
  OBVIOUS
<1>4. /\ Skip(p, o) \in parse_buffer /\ Skip(p, o).content = p.content /\ Skip(p, o).depth = p.depth
      /\ Skip(t, o) \in parse_buffer /\ Skip(t, o).content = t.content /\ Skip(t, o).depth = t.depth
  BY SkipIs
<1> HIDE DEF e
<1>5. e < Len(t.content) /\ \A i \in 1..(e + 1) : p.content[i] = t.content[i]
  BY <1>1, <1>2, <1>3 DEF Same
<1>6. t.content[e + 1] = p.content[e + 1] /\ \A i \in (o + 1)..e : t.content[i] \notin 33..255
  <2>1. e + 1 \in 1..(e + 1) /\ \A i \in (o + 1)..e : i \in 1..(e + 1)
    BY <1>1
  <2> QED
    BY <1>1, <1>5, <2>1
<1>7. FirstFrom(t.content, o, 33..255) = e
  <2>1. e \in o..Len(t.content) /\ o <= Len(t.content)
    BY <1>1, <1>2, <1>5
  <2>2. t.content[e + 1] \in 33..255
    BY <1>1, <1>6
  <2>3. \A i \in (o + 1)..e : t.content[i] \notin 33..255
    BY <1>6
  <2>4. e < Len(t.content) => t.content[e + 1] \in 33..255
    BY <2>2
  <2>5. t.content \in Text
    BY <1>2
  <2> DEFINE s == t.content
             stop == 33..255
  <2>6. s \in Text /\ o <= Len(s) /\ e \in o..Len(s) /\ (e < Len(s) => s[e + 1] \in stop)
        /\ \A i \in (o + 1)..e : s[i] \notin stop
    BY <2>1, <2>3, <2>4, <2>5
  <2> HIDE DEF s, stop
  <2>7. FirstFrom(s, o, stop) = e
    BY <2>6, FirstFromOnly
  <2> QED
    BY <2>7 DEF s, stop
<1>8. buffer_skip_whitespace(b) = e
  <2>1. o < Len(t.content) /\ e # Len(t.content)
    BY <1>1, <1>2, <1>5
  <2> QED
    BY <1>2, <1>7, <2>1 DEF buffer_skip_whitespace
<1>9. Skip(t, o).offset = e
  <2>1. Skip(t, o) = To(t, e)
    BY <1>8 DEF Skip
  <2>2. To(t, e).offset = e
    BY <1>1, BufferTyped
  <2> QED
    BY <2>1, <2>2
<1>10. Skip(p, o).offset = e
  BY DEF e
<1>11. e + 0 = e
  BY <1>1
<1>12. Inked(Skip(t, o)) /\ At(Skip(t, o), 0) = At(Skip(p, o), 0)
  <2>1. At(Skip(t, o), 0) = t.content[e + 1] /\ At(Skip(p, o), 0) = p.content[e + 1]
    BY <1>4, <1>9, <1>10, <1>11 DEF At
  <2>2. CanAccess(Skip(t, o), 0)
    BY <1>4, <1>5, <1>9, <1>11 DEF CanAccess
  <2> QED
    BY <1>1, <1>6, <2>1, <2>2 DEF Inked
<1>13. e < m
  BY <1>1, <1>3
<1> QED
  BY <1>2, <1>4, <1>9, <1>10, <1>12, <1>13 DEF Alike

LEMMA SameLess ==
  ASSUME NEW a \in Text, NEW c \in Text, NEW m \in Nat, NEW n \in Nat, n <= m, Same(a, c, m)
  PROVE  Same(a, c, n)
<1>1. Len(a) \in Nat /\ Len(c) \in Nat
  BY LenProperties DEF Text
<1> QED
  BY <1>1 DEF Same

LEMMA PartSame ==
  ASSUME NEW a \in Text, NEW c \in Text, NEW i \in Nat, i >= 1, NEW m \in Nat, Same(a, c, m)
  PROVE  SubSeq(a, i, m) = SubSeq(c, i, m)
<1>1. Len(a) \in Nat /\ Len(c) \in Nat /\ m <= Len(a) /\ m <= Len(c) /\ \A k \in 1..m : a[k] = c[k]
  BY LenProperties DEF Text, Same
<1>2. \A k \in i..m : a[k] \in Byte /\ c[k] \in Byte /\ a[k] = c[k]
  <2>1. \A k \in i..m : k \in 1..Len(a) /\ k \in 1..Len(c) /\ k \in 1..m
    BY <1>1
  <2> QED
    BY <1>1, <2>1, ElementOfSeq DEF Text
<1>3. /\ SubSeq(a, i, m) \in Seq(Byte) /\ Len(SubSeq(a, i, m)) = (IF i <= m THEN m - i + 1 ELSE 0)
      /\ \A j \in 1..(m - i + 1) : SubSeq(a, i, m)[j] = a[i + j - 1]
  BY <1>2, SubSeqProperties
<1>4. /\ SubSeq(c, i, m) \in Seq(Byte) /\ Len(SubSeq(c, i, m)) = (IF i <= m THEN m - i + 1 ELSE 0)
      /\ \A j \in 1..(m - i + 1) : SubSeq(c, i, m)[j] = c[i + j - 1]
  BY <1>2, SubSeqProperties
<1>5. \A j \in 1..Len(SubSeq(a, i, m)) : SubSeq(a, i, m)[j] = SubSeq(c, i, m)[j]
  <2> SUFFICES ASSUME NEW j \in 1..Len(SubSeq(a, i, m)) PROVE SubSeq(a, i, m)[j] = SubSeq(c, i, m)[j]
    OBVIOUS
  <2>1. j \in 1..(m - i + 1) /\ i + j - 1 \in i..m
    BY <1>3
  <2> QED
    BY <1>2, <1>3, <1>4, <2>1
<1> QED
  BY <1>3, <1>4, <1>5, SeqEqual

LEMMA FromSame ==
  ASSUME NEW a \in Text, NEW c \in Text, NEW n \in Nat, NEW m \in Nat, Same(a, c, n + m)
  PROVE  Same(From(a, n), From(c, n), m)
<1>1. Len(a) \in Nat /\ Len(c) \in Nat /\ n + m <= Len(a) /\ n + m <= Len(c) /\ \A k \in 1..(n + m) : a[k] = c[k]
  BY LenProperties DEF Text, Same
<1>2. Len(From(a, n)) = Len(a) - n /\ Len(From(c, n)) = Len(c) - n
  <2>1. n <= Len(a) /\ n <= Len(c)
    BY <1>1
  <2> QED
    BY <2>1, FromText
<1>3. ASSUME NEW i \in 1..m PROVE From(a, n)[i] = From(c, n)[i]
  <2>1. i \in 1..(Len(a) - n) /\ i \in 1..(Len(c) - n) /\ n + i \in 1..(n + m)
    BY <1>1
  <2>2. From(a, n)[i] = a[n + i] /\ From(c, n)[i] = c[n + i]
    BY <2>1, FromByte
  <2> QED
    BY <1>1, <2>1, <2>2
<1>4. m <= Len(From(a, n)) /\ m <= Len(From(c, n))
  BY <1>1, <1>2
<1> QED
  BY <1>3, <1>4 DEF Same

(* The closing quote is found without what is behind it. *)
LEMMA StringEndLocal ==
  \A s \in Text : \A t \in Text :
    StringEnd[s] < Len(s) /\ Same(s, t, StringEnd[s] + 1) => StringEnd[t] = StringEnd[s]
<1> DEFINE T == {s \in Text : \A t \in Text :
                   StringEnd[s] < Len(s) /\ Same(s, t, StringEnd[s] + 1) => StringEnd[t] = StringEnd[s]}
<1>1. ASSUME NEW s \in Text, \A t \in Text : Len(t) < Len(s) => t \in T,
             NEW t \in Text, StringEnd[s] < Len(s), Same(s, t, StringEnd[s] + 1)
      PROVE  StringEnd[t] = StringEnd[s]
  <2>1. StringEnd[s] \in Nat /\ Len(s) \in Nat /\ Len(t) \in Nat
    BY StringEndUnfold, LenProperties DEF Text
  <2>2. Len(s) >= 1 /\ Len(t) >= 1 /\ s[1] = t[1]
    BY <1>1, <2>1 DEF Same
  <2>3. s # <<>> /\ t # <<>>
    BY <2>2, EmptySeq
  <2>4. CASE s[1] = Quote
    <3>1. StringEnd[s] = 0 /\ StringEnd[t] = 0
      BY <2>2, <2>4, StringEndUnfold DEF StringEndStep
    <3> QED
      BY <3>1
  <2>5. ASSUME NEW n \in {1, 2}, StringEnd[s] = n + StringEnd[From(s, n)], StringEnd[t] = n + StringEnd[From(t, n)]
        PROVE  StringEnd[t] = StringEnd[s]
    <3> DEFINE r == From(s, n)
               u == From(t, n)
    <3>1. r \in Text /\ u \in Text /\ Len(r) = (IF n <= Len(s) THEN Len(s) - n ELSE 0) /\ StringEnd[r] \in Nat
      BY FromText, StringEndUnfold
    <3> HIDE DEF r, u
    <3>2. StringEnd[s] = n + StringEnd[r] /\ StringEnd[t] = n + StringEnd[u]
      BY <2>5 DEF r, u
    <3>3. n <= Len(s) /\ Len(r) = Len(s) - n /\ Len(r) < Len(s) /\ StringEnd[r] < Len(r)
      BY <1>1, <2>1, <3>1, <3>2
    <3>4. Same(s, t, n + (StringEnd[r] + 1))
      <4>1. StringEnd[s] + 1 = n + (StringEnd[r] + 1)
        BY <3>1, <3>2
      <4> QED
        BY <1>1, <4>1
    <3>5. StringEnd[r] + 1 \in Nat /\ n \in Nat
      BY <3>1
    <3>6. Same(r, u, StringEnd[r] + 1)
      BY <3>4, <3>5, FromSame DEF r, u
    <3>7. r \in T
      BY <1>1, <3>1, <3>3
    <3>8. StringEnd[u] = StringEnd[r]
      BY <3>1, <3>3, <3>6, <3>7
    <3> QED
      BY <3>2, <3>8
  <2>6. CASE s[1] = Backslash
    <3>1. Backslash # Quote
      BY DEF Backslash, Quote
    <3>2. StringEnd[s] = 2 + StringEnd[From(s, 2)]
      BY <2>3, <2>6, <3>1, StringEndUnfold DEF StringEndStep, From
    <3>3. t[1] = Backslash
      BY <2>2, <2>6
    <3>4. StringEnd[t] = 2 + StringEnd[From(t, 2)]
      BY <2>3, <3>1, <3>3, StringEndUnfold DEF StringEndStep, From
    <3>5. 2 \in {1, 2}
      OBVIOUS
    <3> QED
      BY <2>5, <3>2, <3>4, <3>5
  <2>7. CASE s[1] # Quote /\ s[1] # Backslash
    <3>1. StringEnd[s] = 1 + StringEnd[Tail(s)] /\ StringEnd[t] = 1 + StringEnd[Tail(t)]
      BY <2>2, <2>3, <2>7, StringEndUnfold DEF StringEndStep
    <3>2. Tail(s) = From(s, 1) /\ Tail(t) = From(t, 1)
      BY <2>3, TailFrom
    <3> QED
      BY <2>5, <3>1, <3>2
  <2> QED
    BY <2>4, <2>6, <2>7
<1>2. ASSUME NEW s \in Text, \A t \in Text : Len(t) < Len(s) => t \in T PROVE s \in T
  BY <1>1, <1>2
<1>3. T \in SUBSET Text
  OBVIOUS
<1> HIDE DEF T
<1>4. T = Text
  BY <1>2, <1>3, TextInduction
<1> USE DEF T
<1> QED
  BY <1>4

LEMMA SameByte ==
  ASSUME NEW p, NEW t, NEW m \in Nat, Alike(p, t, m), p.offset < m
  PROVE  /\ CanAccess(p, 0) /\ CanAccess(t, 0) /\ At(t, 0) = At(p, 0) /\ At(p, 0) \in Byte
         /\ At(p, 0) = p.content[p.offset + 1]
<1>1. /\ p.offset \in Nat /\ t.offset = p.offset /\ p.content \in Text /\ t.content \in Text
      /\ Len(p.content) \in Nat /\ Len(t.content) \in Nat
      /\ m <= Len(p.content) /\ m <= Len(t.content) /\ \A i \in 1..m : p.content[i] = t.content[i]
  BY LenProperties DEF Alike, Same, parse_buffer, Text
<1>2. p.offset + 0 = p.offset /\ p.offset + 1 \in 1..m /\ p.offset + 1 \in 1..Len(p.content)
      /\ p.offset < Len(p.content) /\ p.offset < Len(t.content)
  BY <1>1
<1>3. p.content[p.offset + 1] \in Byte
  BY <1>1, <1>2, ElementOfSeq DEF Text
<1> QED
  BY <1>1, <1>2, <1>3 DEF CanAccess, At

(* A string is parsed without what is behind its closing quote. *)
LEMMA StringLocal ==
  ASSUME NEW p, NEW t, parse_string(p).ok, Alike(p, t, parse_string(p).off), CanAccess(p, 0)
  PROVE  parse_string(t) = parse_string(p) /\ At(p, 0) = Quote
<1> DEFINE s == From(p.content, p.offset + 1)
           u == From(t.content, t.offset + 1)
           m == parse_string(p).off
<1>1. /\ p \in parse_buffer /\ t \in parse_buffer /\ t.offset = p.offset /\ p.offset \in Nat
      /\ p.content \in Text /\ t.content \in Text /\ Same(p.content, t.content, m)
      /\ p.offset + 1 \in Nat
  BY DEF Alike, parse_buffer
<1>2. s \in Text /\ u \in Text
  BY <1>1, FromText
<1>3. /\ SubSeq(p.content, p.offset + 2, Len(p.content)) = s
      /\ SubSeq(t.content, t.offset + 2, Len(t.content)) = u
  <2>1. p.offset + 2 = p.offset + 1 + 1
    BY <1>1
  <2> QED
    BY <1>1, <2>1 DEF From
<1>4. m \in Nat /\ p.offset + 2 <= m
  <2>1. \E x \in Text : \E n \in Nat : p.offset + 2 <= n /\ parse_string(p) = Parsed(n, StringItem(x), 1)
    <3>1. parse_string(p) # Refused(p)
      BY DEF Refused
    <3> QED
      BY <1>1, <3>1, ParseString
  <2> QED
    BY <2>1 DEF Parsed
<1>5. p.offset < m
  BY <1>1, <1>4
<1>6. CanAccess(p, 0) /\ CanAccess(t, 0) /\ At(t, 0) = At(p, 0)
  BY <1>4, <1>5, SameByte
<1>7. Is(p, Quote)
  BY DEF parse_string, Refused
<1>8. Is(t, Quote)
  BY <1>6, <1>7 DEF Is
<1>9. parse_string(p) = Quoted(p, s) /\ parse_string(t) = Quoted(t, u)
  BY <1>3, <1>7, <1>8 DEF parse_string
<1>10. parse_string(p).ok
  OBVIOUS
<1>11. m = parse_string(p).off
  OBVIOUS
<1> HIDE DEF s, u, m
<1>12. StringEnd[s] \in Nat /\ Len(s) \in Nat /\ Len(u) \in Nat
  BY <1>2, StringEndUnfold, LenProperties DEF Text
<1>13. ~(StringEnd[s] >= Len(s)) /\ parse_string(p) = Unquoted(p, SubSeq(s, 1, StringEnd[s]))
  BY <1>9, <1>10 DEF Quoted, Refused
<1>14. m = p.offset + StringEnd[s] + 2
  <2>1. SubSeq(s, 1, StringEnd[s]) \in Text /\ Len(SubSeq(s, 1, StringEnd[s])) = StringEnd[s]
    <3>1. StringEnd[s] \in 0..Len(s)
      BY <1>12, <1>13
    <3> QED
      BY <1>2, <3>1, PrefixText
  <2> DEFINE x == SubSeq(s, 1, StringEnd[s])
  <2>2. parse_string(p) = Unquoted(p, x) /\ Len(x) = StringEnd[s]
    BY <1>13, <2>1
  <2> HIDE DEF x
  <2>3. Unescaped[x] # NULL
    BY <1>10, <2>2 DEF Unquoted, Refused
  <2>4. Unquoted(p, x).off = p.offset + Len(x) + 2
    BY <2>3 DEF Unquoted, Parsed
  <2> QED
    BY <1>11, <2>2, <2>4
<1>15. Same(s, u, StringEnd[s] + 1)
  <2>1. m = (p.offset + 1) + (StringEnd[s] + 1) /\ StringEnd[s] + 1 \in Nat
    <3> DEFINE n == StringEnd[s]
    <3>1. n \in Nat /\ m = p.offset + n + 2
      BY <1>12, <1>14
    <3> HIDE DEF n
    <3>2. m = (p.offset + 1) + (n + 1) /\ n + 1 \in Nat
      BY <1>1, <3>1
    <3> QED
      BY <3>2 DEF n
  <2>2. Same(p.content, t.content, (p.offset + 1) + (StringEnd[s] + 1))
    BY <1>1, <2>1
  <2>3. u = From(t.content, p.offset + 1)
    BY <1>1 DEF u
  <2> QED
    BY <1>1, <2>1, <2>2, <2>3, FromSame DEF s
<1>16. StringEnd[u] = StringEnd[s]
  <2>1. StringEnd[s] < Len(s)
    BY <1>12, <1>13
  <2> QED
    BY <1>2, <1>15, <2>1, StringEndLocal
<1>17. ~(StringEnd[u] >= Len(u))
  BY <1>12, <1>15, <1>16 DEF Same
<1>18. SubSeq(u, 1, StringEnd[u]) = SubSeq(s, 1, StringEnd[s])
  <2>1. StringEnd[s] <= StringEnd[s] + 1 /\ StringEnd[s] + 1 \in Nat
    BY <1>12
  <2>2. Same(s, u, StringEnd[s])
    BY <1>2, <1>12, <1>15, <2>1, SameLess
  <2>3. SubSeq(s, 1, StringEnd[s]) = SubSeq(u, 1, StringEnd[s])
    BY <1>2, <1>12, <2>2, PartSame, SMTT(40)
  <2> QED
    BY <1>16, <2>3
<1>19. parse_string(t) = Unquoted(t, SubSeq(s, 1, StringEnd[s]))
  BY <1>9, <1>17, <1>18 DEF Quoted
<1>20. Unquoted(t, SubSeq(s, 1, StringEnd[s])) = Unquoted(p, SubSeq(s, 1, StringEnd[s]))
  <2>1. Unescaped[SubSeq(s, 1, StringEnd[s])] # NULL
    BY <1>10, <1>13 DEF Unquoted, Refused
  <2> QED
    BY <1>1, <2>1 DEF Unquoted
<1> QED
  BY <1>7, <1>13, <1>19, <1>20 DEF Is

(* A number is parsed without what is behind the byte that ends it. *)
LEMMA NumberLocal ==
  ASSUME NEW p, NEW t, parse_number(p).ok, NEW m \in Nat, m = parse_number(p).off,
         Alike(p, t, m + 1), p.content[m + 1] \notin NumberBytes, CanAccess(p, 0)
  PROVE  parse_number(t) = parse_number(p)
<1> DEFINE e == FirstFrom(p.content, p.offset, OtherBytes)
           s == SubSeq(p.content, p.offset + 1, e)
           v == Strtod(s)
<1>1. /\ p \in parse_buffer /\ t \in parse_buffer /\ t.offset = p.offset /\ p.offset \in Nat
      /\ p.content \in Text /\ t.content \in Text /\ Same(p.content, t.content, m + 1)
      /\ Len(p.content) \in Nat /\ Len(t.content) \in Nat
      /\ p.offset < Len(p.content)
  <2>1. p \in parse_buffer /\ 0 \in Nat
    BY DEF Alike
  <2>2. p.offset < Len(p.content)
    BY <2>1, BufferTyped
  <2> QED
    BY <2>2, LenProperties DEF Alike, parse_buffer, Text
<1>2. m + 1 <= Len(p.content) /\ m + 1 <= Len(t.content) /\ \A i \in 1..(m + 1) : p.content[i] = t.content[i]
  BY <1>1 DEF Same
<1>3. p.content[m + 1] \in OtherBytes /\ t.content[m + 1] \in OtherBytes
  <2>1. m + 1 \in 1..Len(p.content) /\ m + 1 \in 1..(m + 1)
    BY <1>2
  <2>2. p.content[m + 1] \in Byte
    BY <1>1, <2>1, ElementOfSeq DEF Text
  <2> QED
    BY <1>2, <2>1, <2>2 DEF OtherBytes
<1>4. /\ e \in p.offset..Len(p.content) /\ e \in Nat
      /\ \A i \in (p.offset + 1)..e : p.content[i] \notin OtherBytes
  <2>1. p.offset <= Len(p.content)
    BY <1>1
  <2> QED
    BY <1>1, <2>1, FirstFromIs
<1>5. parse_number(p) = Number(p, v)
  BY DEF parse_number
<1> HIDE DEF e
<1>6. s \in Text /\ Len(s) = e - p.offset
  <2>1. \A k \in (p.offset + 1)..e : p.content[k] \in Byte
    BY <1>1, <1>4, ElementOfSeq DEF Text
  <2>2. s \in Seq(Byte) /\ Len(s) = IF p.offset + 1 <= e THEN e - (p.offset + 1) + 1 ELSE 0
    BY <1>1, <1>4, <2>1, SubSeqProperties
  <2> HIDE DEF s
  <2> QED
    BY <1>1, <1>4, <2>2 DEF Text
<1> HIDE DEF s
<1>7. v.taken \in Nat /\ v.taken <= Len(s)
  BY <1>6, StrtodTyped
<1> HIDE DEF v
<1>8. v.taken # 0 /\ m = p.offset + v.taken
  BY <1>5 DEF Number, Refused, Parsed
<1>9. e = m
  <2>1. m <= e /\ p.offset < m
    BY <1>1, <1>4, <1>6, <1>7, <1>8
  <2>2. ~(m < e)
    <3> SUFFICES ASSUME m < e PROVE FALSE
      OBVIOUS
    <3>1. m + 1 \in (p.offset + 1)..e
      BY <1>1, <1>4, <2>1
    <3> QED
      BY <1>3, <1>4, <3>1
  <2> QED
    BY <1>4, <2>1, <2>2
<1>10. FirstFrom(t.content, t.offset, OtherBytes) = m
  <2>1. \A i \in (p.offset + 1)..m : t.content[i] \notin OtherBytes
    <3>1. \A i \in (p.offset + 1)..m : i \in 1..(m + 1)
      BY <1>1
    <3> QED
      BY <1>2, <1>4, <1>9, <3>1
  <2>2. m \in p.offset..Len(t.content) /\ p.offset <= Len(t.content)
    BY <1>1, <1>2, <1>4, <1>9
  <2>3. FirstFrom(t.content, p.offset, OtherBytes) = m
    BY <1>1, <1>3, <2>1, <2>2, FirstFromOnly, SMTT(40)
  <2> QED
    BY <1>1, <2>3
<1>11. SubSeq(t.content, t.offset + 1, m) = s
  <2>1. p.offset + 1 \in Nat /\ p.offset + 1 >= 1 /\ m <= m + 1 /\ m + 1 \in Nat
    BY <1>1
  <2>2. Same(p.content, t.content, m)
    BY <1>1, <2>1, SameLess
  <2> DEFINE a == p.content
             c == t.content
             i == p.offset + 1
  <2>4. a \in Text /\ c \in Text /\ i \in Nat /\ i >= 1 /\ Same(a, c, m)
    BY <1>1, <2>1, <2>2
  <2> HIDE DEF a, c, i
  <2>5. SubSeq(a, i, m) = SubSeq(c, i, m)
    BY <2>4, PartSame
  <2>3. SubSeq(p.content, p.offset + 1, m) = SubSeq(t.content, p.offset + 1, m)
    BY <2>5 DEF a, c, i
  <2> QED
    BY <1>1, <1>9, <2>3 DEF s
<1>12. parse_number(t) = Number(t, v)
  BY <1>10, <1>11 DEF parse_number, v
<1> QED
  BY <1>1, <1>5, <1>8, <1>12 DEF Number

-----------------------------------------------------------------------------
(* What a value is, by its first byte. *)

LEMMA WordsAre ==
  /\ NullWord \in Text /\ NullWord # <<>> /\ NullWord[1] = 110 /\ Len(NullWord) = 4
  /\ FalseWord \in Text /\ FalseWord # <<>> /\ FalseWord[1] = 102 /\ Len(FalseWord) = 5
  /\ TrueWord \in Text /\ TrueWord # <<>> /\ TrueWord[1] = 116 /\ Len(TrueWord) = 4
  BY DEF NullWord, FalseWord, TrueWord, Text, Byte

LEMMA WordStart ==
  ASSUME NEW buf \in parse_buffer, NEW w \in Text, w # <<>>, Word(buf, w)
  PROVE  CanAccess(buf, 0) /\ At(buf, 0) = w[1]
<1> DEFINE a == buf.content
           o == buf.offset
           l == Len(w)
           e == o + l
           s == SubSeq(a, o + 1, e)
<1>1. /\ a \in Text /\ Len(a) \in Nat /\ o \in Nat /\ l \in Nat /\ l >= 1
      /\ e <= Len(a) /\ s = w
  BY BufferTyped, Shorter DEF parse_buffer, Word
<1>2. CanAccess(buf, 0) <=> o + 0 < Len(a)
  BY DEF CanAccess
<1>3. At(buf, 0) = a[o + 0 + 1]
  BY DEF At
<1> HIDE DEF a, o, l
<1>4. e \in Nat /\ o < e /\ o + 1 \in Nat /\ e - (o + 1) + 1 = l
  BY <1>1
<1>5. \A k \in (o + 1)..e : a[k] \in Byte
  <2>1. \A k \in (o + 1)..e : k \in 1..Len(a)
    BY <1>1, <1>4
  <2> QED
    BY <1>1, <2>1, ElementOfSeq DEF Text
<1>6. s[1] = a[o + 1]
  <2>1. \A i \in 1..(e - (o + 1) + 1) : s[i] = a[o + 1 + i - 1]
    BY <1>1, <1>4, <1>5, SubSeqProperties
  <2>2. 1 \in 1..(e - (o + 1) + 1) /\ o + 1 + 1 - 1 = o + 1
    BY <1>1, <1>4
  <2> HIDE DEF s
  <2>3. s[1] = a[o + 1 + 1 - 1]
    BY <2>1, <2>2
  <2> QED
    BY <2>2, <2>3
<1>7. o + 0 = o /\ o < Len(a)
  BY <1>1, <1>4
<1> QED
  BY <1>1, <1>2, <1>3, <1>6, <1>7

LEMMA ValueCases ==
  ASSUME NEW g, NEW buf \in parse_buffer
  PROVE  /\ ~CanAccess(buf, 0) => Value(g, buf) = Refused(buf)
         /\ CanAccess(buf, 0) =>
              /\ At(buf, 0) = Quote => Value(g, buf) = parse_string(buf)
              /\ At(buf, 0) \in Digit \cup {Minus} => Value(g, buf) = parse_number(buf)
              /\ At(buf, 0) = OpenArray => Value(g, buf) = Structure(g, buf, "Array")
              /\ At(buf, 0) = OpenObject => Value(g, buf) = Structure(g, buf, "Object")
              /\ At(buf, 0) = 110 => Value(g, buf) = IF Word(buf, NullWord) THEN Parsed(buf.offset + 4, Typed("NULL"), 0) ELSE Refused(buf)
              /\ At(buf, 0) = 102 => Value(g, buf) = IF Word(buf, FalseWord) THEN Parsed(buf.offset + 5, Typed("False"), 0) ELSE Refused(buf)
              /\ At(buf, 0) = 116 => Value(g, buf) =
                   IF Word(buf, TrueWord) THEN Parsed(buf.offset + 4, [Typed("True") EXCEPT !.int = 1], 0) ELSE Refused(buf)
              /\ At(buf, 0) \notin Digit \cup {Quote, Minus, OpenArray, OpenObject, 110, 102, 116} => Value(g, buf) = Refused(buf)
<1>1. /\ Word(buf, NullWord) => CanAccess(buf, 0) /\ At(buf, 0) = 110
      /\ Word(buf, FalseWord) => CanAccess(buf, 0) /\ At(buf, 0) = 102
      /\ Word(buf, TrueWord) => CanAccess(buf, 0) /\ At(buf, 0) = 116
  BY WordsAre, WordStart
<1>2. CASE ~CanAccess(buf, 0)
  BY <1>1, <1>2 DEF Value
<1>3. CASE CanAccess(buf, 0)
  BY <1>1, <1>3 DEF Value, Quote, Digit, Minus, OpenArray, OpenObject
<1> QED
  BY <1>2, <1>3

Starts == Digit \cup {Quote, Minus, OpenArray, OpenObject, 110, 102, 116}

LEMMA ValueStart ==
  ASSUME NEW g, NEW buf \in parse_buffer, Value(g, buf).ok
  PROVE  CanAccess(buf, 0) /\ At(buf, 0) \in Starts
<1>1. Value(g, buf) # Refused(buf)
  BY DEF Refused
<1>2. CanAccess(buf, 0)
  BY <1>1, ValueCases
<1> QED
  BY <1>1, <1>2, ValueCases DEF Starts

LEMMA StartsInked == Starts \subseteq 33..255 /\ 239 \notin Starts /\ 0 \notin Starts /\ Quote \in Starts
  BY DEF Starts, Digit, Quote, Minus, OpenArray, OpenObject

LEMMA PlaceOf ==
  ASSUME NEW buf \in parse_buffer
  PROVE  /\ <<"Value", buf>> \in Places /\ Parse[<<"Value", buf>>] = Value(Parse, buf)
         /\ Parse[<<"Value", buf>>] \in ValueGood(buf)
         /\ \A kind \in {"Array", "Object"} :
              /\ <<kind, buf>> \in Places /\ Parse[<<kind, buf>>] = Elements(Parse, buf, kind)
              /\ Parse[<<kind, buf>>] \in ListGood(buf)
<1>1. \A k \in Kinds : <<k, buf>> \in Places /\ Parse[<<k, buf>>] = ParseStep(Parse, <<k, buf>>) /\ Parse[<<k, buf>>] \in ParseGood[<<k, buf>>]
  BY ParseUnfold DEF Places
<1>2. "Value" \in Kinds /\ "Array" \in Kinds /\ "Object" \in Kinds
  BY DEF Kinds
<1> QED
  BY <1>1, <1>2 DEF ParseStep, ParseGood

(* A list that was parsed starts with what a value or a name starts with. *)
LEMMA ListStart ==
  ASSUME NEW buf \in parse_buffer, NEW kind \in {"Array", "Object"}, Parse[<<kind, buf>>].ok
  PROVE  Inked(buf)
<1>1. Parse[<<kind, buf>>] = Elements(Parse, buf, kind)
  BY PlaceOf
<1>2. \A s, v : Element(Parse, buf, kind, s, v).ok => v.ok = TRUE \/ v.ok
  BY DEF Element, Only
<1>3. CASE kind = "Array"
  <2>1. Parse[<<"Value", buf>>].ok
    BY <1>1, <1>2, <1>3 DEF Elements
  <2>2. CanAccess(buf, 0) /\ At(buf, 0) \in Starts
    BY <2>1, PlaceOf, ValueStart
  <2> QED
    BY <2>2, StartsInked DEF Inked
<1>4. CASE kind = "Object"
  <2>1. CanAccess(buf, 0) /\ parse_string(buf).ok
    <3>1. ~Only(Refused(buf), Refused(buf), buf.offset).ok
      BY DEF Only, Refused
    <3>2. CanAccess(buf, 0) /\ Member(Parse, buf, parse_string(buf)).ok
      BY <1>1, <1>4, <3>1 DEF Elements
    <3>3. \A s : ~s.ok => ~Member(Parse, buf, s).ok
      BY DEF Member, Only, Refused
    <3> QED
      BY <3>2, <3>3
  <2>2. At(buf, 0) = Quote
    BY <2>1 DEF parse_string, Is, Refused
  <2> QED
    BY <2>1, <2>2, StartsInked DEF Inked
<1> QED
  BY <1>3, <1>4

-----------------------------------------------------------------------------
(* A value is parsed without what is behind it, and so are the elements of  *)
(* an array or object, with what closes it.                                 *)

ValueLocal(p, t) ==
  LET r == Parse[<<"Value", p>>]
  IN  r.ok /\ Alike(p, t, r.off)
      /\ (r.item.type = "Number" => Alike(p, t, r.off + 1) /\ p.content[r.off + 1] \notin NumberBytes)
        => Parse[<<"Value", t>>] = r

ListLocal(kind, p, t) ==
  LET r == Parse[<<kind, p>>]
  IN  r.ok /\ Is(To(p, r.off), Bracket(kind)) /\ Alike(p, t, r.off + 1) => Parse[<<kind, t>>] = r

LEMMA IsAt ==
  ASSUME NEW b \in parse_buffer, NEW o \in Nat, NEW c
  PROVE  /\ Is(To(b, o), c) <=> o < Len(b.content) /\ b.content[o + 1] = c
         /\ Is(b, c) <=> b.offset < Len(b.content) /\ b.content[b.offset + 1] = c
<1>1. /\ To(b, o).content = b.content /\ To(b, o).offset = o /\ b.offset \in Nat
  BY BufferTyped
<1>2. o + 0 = o /\ b.offset + 0 = b.offset
  BY <1>1
<1> QED
  BY <1>1, <1>2 DEF Is, CanAccess, At

LEMMA BracketIs == \A kind \in {"Array", "Object"} : Bracket(kind) \in 33..255 /\ Bracket(kind) \notin NumberBytes /\ Bracket(kind) # 0
  BY DEF Bracket, CloseArray, CloseObject, NumberBytes, Digit, LetterE, Plus, Minus, Point

LEMMA IsInked ==
  ASSUME NEW b, NEW c \in 33..255, Is(b, c)
  PROVE  Inked(b)
  BY DEF Is, Inked

LEMMA WordLocal ==
  ASSUME NEW p, NEW t, NEW w \in Text, w # <<>>, Word(p, w), Alike(p, t, p.offset + Len(w))
  PROVE  Word(t, w)
<1> DEFINE a == p.content
           c == t.content
           o == p.offset
           l == Len(w)
           m == o + l
<1>1. /\ a \in Text /\ c \in Text /\ o \in Nat /\ l \in Nat /\ l >= 1 /\ t.offset = o
      /\ Same(a, c, m) /\ SubSeq(a, o + 1, m) = w
  BY Shorter DEF Alike, parse_buffer, Word
<1>2. Word(t, w) <=> o + l <= Len(c) /\ SubSeq(c, o + 1, m) = w
  BY <1>1 DEF Word
<1> HIDE DEF a, c, o, l
<1>3. m \in Nat /\ o + 1 \in Nat /\ o + 1 >= 1
  BY <1>1
<1>4. SubSeq(a, o + 1, m) = SubSeq(c, o + 1, m)
  <2> DEFINE i == o + 1
             n == m
  <2>1. i \in Nat /\ i >= 1 /\ n \in Nat /\ a \in Text /\ c \in Text /\ Same(a, c, n)
    BY <1>1, <1>3
  <2> HIDE DEF i, n
  <2>2. SubSeq(a, i, n) = SubSeq(c, i, n)
    BY <2>1, PartSame
  <2> QED
    BY <2>2 DEF i, n
<1>5. m <= Len(c)
  BY <1>1 DEF Same
<1> QED
  BY <1>1, <1>2, <1>4, <1>5

LEMMA StructureLocal ==
  ASSUME NEW p, NEW t, NEW kind \in {"Array", "Object"}, Structure(Parse, p, kind).ok,
         Alike(p, t, Structure(Parse, p, kind).off), CanAccess(p, 0),
         \A q, u \in parse_buffer : q.content = p.content /\ p.offset < q.offset => ListLocal(kind, q, u)
  PROVE  /\ Structure(Parse, t, kind) = Structure(Parse, p, kind)
         /\ Structure(Parse, p, kind).item.type = kind
         /\ Structure(Parse, p, kind).off \in Nat /\ Structure(Parse, p, kind).off >= p.offset + 2
         /\ p.content[Structure(Parse, p, kind).off] = Bracket(kind)
<1> DEFINE r == Structure(Parse, p, kind)
           m == r.off
           dp == [p EXCEPT !.depth = @ + 1]
           dt == [t EXCEPT !.depth = @ + 1]
           q == Skip(dp, p.offset + 1)
           u == Skip(dt, t.offset + 1)
           b == Bracket(kind)
<1>1. /\ p \in parse_buffer /\ t \in parse_buffer /\ t.offset = p.offset /\ t.depth = p.depth
      /\ Same(p.content, t.content, m)
      /\ p.offset \in Nat /\ p.depth \in Nat /\ p.offset + 1 \in Nat
      /\ dp \in parse_buffer /\ dt \in parse_buffer
      /\ dp.content = p.content /\ dt.content = t.content /\ dp.offset = p.offset /\ dt.offset = p.offset
      /\ dp.depth = dt.depth
  BY DEF Alike, parse_buffer
<1>2. /\ q \in parse_buffer /\ q.content = p.content /\ q.offset >= p.offset + 1 /\ q.offset \in Nat
      /\ u \in parse_buffer
  <2> HIDE DEF dp, dt
  <2>1. q \in parse_buffer /\ q.content = dp.content /\ q.offset >= p.offset + 1 /\ u \in parse_buffer
    BY <1>1, SkipIs
  <2>2. q.offset \in Nat
    BY <2>1, BufferTyped
  <2> QED
    BY <1>1, <2>1, <2>2
<1>3. /\ r = IF p.depth >= NESTING_LIMIT \/ ~CanAccess(q, 0) THEN Refused(p)
             ELSE IF Is(q, b) THEN Parsed(q.offset + 1, Typed(kind), 0)
             ELSE Close(p, kind, Parse[<<kind, q>>])
      /\ Structure(Parse, t, kind) =
           IF t.depth >= NESTING_LIMIT \/ ~CanAccess(u, 0) THEN Refused(t)
           ELSE IF Is(u, b) THEN Parsed(u.offset + 1, Typed(kind), 0)
           ELSE Close(t, kind, Parse[<<kind, u>>])
  BY DEF Structure
<1>4. b \in 33..255
  BY BracketIs
<1>5. r.ok /\ m = r.off
  OBVIOUS
<1>6. ASSUME NEW n \in Nat, n = m, Inked(q), q.offset + 1 <= n
      PROVE  Alike(q, u, n) /\ CanAccess(u, 0) /\ At(u, 0) = At(q, 0) /\ u.offset = q.offset
  <2>1. Alike(dp, dt, n)
    BY <1>1, <1>6 DEF Alike
  <2>2. Alike(q, u, n) /\ Inked(u) /\ At(u, 0) = At(q, 0)
    <3>1. u = Skip(dt, p.offset + 1)
      BY <1>1
    <3> HIDE DEF u, dp, dt, m
    <3> QED
      BY <1>1, <1>6, <2>1, <3>1, SkipLocal
  <2> HIDE DEF q, u
  <2> QED
    BY <2>2 DEF Alike, Inked
<1> HIDE DEF q, u, r, m, dp, dt, b
<1>7. ~(p.depth >= NESTING_LIMIT) /\ CanAccess(q, 0) /\ ~(t.depth >= NESTING_LIMIT)
  BY <1>1, <1>3, <1>5 DEF Refused
<1>8. CASE Is(q, b)
  <2>1. r = Parsed(q.offset + 1, Typed(kind), 0)
    BY <1>3, <1>7, <1>8
  <2>2. m = q.offset + 1
    BY <1>5, <2>1 DEF Parsed
  <2>3. Inked(q)
    BY <1>4, <1>8, IsInked
  <2>4. m \in Nat /\ q.offset + 1 <= m
    BY <1>2, <2>2
  <2>5. CanAccess(u, 0) /\ At(u, 0) = At(q, 0) /\ u.offset = q.offset
    BY <1>6, <2>3, <2>4
  <2>6. Is(u, b)
    BY <1>8, <2>5 DEF Is
  <2>7. Structure(Parse, t, kind) = r
    BY <1>3, <1>7, <2>1, <2>5, <2>6
  <2>8. r.item.type = kind
    BY <2>1 DEF Parsed, Typed, cJSON_New_Item
  <2>9. p.content[m] = b
    BY <1>2, <1>8, <2>2, IsAt
  <2>10. m >= p.offset + 2
    BY <1>1, <1>2, <2>2
  <2> QED
    BY <2>4, <2>7, <2>8, <2>9, <2>10 DEF r, m, b
<1>9. CASE ~Is(q, b)
  <2> DEFINE l == Parse[<<kind, q>>]
  <2>1. r = Close(p, kind, l)
    BY <1>3, <1>7, <1>9
  <2>2. l.off \in Nat /\ (l.ok => q.offset <= l.off)
    <3>1. l \in ListGood(q)
      BY <1>2, PlaceOf
    <3> QED
      BY <3>1 DEF ListGood, Lists
  <2>3. l.ok /\ Is(To(p, l.off), b)
    <3> HIDE DEF l
    <3> QED
      BY <1>5, <2>1 DEF Close, Failed, b
  <2>4. Inked(q)
    BY <1>2, <2>3, ListStart
  <2> HIDE DEF l
  <2>5. r = Filled(kind, l)
    BY <2>1, <2>3 DEF Close, b
  <2>6. m = l.off + 1
    BY <1>5, <2>5 DEF Filled
  <2>7. m \in Nat /\ q.offset + 1 <= m
    BY <1>2, <2>2, <2>3, <2>6
  <2>8. Alike(q, u, m) /\ CanAccess(u, 0) /\ At(u, 0) = At(q, 0)
    BY <1>6, <2>4, <2>7
  <2>9. ~Is(u, b)
    BY <1>7, <1>9, <2>8 DEF Is
  <2>10. l.off < Len(p.content) /\ p.content[l.off + 1] = b
    BY <1>1, <2>2, <2>3, IsAt
  <2>11. Is(To(q, l.off), b)
    BY <1>2, <2>2, <2>10, IsAt
  <2>12. Parse[<<kind, u>>] = l
    <3>1. p.offset < q.offset
      BY <1>1, <1>2
    <3>2. ListLocal(kind, q, u)
      BY <1>2, <3>1
    <3>3. Alike(q, u, l.off + 1)
      BY <2>6, <2>8
    <3> QED
      BY <2>3, <2>11, <3>2, <3>3 DEF ListLocal, l, b
  <2>13. Is(To(t, l.off), b)
    <3>1. m <= Len(t.content) /\ m \in 1..m
      BY <1>1, <2>2, <2>6 DEF Same
    <3>2. p.content[m] = t.content[m]
      BY <1>1, <3>1 DEF Same
    <3>3. Len(t.content) \in Nat
      BY <1>1, <2>2, BufferTyped
    <3>4. l.off < Len(t.content)
      BY <2>2, <2>6, <3>1, <3>3
    <3> QED
      BY <1>1, <2>2, <2>6, <2>10, <3>2, <3>4, IsAt
  <2>14. Structure(Parse, t, kind) = r
    <3>1. Structure(Parse, t, kind) = Close(t, kind, l)
      BY <1>3, <1>7, <2>8, <2>9, <2>12
    <3>2. Close(t, kind, l) = Filled(kind, l)
      BY <2>3, <2>13 DEF Close, b
    <3> QED
      BY <2>5, <3>1, <3>2
  <2>15. r.item.type = kind
    BY <2>5 DEF Filled, Typed, cJSON_New_Item
  <2>16. m >= p.offset + 2
    BY <1>1, <1>2, <2>7
  <2> QED
    BY <2>6, <2>7, <2>10, <2>14, <2>15, <2>16 DEF r, m, b
<1> QED
  BY <1>8, <1>9

(* What is behind a value: a byte that is part of no number, and all of it  *)
(* before m.                                                                *)
Ended(p, v, m) == v.ok /\ v.off + 1 <= m /\ p.content[v.off + 1] \notin NumberBytes

LEMMA BlankBehind ==
  ASSUME NEW p \in parse_buffer, NEW o \in Nat, NEW c \in 33..255, c \notin NumberBytes, Is(Skip(p, o), c)
  PROVE  p.content[o + 1] \notin NumberBytes /\ o <= Skip(p, o).offset /\ Inked(Skip(p, o))
<1> DEFINE e == Skip(p, o).offset
<1>1. Inked(Skip(p, o))
  BY IsInked
<1>2. /\ e \in Nat /\ o <= e
      /\ \A i \in (o + 1)..e : p.content[i] \notin 33..255
  BY <1>1, SkipInked
<1>3. p.content[e + 1] = c
  <2>1. Skip(p, o) \in parse_buffer /\ Skip(p, o).content = p.content
    BY SkipIs
  <2> QED
    BY <2>1, IsAt
<1>4. NumberBytes \subseteq 33..255
  BY DEF NumberBytes, Digit, LetterE, Plus, Minus, Point
<1> HIDE DEF e
<1>5. CASE o = e
  BY <1>1, <1>2, <1>3, <1>5 DEF e
<1>6. CASE o # e
  <2>1. o + 1 \in (o + 1)..e
    BY <1>2, <1>6
  <2>2. p.content[o + 1] \notin NumberBytes
    BY <1>2, <1>4, <2>1
  <2> QED
    BY <1>1, <1>2, <2>2 DEF e
<1> QED
  BY <1>5, <1>6

LEMMA CommaIs == Comma \in 33..255 /\ Comma \notin NumberBytes /\ Colon \in 33..255
  BY DEF Comma, Colon, NumberBytes, Digit, LetterE, Plus, Minus, Point

(* The elements from p on end at m, and those behind the first are local. *)
Closed(p, t, kind, s, v, m) ==
  /\ v.off \in Nat /\ p.offset < v.off
  /\ m \in Nat /\ Element(Parse, p, kind, s, v).off + 1 = m
  /\ Element(Parse, p, kind, s, v).ok /\ Is(To(p, Element(Parse, p, kind, s, v).off), Bracket(kind))
  /\ Alike(p, t, m) /\ Element(Parse, p, kind, s, v).off \in Nat
  /\ \A q, u \in parse_buffer : q.content = p.content /\ p.offset < q.offset => ListLocal(kind, q, u)

LEMMA ElementLocal ==
  ASSUME NEW p, NEW t, NEW kind \in {"Array", "Object"}, NEW s, NEW v, NEW m, Closed(p, t, kind, s, v, m)
  PROVE  Element(Parse, t, kind, s, v) = Element(Parse, p, kind, s, v) /\ Ended(p, v, m)
<1> USE DEF Closed
<1> DEFINE r == Element(Parse, p, kind, s, v)
           q == Skip(p, v.off)
           u == Skip(t, v.off)
           b == Bracket(kind)
<1>1. /\ p \in parse_buffer /\ t \in parse_buffer /\ t.offset = p.offset
      /\ p.offset \in Nat
  BY DEF Alike, parse_buffer
<1>2. /\ q \in parse_buffer /\ q.content = p.content /\ q.offset >= v.off /\ q.offset \in Nat /\ q.offset + 1 \in Nat
      /\ u \in parse_buffer /\ u.content = t.content
  <2>1. q \in parse_buffer /\ q.content = p.content /\ q.offset >= v.off /\ u \in parse_buffer /\ u.content = t.content
    BY <1>1, SkipIs
  <2>2. q.offset \in Nat
    BY <2>1, BufferTyped
  <2> QED
    BY <2>1, <2>2
<1>3. r.ok /\ r.off + 1 = m /\ r.off \in Nat /\ Is(To(p, r.off), b)
  OBVIOUS
<1>4. ASSUME Inked(q), q.offset + 1 <= m
      PROVE  Alike(q, u, m) /\ CanAccess(u, 0) /\ At(u, 0) = At(q, 0) /\ u.offset = q.offset
  <2>1. Alike(q, u, m) /\ Inked(u) /\ At(u, 0) = At(q, 0)
    BY <1>1, <1>4, SkipLocal
  <2> HIDE DEF q, u
  <2> QED
    BY <2>1 DEF Alike, Inked
<1>5. r = IF v.ok /\ Is(q, Comma) THEN Joined(Only(s, v, q.offset), Parse[<<kind, Skip(p, q.offset + 1)>>])
          ELSE Only(s, v, q.offset)
  BY DEF Element
<1>6. Element(Parse, t, kind, s, v) =
        IF v.ok /\ Is(u, Comma) THEN Joined(Only(s, v, u.offset), Parse[<<kind, Skip(t, u.offset + 1)>>])
        ELSE Only(s, v, u.offset)
  BY DEF Element
<1>7. b \in 33..255 /\ b \notin NumberBytes
  BY BracketIs
<1>8. \A c \in 33..255 : c \notin NumberBytes /\ Is(q, c) => p.content[v.off + 1] \notin NumberBytes /\ Inked(q)
  BY <1>1, BlankBehind
<1> HIDE DEF r, q, u, b
<1>9. CASE v.ok /\ Is(q, Comma)
  <2> DEFINE n == Skip(p, q.offset + 1)
             k == Skip(t, q.offset + 1)
             l == Parse[<<kind, n>>]
             e == Only(s, v, q.offset)
  <2>1. Inked(q) /\ p.content[v.off + 1] \notin NumberBytes
    BY <1>8, <1>9, CommaIs
  <2>2. r = Joined(e, l)
    BY <1>5, <1>9
  <2>3. /\ n \in parse_buffer /\ n.content = p.content /\ n.offset >= q.offset + 1 /\ k \in parse_buffer
    BY <1>1, <1>2, SkipIs
  <2>4. n.offset \in Nat
    <3> HIDE DEF n
    <3> QED
      BY <2>3, BufferTyped
  <2>5. l \in ListGood(n)
    <3> HIDE DEF n
    <3> QED
      BY <2>3, PlaceOf
  <2>6. l.ok /\ l.off = r.off
    <3> HIDE DEF l, e
    <3> QED
      BY <1>3, <2>2 DEF Joined
  <2>7. n.offset <= l.off
    BY <2>5, <2>6 DEF ListGood
  <2>8. n.offset + 1 <= m /\ q.offset + 1 <= m /\ v.off + 1 <= m /\ p.offset < n.offset
    <3> HIDE DEF n, l
    <3> QED
      BY <1>1, <1>2, <1>3, <2>3, <2>4, <2>6, <2>7
  <2>9. Inked(n)
    <3> HIDE DEF n
    <3> QED
      BY <2>3, <2>6, ListStart DEF l
  <2>10. CanAccess(u, 0) /\ At(u, 0) = At(q, 0) /\ u.offset = q.offset
    BY <1>4, <2>1, <2>8
  <2>11. Is(u, Comma)
    BY <1>9, <2>10 DEF Is
  <2>12. Alike(n, k, m)
    BY <1>1, <1>2, <2>8, <2>9, SkipLocal
  <2> HIDE DEF n, k, l, e
  <2>13. Parse[<<kind, k>>] = l
    <3>1. ListLocal(kind, n, k)
      BY <2>3, <2>8
    <3>2. Is(To(n, l.off), b)
      <4>1. r.off < Len(p.content) /\ p.content[r.off + 1] = b
        BY <1>1, <1>3, IsAt
      <4> QED
        BY <1>3, <2>3, <2>6, <4>1, IsAt
    <3>3. Alike(n, k, l.off + 1)
      BY <1>3, <2>6, <2>12
    <3> QED
      BY <2>6, <3>1, <3>2, <3>3 DEF ListLocal, l, b
  <2>14. Element(Parse, t, kind, s, v) = Joined(e, l)
    BY <1>6, <1>9, <2>10, <2>11, <2>13 DEF e, k
  <2> QED
    BY <1>9, <2>1, <2>2, <2>8, <2>14 DEF Ended, r
<1>10. CASE ~(v.ok /\ Is(q, Comma))
  <2>1. r = Only(s, v, q.offset)
    BY <1>5, <1>10
  <2>2. v.ok /\ r.off = q.offset
    BY <1>3, <2>1 DEF Only
  <2>3. Is(q, b)
    <3>1. r.off < Len(p.content) /\ p.content[r.off + 1] = b
      BY <1>1, <1>3, IsAt
    <3> QED
      BY <1>2, <2>2, <3>1, IsAt
  <2>4. Inked(q) /\ p.content[v.off + 1] \notin NumberBytes
    BY <1>7, <1>8, <2>3
  <2>5. q.offset + 1 <= m /\ v.off + 1 <= m
    BY <1>2, <1>3, <2>2
  <2>6. CanAccess(u, 0) /\ At(u, 0) = At(q, 0) /\ u.offset = q.offset
    BY <1>4, <2>4, <2>5
  <2>7. ~Is(u, Comma)
    BY <1>10, <2>2, <2>4, <2>6 DEF Is, Inked
  <2>8. Element(Parse, t, kind, s, v) = r
    BY <1>6, <2>1, <2>6, <2>7
  <2> QED
    BY <2>2, <2>4, <2>5, <2>8 DEF Ended, r
<1> QED
  BY <1>9, <1>10

LocalAt(x) ==
  \A t \in parse_buffer : IF x[1] = "Value" THEN ValueLocal(x[2], t) ELSE ListLocal(x[1], x[2], t)

LocalBelow(x) == \A y \in Places : ParseRank[y] < ParseRank[x] => LocalAt(y)

LEMMA LocalBehind ==
  ASSUME NEW p \in parse_buffer, CanAccess(p, 0), NEW k \in Kinds, LocalBelow(<<k, p>>),
         NEW q \in parse_buffer, NEW u \in parse_buffer, q.content = p.content, p.offset < q.offset
  PROVE  ValueLocal(q, u) /\ \A kind \in {"Array", "Object"} : ListLocal(kind, q, u)
<1>1. p.offset < Len(p.content)
  <2>1. 0 \in Nat
    OBVIOUS
  <2> QED
    BY <2>1, BufferTyped
<1>2. ASSUME NEW j \in Kinds PROVE LocalAt(<<j, q>>)
  <2>1. <<j, q>> \in Places
    BY DEF Places
  <2>2. ParseRank[<<j, q>>] < ParseRank[<<k, p>>]
    BY <1>1, RankBehind
  <2> QED
    BY <2>1, <2>2 DEF LocalBelow
<1>3. "Value" \in Kinds /\ "Array" \in Kinds /\ "Object" \in Kinds
  BY DEF Kinds
<1>4. ValueLocal(q, u)
  BY <1>2, <1>3 DEF LocalAt
<1>5. \A kind \in {"Array", "Object"} : ListLocal(kind, q, u)
  BY <1>2, <1>3 DEF LocalAt
<1> QED
  BY <1>4, <1>5

(* A value ends behind where it begins. *)
LEMMA ValueBounds ==
  ASSUME NEW p \in parse_buffer, Parse[<<"Value", p>>].ok
  PROVE  LET v == Parse[<<"Value", p>>]
         IN  /\ v.off \in Nat /\ p.offset < v.off /\ v.off <= Len(p.content) /\ p.offset \in Nat
             /\ CanAccess(p, 0) /\ At(p, 0) \in Starts /\ Inked(p)
<1> DEFINE v == Parse[<<"Value", p>>]
<1>1. v \in ValueGood(p) /\ v = Value(Parse, p) /\ v.ok
  BY PlaceOf
<1>2. v.off \in Nat /\ p.offset < v.off /\ v.off <= Len(p.content)
  BY <1>1 DEF ValueGood, Values
<1>3. CanAccess(p, 0) /\ At(p, 0) \in Starts
  BY <1>1, ValueStart
<1> QED
  BY <1>2, <1>3, StartsInked DEF Inked, parse_buffer

(* Of the value of an element. *)
LEMMA ValueOfElement ==
  ASSUME NEW p, NEW t, NEW vb \in parse_buffer, NEW vt \in parse_buffer, vb.content = p.content,
         NEW m \in Nat, Alike(vb, vt, m), Ended(p, Parse[<<"Value", vb>>], m), ValueLocal(vb, vt)
  PROVE  Parse[<<"Value", vt>>] = Parse[<<"Value", vb>>]
<1> DEFINE v == Parse[<<"Value", vb>>]
<1>1. v.ok /\ v.off \in Nat /\ v.off + 1 <= m /\ vb.content[v.off + 1] \notin NumberBytes
  BY ValueBounds DEF Ended
<1> HIDE DEF v
<1>2. v.off + 1 \in Nat /\ v.off <= m
  BY <1>1
<1>3. Alike(vb, vt, v.off) /\ Alike(vb, vt, v.off + 1)
  BY <1>1, <1>2, AlikeLess
<1> QED
  BY <1>1, <1>3 DEF ValueLocal, v

LEMMA ArrayLocal ==
  ASSUME NEW p \in parse_buffer, NEW t \in parse_buffer, LocalBelow(<<"Array", p>>)
  PROVE  ListLocal("Array", p, t)
<1> DEFINE r == Parse[<<"Array", p>>]
           v == Parse[<<"Value", p>>]
           m == r.off + 1
<1> SUFFICES ASSUME r.ok, Is(To(p, r.off), Bracket("Array")), Alike(p, t, m)
             PROVE  Parse[<<"Array", t>>] = r
  BY DEF ListLocal
<1>1. /\ r = Element(Parse, p, "Array", Refused(p), v)
      /\ Parse[<<"Array", t>>] = Element(Parse, t, "Array", Refused(t), Parse[<<"Value", t>>])
  BY PlaceOf DEF Elements
<1>2. r.off \in Nat
  <2>1. r \in ListGood(p)
    BY PlaceOf
  <2> QED
    BY <2>1 DEF ListGood, Lists
<1>3. v.ok
  <2>1. \A s : Element(Parse, p, "Array", s, v).ok => v.ok
    BY DEF Element, Only
  <2> QED
    BY <1>1, <2>1
<1>4. v.off \in Nat /\ p.offset < v.off /\ CanAccess(p, 0)
  BY <1>3, ValueBounds
<1>5. \A q, u \in parse_buffer : q.content = p.content /\ p.offset < q.offset => ListLocal("Array", q, u)
  <2>1. "Array" \in Kinds
    BY DEF Kinds
  <2> QED
    BY <1>4, <2>1, LocalBehind
<1>6. m \in Nat
  BY <1>2
<1>7. Element(Parse, t, "Array", Refused(p), v) = r /\ Ended(p, v, m)
  <2> DEFINE s == Refused(p)
  <2>1. /\ v.off \in Nat /\ p.offset < v.off /\ m \in Nat /\ Element(Parse, p, "Array", s, v).off + 1 = m
        /\ Element(Parse, p, "Array", s, v).ok /\ Is(To(p, Element(Parse, p, "Array", s, v).off), Bracket("Array"))
        /\ Alike(p, t, m) /\ Element(Parse, p, "Array", s, v).off \in Nat
        /\ r = Element(Parse, p, "Array", s, v)
    BY <1>1, <1>2, <1>4, <1>6
  <2> HIDE DEF s, v, m, r
  <2>2. Closed(p, t, "Array", s, v, m)
    BY <1>5, <2>1 DEF Closed
  <2>3. Element(Parse, t, "Array", s, v) = Element(Parse, p, "Array", s, v) /\ Ended(p, v, m)
    BY <2>2, ElementLocal
  <2> QED
    BY <2>1, <2>3 DEF s
<1>8. ValueLocal(p, t)
  <2>1. <<"Value", p>> \in Places /\ ParseRank[<<"Value", p>>] < ParseRank[<<"Array", p>>]
    BY PlaceOf, RankValue
  <2>2. LocalAt(<<"Value", p>>)
    BY <2>1 DEF LocalBelow
  <2> QED
    BY <2>2 DEF LocalAt
<1>9. Parse[<<"Value", t>>] = v
  <2> HIDE DEF m
  <2> QED
    BY <1>6, <1>7, <1>8, ValueOfElement
<1>10. Refused(t) = Refused(p)
  BY DEF Alike, Refused
<1> HIDE DEF v, r
<1> QED
  BY <1>1, <1>7, <1>9, <1>10

LEMMA ObjectLocal ==
  ASSUME NEW p \in parse_buffer, NEW t \in parse_buffer, LocalBelow(<<"Object", p>>)
  PROVE  ListLocal("Object", p, t)
<1> DEFINE r == Parse[<<"Object", p>>]
           s == parse_string(p)
           cb == Skip(p, s.off)
           ct == Skip(t, s.off)
           vb == Skip(p, cb.offset + 1)
           vt == Skip(t, cb.offset + 1)
           v == Parse[<<"Value", vb>>]
           m == r.off + 1
<1> SUFFICES ASSUME r.ok, Is(To(p, r.off), Bracket("Object")), Alike(p, t, m)
             PROVE  Parse[<<"Object", t>>] = r
  BY DEF ListLocal
<1>1. r.off \in Nat /\ m \in Nat
  <2>1. r \in ListGood(p)
    BY PlaceOf
  <2> HIDE DEF r
  <2>2. r.off \in Nat
    BY <2>1 DEF ListGood, Lists
  <2> QED
    BY <2>2
<1>2. /\ CanAccess(p, 0) /\ r = Member(Parse, p, s)
      /\ Parse[<<"Object", t>>] = IF CanAccess(t, 0) THEN Member(Parse, t, parse_string(t)) ELSE Only(Refused(t), Refused(t), t.offset)
  <2>1. ~Only(Refused(p), Refused(p), p.offset).ok
    BY DEF Only, Refused
  <2>2. r = IF CanAccess(p, 0) THEN Member(Parse, p, s) ELSE Only(Refused(p), Refused(p), p.offset)
    BY PlaceOf DEF Elements
  <2> QED
    BY <2>1, <2>2, PlaceOf DEF Elements
<1>3. s.ok /\ Is(cb, Colon) /\ r = Element(Parse, p, "Object", s, v)
  <2>1. ~Only(s, Refused(cb), cb.offset).ok
    BY DEF Only, Refused
  <2> QED
    BY <1>2, <2>1 DEF Member
<1>4. v.ok
  <2> HIDE DEF v, s
  <2>1. Element(Parse, p, "Object", s, v).ok => v.ok
    BY DEF Element, Only
  <2> QED
    BY <1>3, <2>1
<1>5. s.off \in Nat /\ p.offset < s.off /\ p.offset \in Nat
  <2>1. \E x \in Text : \E n \in Nat : p.offset + 2 <= n /\ s = Parsed(n, StringItem(x), 1)
    <3>1. s # Refused(p)
      BY <1>3 DEF Refused
    <3> QED
      BY <1>2, <3>1, ParseString
  <2>2. p.offset \in Nat
    BY DEF parse_buffer
  <2> QED
    BY <2>1, <2>2 DEF Parsed
<1>6. cb \in parse_buffer /\ cb.content = p.content /\ s.off <= cb.offset /\ cb.offset \in Nat /\ cb.offset + 1 \in Nat
  <2> HIDE DEF s
  <2>1. cb \in parse_buffer /\ cb.content = p.content /\ cb.offset >= s.off
    BY <1>5, SkipIs
  <2>2. cb.offset \in Nat
    BY <2>1, BufferTyped
  <2> QED
    BY <1>5, <2>1, <2>2
<1>7. vb \in parse_buffer /\ vb.content = p.content /\ vb.offset >= cb.offset + 1 /\ vt \in parse_buffer
  <2> HIDE DEF cb
  <2> QED
    BY <1>6, SkipIs
<1>8. v.off \in Nat /\ vb.offset < v.off /\ vb.offset \in Nat /\ Inked(vb)
  <2> HIDE DEF vb
  <2> QED
    BY <1>4, <1>7, ValueBounds
<1> HIDE DEF r, s, cb, ct, vb, vt, v, m
<1>9. p.offset < v.off /\ p.offset < vb.offset
  BY <1>5, <1>6, <1>7, <1>8
<1>10. \A q, u \in parse_buffer : q.content = p.content /\ p.offset < q.offset => ListLocal("Object", q, u) /\ ValueLocal(q, u)
  <2>1. "Object" \in Kinds
    BY DEF Kinds
  <2> QED
    BY <1>2, <2>1, LocalBehind
<1>11. Element(Parse, t, "Object", s, v) = r /\ Ended(p, v, m)
  <2>1. /\ Element(Parse, p, "Object", s, v).off + 1 = m
        /\ Element(Parse, p, "Object", s, v).ok /\ Is(To(p, Element(Parse, p, "Object", s, v).off), Bracket("Object"))
        /\ Element(Parse, p, "Object", s, v).off \in Nat
    BY <1>1, <1>3 DEF m
  <2>2. \A q, u \in parse_buffer : q.content = p.content /\ p.offset < q.offset => ListLocal("Object", q, u)
    BY <1>10
  <2>3. v.off \in Nat /\ p.offset < v.off /\ m \in Nat /\ Alike(p, t, m)
    BY <1>1, <1>8, <1>9
  <2>4. Closed(p, t, "Object", s, v, m)
    BY <2>1, <2>2, <2>3 DEF Closed
  <2>5. Element(Parse, t, "Object", s, v) = Element(Parse, p, "Object", s, v) /\ Ended(p, v, m)
    BY <2>4, ElementLocal
  <2> QED
    BY <1>3, <2>5
<1>12. v.off + 1 <= m /\ vb.offset + 1 <= m /\ cb.offset + 1 <= m /\ s.off <= m /\ p.offset < m
  <2>1. v.off + 1 <= m
    BY <1>11 DEF Ended
  <2> QED
    BY <1>1, <1>5, <1>6, <1>7, <1>8, <2>1
<1>13. CanAccess(t, 0) /\ parse_string(t) = s
  <2>1. Alike(p, t, s.off)
    BY <1>1, <1>5, <1>12, AlikeLess
  <2>2. parse_string(t) = s
    BY <1>2, <1>3, <2>1, StringLocal DEF s
  <2> QED
    BY <1>1, <1>12, <2>2, SameByte
<1>14. Inked(cb)
  BY <1>3, CommaIs, IsInked
<1>15. CanAccess(ct, 0) /\ At(ct, 0) = At(cb, 0) /\ ct.offset = cb.offset
  <2>1. Alike(cb, ct, m) /\ Inked(ct) /\ At(ct, 0) = At(cb, 0)
    BY <1>1, <1>5, <1>12, <1>14, SkipLocal DEF cb, ct
  <2> QED
    BY <2>1 DEF Alike, Inked
<1>16. Is(ct, Colon)
  BY <1>3, <1>15 DEF Is
<1>17. Alike(vb, vt, m)
  BY <1>1, <1>6, <1>8, <1>12, SkipLocal DEF vb, vt
<1>18. Parse[<<"Value", vt>>] = v
  <2>1. ValueLocal(vb, vt)
    BY <1>7, <1>9, <1>10
  <2> QED
    BY <1>1, <1>7, <1>11, <1>17, <2>1, ValueOfElement DEF v
<1>19. Parse[<<"Object", t>>] = Member(Parse, t, s)
  BY <1>2, <1>13
<1>20. Member(Parse, t, s) = Element(Parse, t, "Object", s, v)
  BY <1>3, <1>15, <1>16, <1>18 DEF Member, ct, vt
<1> QED
  BY <1>11, <1>19, <1>20 DEF r

-----------------------------------------------------------------------------
(* Every value and every list is local. *)

(* One of the three words. *)
IsWord(p, w, n, item, r) ==
  /\ w \in Text /\ w # <<>> /\ Len(w) = n
  /\ r = IF Word(p, w) THEN Parsed(p.offset + n, item, 0) ELSE Refused(p)

LEMMA WordAt ==
  ASSUME NEW p, NEW t, NEW w, NEW n, NEW item, NEW r, r.ok, IsWord(p, w, n, item, r), Alike(p, t, r.off)
  PROVE  IsWord(t, w, n, item, r)
<1> USE DEF IsWord
<1>1. Word(p, w) /\ r = Parsed(p.offset + n, item, 0)
  BY DEF Refused
<1>2. r.off = p.offset + Len(w)
  BY <1>1 DEF Parsed
<1>3. Word(t, w)
  BY <1>1, <1>2, WordLocal
<1>4. t.offset = p.offset
  BY DEF Alike
<1> QED
  BY <1>1, <1>3, <1>4

LEMMA StructureAt ==
  ASSUME NEW p \in parse_buffer, NEW t \in parse_buffer, LocalBelow(<<"Value", p>>), CanAccess(p, 0),
         NEW kind \in {"Array", "Object"}, Structure(Parse, p, kind).ok, Alike(p, t, Structure(Parse, p, kind).off)
  PROVE  Structure(Parse, t, kind) = Structure(Parse, p, kind)
<1>1. "Value" \in Kinds
  BY DEF Kinds
<1>2. \A q, u \in parse_buffer : q.content = p.content /\ p.offset < q.offset => ListLocal(kind, q, u)
  BY <1>1, LocalBehind
<1> QED
  BY <1>2, StructureLocal

LEMMA ValueAt ==
  ASSUME NEW p \in parse_buffer, NEW t \in parse_buffer, LocalBelow(<<"Value", p>>)
  PROVE  ValueLocal(p, t)
<1> DEFINE r == Parse[<<"Value", p>>]
           c == At(p, 0)
<1> SUFFICES ASSUME r.ok, Alike(p, t, r.off),
                    r.item.type = "Number" => Alike(p, t, r.off + 1) /\ p.content[r.off + 1] \notin NumberBytes
             PROVE  Parse[<<"Value", t>>] = r
  BY DEF ValueLocal
<1>1. r = Value(Parse, p) /\ Parse[<<"Value", t>>] = Value(Parse, t)
  BY PlaceOf
<1>2. r.off \in Nat /\ p.offset < r.off /\ CanAccess(p, 0) /\ c \in Starts
  BY ValueBounds
<1> HIDE DEF r
<1>3. CanAccess(t, 0) /\ At(t, 0) = c /\ t.offset = p.offset
  <2>1. t.offset = p.offset
    BY DEF Alike
  <2> QED
    BY <1>2, <2>1, SameByte
<1> HIDE DEF c
<1>4. CASE c = Quote
  <2>1. r = parse_string(p) /\ Value(Parse, t) = parse_string(t)
    BY <1>1, <1>2, <1>3, <1>4, ValueCases DEF c
  <2> QED
    BY <1>1, <1>2, <2>1, StringLocal
<1>5. CASE c \in Digit \cup {Minus}
  <2>1. r = parse_number(p) /\ Value(Parse, t) = parse_number(t)
    BY <1>1, <1>2, <1>3, <1>5, ValueCases DEF c
  <2>2. r.item.type = "Number"
    <3>1. r # Refused(p)
      BY DEF Refused
    <3>2. PICK k \in Int, n \in Nat : r = Parsed(n, NumberItem(k), 0)
      BY <1>2, <2>1, <3>1, ParseNumber
    <3> QED
      BY <3>2 DEF Parsed, NumberItem, Typed, cJSON_New_Item
  <2>3. Alike(p, t, r.off + 1) /\ p.content[r.off + 1] \notin NumberBytes
    BY <2>2
  <2> QED
    BY <1>1, <1>2, <2>1, <2>3, NumberLocal
<1>6. CASE c = OpenArray
  <2>1. r = Structure(Parse, p, "Array") /\ Value(Parse, t) = Structure(Parse, t, "Array")
    BY <1>1, <1>2, <1>3, <1>6, ValueCases DEF c
  <2> QED
    BY <1>1, <1>2, <2>1, StructureAt
<1>7. CASE c = OpenObject
  <2>1. r = Structure(Parse, p, "Object") /\ Value(Parse, t) = Structure(Parse, t, "Object")
    BY <1>1, <1>2, <1>3, <1>7, ValueCases DEF c
  <2> QED
    BY <1>1, <1>2, <2>1, StructureAt
<1>8. CASE c = 110
  <2> DEFINE n == 4
             item == Typed("NULL")
  <2>1. /\ r = IF Word(p, NullWord) THEN Parsed(p.offset + n, item, 0) ELSE Refused(p)
        /\ Value(Parse, t) = IF Word(t, NullWord) THEN Parsed(t.offset + n, item, 0) ELSE Refused(t)
    BY <1>1, <1>2, <1>3, <1>8, ValueCases DEF c
  <2>2. NullWord \in Text /\ NullWord # <<>> /\ Len(NullWord) = n
    BY WordsAre
  <2> HIDE DEF n, item
  <2>3. IsWord(p, NullWord, n, item, r)
    BY <2>1, <2>2 DEF IsWord
  <2>4. IsWord(t, NullWord, n, item, r)
    BY <2>3, WordAt
  <2> QED
    BY <1>1, <2>1, <2>4 DEF IsWord
<1>9. CASE c = 102
  <2> DEFINE n == 5
             item == Typed("False")
  <2>1. /\ r = IF Word(p, FalseWord) THEN Parsed(p.offset + n, item, 0) ELSE Refused(p)
        /\ Value(Parse, t) = IF Word(t, FalseWord) THEN Parsed(t.offset + n, item, 0) ELSE Refused(t)
    BY <1>1, <1>2, <1>3, <1>9, ValueCases DEF c
  <2>2. FalseWord \in Text /\ FalseWord # <<>> /\ Len(FalseWord) = n
    BY WordsAre
  <2> HIDE DEF n, item
  <2>3. IsWord(p, FalseWord, n, item, r)
    BY <2>1, <2>2 DEF IsWord
  <2>4. IsWord(t, FalseWord, n, item, r)
    BY <2>3, WordAt
  <2> QED
    BY <1>1, <2>1, <2>4 DEF IsWord
<1>10. CASE c = 116
  <2> DEFINE n == 4
             item == [Typed("True") EXCEPT !.int = 1]
  <2>1. /\ r = IF Word(p, TrueWord) THEN Parsed(p.offset + n, item, 0) ELSE Refused(p)
        /\ Value(Parse, t) = IF Word(t, TrueWord) THEN Parsed(t.offset + n, item, 0) ELSE Refused(t)
    BY <1>1, <1>2, <1>3, <1>10, ValueCases DEF c
  <2>2. TrueWord \in Text /\ TrueWord # <<>> /\ Len(TrueWord) = n
    BY WordsAre
  <2> HIDE DEF n, item
  <2>3. IsWord(p, TrueWord, n, item, r)
    BY <2>1, <2>2 DEF IsWord
  <2>4. IsWord(t, TrueWord, n, item, r)
    BY <2>3, WordAt
  <2> QED
    BY <1>1, <2>1, <2>4 DEF IsWord
<1> QED
  BY <1>2, <1>4, <1>5, <1>6, <1>7, <1>8, <1>9, <1>10 DEF Starts

(* What is parsed is parsed alike in a text that is the same up to there:    *)
(* no function below parse_value (cJSON.c:1368-1777) makes its result depend *)
(* on a byte behind where it stops, other than the one it stops before.      *)
THEOREM ParseLocal == \A x \in Places : LocalAt(x)
<1> DEFINE T == {x \in Places : LocalAt(x)}
<1>1. ASSUME NEW x \in Places, \A y \in Places : ParseRank[y] < ParseRank[x] => y \in T
      PROVE  x \in T
  <2>1. LocalBelow(x)
    BY <1>1 DEF LocalBelow
  <2>2. PICK k \in Kinds, p \in parse_buffer : x = <<k, p>>
    BY DEF Places
  <2>3. x[1] = k /\ x[2] = p
    BY <2>2
  <2>4. CASE k = "Value"
    BY <2>1, <2>2, <2>3, <2>4, ValueAt DEF LocalAt
  <2>5. CASE k = "Array"
    BY <2>1, <2>2, <2>3, <2>5, ArrayLocal DEF LocalAt
  <2>6. CASE k = "Object"
    BY <2>1, <2>2, <2>3, <2>6, ObjectLocal DEF LocalAt
  <2> QED
    BY <2>2, <2>4, <2>5, <2>6 DEF Kinds
<1>2. T \in SUBSET Places
  OBVIOUS
<1> HIDE DEF T
<1>3. T = Places
  BY <1>1, <1>2, ParseRankNat, ParseRecursion!RankInduction
<1> QED
  BY <1>3 DEF T

-----------------------------------------------------------------------------
(* What a value is can be seen from where it begins, and an array or object *)
(* ends with its bracket.                                                   *)

Closers == {CloseArray, CloseObject}

LEMMA StructureIs ==
  ASSUME NEW p \in parse_buffer, NEW kind \in {"Array", "Object"}, NEW r, r = Structure(Parse, p, kind), r.ok,
         r.off <= Len(p.content), CanAccess(p, 0), r.off \in Nat
  PROVE  r.item.type = kind /\ p.content[r.off] \in Closers
<1>1. Alike(p, p, r.off)
  BY DEF Alike, Same
<1>2. \A q, u \in parse_buffer : ListLocal(kind, q, u)
  <2> SUFFICES ASSUME NEW q \in parse_buffer, NEW u \in parse_buffer PROVE ListLocal(kind, q, u)
    OBVIOUS
  <2>1. <<kind, q>> \in Places /\ kind # "Value" /\ <<kind, q>>[1] = kind /\ <<kind, q>>[2] = q
    BY DEF Places, Kinds
  <2>2. LocalAt(<<kind, q>>)
    BY <2>1, ParseLocal
  <2> QED
    BY <2>1, <2>2 DEF LocalAt
<1>3. r.item.type = kind /\ p.content[r.off] = Bracket(kind)
  BY <1>1, <1>2, StructureLocal
<1> QED
  BY <1>3 DEF Closers, Bracket

LEMMA KindOf ==
  ASSUME NEW p \in parse_buffer, NEW r, r = Parse[<<"Value", p>>], r.ok
  PROVE  /\ r.item.type \in {"Array", "Object"} <=> At(p, 0) \in {OpenArray, OpenObject}
         /\ r.item.type \in {"Array", "Object"} => p.content[r.off] \in Closers
         /\ r.item.type \notin {"Array", "Object"} => r.item.child = <<>>
<1> DEFINE c == At(p, 0)
<1>1. r = Value(Parse, p) /\ r # Refused(p)
  <2>1. r = Value(Parse, p)
    BY PlaceOf
  <2>2. ~Refused(p).ok
    BY DEF Refused
  <2> QED
    BY <2>1, <2>2
<1>2. r.off \in Nat /\ p.offset < r.off /\ r.off <= Len(p.content) /\ CanAccess(p, 0) /\ c \in Starts
  BY ValueBounds
<1> HIDE DEF c
<1>3. ASSUME NEW k, NEW n, NEW i, NEW t, NEW live, r = Parsed(n, Leaf(k, i, t), live)
      PROVE  r.item.type = k /\ r.item.child = <<>>
  BY <1>3 DEF Parsed, Leaf
<1>4. CASE c \notin {OpenArray, OpenObject}
  <2>1. \E k \in Types \ {"Array", "Object"} : \E n, i, t, live : r = Parsed(n, Leaf(k, i, t), live)
    <3>1. CASE c = Quote
      <4>1. r = parse_string(p)
        BY <1>1, <1>2, <3>1, ValueCases DEF c
      <4>2. PICK t \in Text, n \in Nat : r = Parsed(n, StringItem(t), 1)
        BY <1>1, <1>2, <4>1, ParseString
      <4>3. r = Parsed(n, Leaf("String", 0, t), 1)
        BY <4>2, NewLeaf
      <4> QED
        BY <4>3 DEF Types
    <3>2. CASE c \in Digit \cup {Minus}
      <4>1. r = parse_number(p)
        BY <1>1, <1>2, <3>2, ValueCases DEF c
      <4>2. PICK k \in Int, n \in Nat : r = Parsed(n, NumberItem(k), 0)
        BY <1>1, <1>2, <4>1, ParseNumber
      <4>3. r = Parsed(n, Leaf("Number", k, NULL), 0)
        BY <4>2, NewLeaf
      <4> QED
        BY <4>3 DEF Types
    <3>3. CASE c = 110
      <4>1. r = Parsed(p.offset + 4, Typed("NULL"), 0)
        BY <1>1, <1>2, <3>3, ValueCases DEF c
      <4>2. r = Parsed(p.offset + 4, Leaf("NULL", 0, NULL), 0)
        BY <4>1, NewLeaf
      <4> QED
        BY <4>2 DEF Types
    <3>4. CASE c = 102
      <4>1. r = Parsed(p.offset + 5, Typed("False"), 0)
        BY <1>1, <1>2, <3>4, ValueCases DEF c
      <4>2. r = Parsed(p.offset + 5, Leaf("False", 0, NULL), 0)
        BY <4>1, NewLeaf
      <4> QED
        BY <4>2 DEF Types
    <3>5. CASE c = 116
      <4>1. r = Parsed(p.offset + 4, [Typed("True") EXCEPT !.int = 1], 0)
        BY <1>1, <1>2, <3>5, ValueCases DEF c
      <4>2. r = Parsed(p.offset + 4, Leaf("True", 1, NULL), 0)
        BY <4>1, NewLeaf
      <4> QED
        BY <4>2 DEF Types
    <3> QED
      BY <1>2, <1>4, <3>1, <3>2, <3>3, <3>4, <3>5 DEF Starts
  <2>2. PICK k \in Types \ {"Array", "Object"} : \E n, i, t, live : r = Parsed(n, Leaf(k, i, t), live)
    BY <2>1
  <2>3. r.item.type = k /\ r.item.child = <<>>
    BY <1>3, <2>2
  <2> QED
    BY <1>4, <2>3 DEF c
<1>5. CASE c = OpenArray
  <2>1. r = Structure(Parse, p, "Array")
    BY <1>1, <1>2, <1>5, ValueCases DEF c
  <2>2. r.item.type = "Array" /\ p.content[r.off] \in Closers
    BY <1>2, <2>1, StructureIs
  <2> QED
    BY <1>5, <2>2 DEF c
<1>6. CASE c = OpenObject
  <2>1. r = Structure(Parse, p, "Object")
    BY <1>1, <1>2, <1>6, ValueCases DEF c
  <2>2. r.item.type = "Object" /\ p.content[r.off] \in Closers
    BY <1>2, <2>1, StructureIs
  <2> QED
    BY <1>6, <2>2 DEF c
<1> QED
  BY <1>4, <1>5, <1>6

-----------------------------------------------------------------------------
(* The text as a whole. *)

Whole(b) == [content |-> b, offset |-> 0, depth |-> 0]

(* Where the parse begins. *)
First(b) == Skip(Whole(b), skip_utf8_bom(b))

LEMMA FirstIs ==
  ASSUME NEW b \in Text
  PROVE  /\ Whole(b) \in parse_buffer /\ Whole(b).content = b /\ Whole(b).offset = 0
         /\ skip_utf8_bom(b) \in {0, 3}
         /\ First(b) \in parse_buffer /\ First(b).content = b /\ First(b).offset \in Nat
         /\ First(b).offset >= skip_utf8_bom(b)
         /\ cJSON_Parse(b) = Result(Parse[<<"Value", First(b)>>])
<1>1. Whole(b) \in parse_buffer /\ Whole(b).content = b /\ Whole(b).offset = 0
  BY DEF Whole, parse_buffer
<1>2. skip_utf8_bom(b) \in {0, 3} /\ skip_utf8_bom(b) \in Nat
  BY DEF skip_utf8_bom
<1>3. First(b) \in parse_buffer /\ First(b).content = b /\ First(b).offset >= skip_utf8_bom(b)
  BY <1>1, <1>2, SkipIs DEF First
<1>4. First(b).offset \in Nat
  BY <1>3 DEF parse_buffer
<1>5. cJSON_Parse(b) = Result(Parse[<<"Value", First(b)>>])
  BY DEF cJSON_Parse, First, Whole
<1> QED
  BY <1>1, <1>2, <1>3, <1>4, <1>5

(* Whether there is a byte order mark is seen in time. *)
LEMMA MarkLocal ==
  ASSUME NEW x \in Text, NEW y \in Text, NEW m \in Nat, Same(x, y, m), Len(x) <= Len(y),
         Inked(First(x)), At(First(x), 0) \in Starts, First(x).offset + 1 <= m
  PROVE  skip_utf8_bom(y) = skip_utf8_bom(x)
<1> DEFINE e == First(x).offset
           mark == <<239, 187, 191>>
           n == 3
<1>1. Len(x) \in Nat /\ Len(y) \in Nat /\ e \in Nat /\ e >= skip_utf8_bom(x) /\ e + 1 <= m
  BY LenProperties, FirstIs DEF Text
<1> HIDE DEF e
<1>2. CASE skip_utf8_bom(x) = 3
  <2>1. Len(x) > 4 /\ SubSeq(x, 1, n) = mark
    BY <1>2 DEF skip_utf8_bom
  <2>2. n \in Nat /\ n <= m
    BY <1>1, <1>2
  <2> HIDE DEF n
  <2>3. Same(x, y, n)
    BY <2>2, SameLess
  <2>4. SubSeq(x, 1, n) = SubSeq(y, 1, n)
    BY <2>2, <2>3, PartSame
  <2>5. SubSeq(y, 1, 3) = <<239, 187, 191>>
    BY <2>1, <2>4 DEF n
  <2> QED
    BY <1>1, <1>2, <2>1, <2>5 DEF skip_utf8_bom
<1>3. CASE skip_utf8_bom(x) = 0
  <2> SUFFICES ASSUME skip_utf8_bom(y) = 3 PROVE FALSE
    BY <1>3, FirstIs
  <2>1. Len(y) > 4 /\ SubSeq(y, 1, n) = mark
    BY DEF skip_utf8_bom
  <2>2. y[1] = 239
    <3>1. y \in Seq(Byte) /\ n \in Nat /\ n <= Len(y) /\ 1 \in 1..n
      BY <1>1, <2>1 DEF Text
    <3>2. \A i \in 1..n : SubSeq(y, 1, n)[i] = y[i]
      <4> HIDE DEF n
      <4>1. 1 \in 1..(Len(y) + 1) /\ n \in 0..Len(y)
        BY <1>1, <3>1
      <4>2. \A i \in 1..(n - 1 + 1) : SubSeq(y, 1, n)[i] = y[1 + i - 1]
        BY <3>1, <4>1, SubSeqProperties
      <4>3. n - 1 + 1 = n /\ \A i \in 1..n : 1 + i - 1 = i
        BY <3>1
      <4> QED
        BY <4>2, <4>3
    <3>3. SubSeq(y, 1, n)[1] = y[1]
      <4> HIDE DEF n
      <4> QED
        BY <3>1, <3>2
    <3>4. mark[1] = 239 /\ SubSeq(y, 1, n) = mark
      BY <2>1
    <3> HIDE DEF n, mark
    <3> QED
      BY <3>3, <3>4
  <2>3. x[1] = 239
    <3>1. 1 \in 1..m
      BY <1>1
    <3> QED
      BY <2>2, <3>1 DEF Same
  <2> DEFINE w == Whole(x)
             o == 0
  <2>4. First(x) = Skip(w, o) /\ w \in parse_buffer /\ w.content = x /\ o \in Nat /\ First(x).content = x
    BY <1>3, FirstIs DEF First
  <2> HIDE DEF w, o
  <2>5. \A i \in (o + 1)..e : x[i] \notin 33..255
    <3>1. Inked(Skip(w, o)) /\ Skip(w, o).offset = e
      BY <2>4 DEF e
    <3> QED
      BY <2>4, <3>1, SkipInked
  <2>6. e = 0
    <3> SUFFICES ASSUME e # 0 PROVE FALSE
      OBVIOUS
    <3>1. 1 \in (o + 1)..e
      BY <1>1 DEF o
    <3> QED
      BY <2>3, <2>5, <3>1
  <2>7. At(First(x), 0) = x[1]
    <3>1. First(x).offset = 0 /\ 0 + 0 + 1 = 1
      BY <2>6 DEF e
    <3> QED
      BY <2>4, <3>1 DEF At
  <2> QED
    BY <2>3, <2>7, StartsInked
<1> QED
  BY <1>2, <1>3, FirstIs

LEMMA FirstLocal ==
  ASSUME NEW x \in Text, NEW y \in Text, NEW m \in Nat, Same(x, y, m), Len(x) <= Len(y),
         Inked(First(x)), At(First(x), 0) \in Starts, First(x).offset + 1 <= m
  PROVE  Alike(First(x), First(y), m) /\ At(First(y), 0) = At(First(x), 0)
<1> DEFINE o == skip_utf8_bom(x)
           p == Whole(x)
           t == Whole(y)
<1>1. First(x) = Skip(p, o) /\ First(y) = Skip(t, o)
  <2>1. skip_utf8_bom(y) = skip_utf8_bom(x)
    BY MarkLocal
  <2> QED
    BY <2>1 DEF First
<1>2. o \in Nat /\ p \in parse_buffer /\ t \in parse_buffer
  <2>1. o \in {0, 3} /\ p \in parse_buffer /\ t \in parse_buffer
    BY FirstIs
  <2> HIDE DEF o
  <2> QED
    BY <2>1
<1>3. Alike(p, t, m)
  BY <1>2 DEF Alike, Whole
<1> HIDE DEF o, p, t
<1> QED
  BY <1>1, <1>2, <1>3, SkipLocal

(* An array or object is its own end: what follows it in the text is of no  *)
(* matter.                                                                  *)
TailCut(x, y) ==
  LET r == cJSON_Parse(x)
  IN  /\ r.ok /\ r.item.type \in {"Array", "Object"}
      /\ Same(x, y, r.off) /\ Len(x) <= Len(y)

LEMMA ResultIs ==
  ASSUME NEW b \in Text, NEW p, p = cJSON_Parse(b), NEW r, r = Parse[<<"Value", First(b)>>]
  PROVE  /\ p.ok <=> r.ok
         /\ p.off = r.off /\ (r.ok => p.item = r.item)
<1>1. r \in ValueGood(First(b)) /\ p = Result(r)
  BY FirstIs, PlaceOf
<1>2. r \in Values(Level(First(b).depth))
  BY <1>1 DEF ValueGood
<1> QED
  BY <1>1, <1>2 DEF Result, Values, Deleted

(* An array or object that is parsed is parsed the same whatever follows it  *)
(* in the buffer: cJSON_Parse requires no end behind it (cJSON.c:1186-1194). *)
THEOREM TailIgnored ==
  ASSUME NEW x \in Text, NEW y \in Text, TailCut(x, y)
  PROVE  cJSON_Parse(y) = cJSON_Parse(x)
<1> DEFINE p == First(x)
           t == First(y)
           r == Parse[<<"Value", p>>]
           m == r.off
<1>1. p \in parse_buffer /\ t \in parse_buffer /\ cJSON_Parse(x) = Result(r) /\ cJSON_Parse(y) = Result(Parse[<<"Value", t>>])
  BY FirstIs
<1>2. r.ok /\ r.item.type \in {"Array", "Object"} /\ Same(x, y, m) /\ Len(x) <= Len(y)
  BY ResultIs DEF TailCut
<1>3. m \in Nat /\ p.offset < m /\ p.offset \in Nat /\ At(p, 0) \in Starts /\ Inked(p)
  <2> HIDE DEF p
  <2> QED
    BY <1>1, <1>2, ValueBounds
<1>4. Alike(p, t, m)
  <2>1. p.offset + 1 <= m
    <3> HIDE DEF p, m
    <3> QED
      BY <1>3
  <2> HIDE DEF m
  <2> QED
    BY <1>2, <1>3, <2>1, FirstLocal
<1>5. ValueLocal(p, t)
  <2> HIDE DEF p, t
  <2>1. <<"Value", p>> \in Places
    BY <1>1, PlaceOf
  <2>2. LocalAt(<<"Value", p>>)
    BY <2>1, ParseLocal
  <2> QED
    BY <1>1, <2>2 DEF LocalAt
<1>6. Parse[<<"Value", t>>] = r
  <2> HIDE DEF p, t
  <2> QED
    BY <1>2, <1>4, <1>5 DEF ValueLocal
<1> QED
  BY <1>1, <1>6

(* The texts that the first k bytes of b are, and all of them. *)
AreCut(b, k, x, y) == k \in 0..Len(b) /\ x = Append(SubSeq(b, 1, k), 0) /\ y = Append(b, 0)

LEMMA Beginnings ==
  ASSUME NEW b \in Text, NEW k, NEW x, NEW y, AreCut(b, k, x, y)
  PROVE  /\ x \in Text /\ y \in Text /\ Len(x) = k + 1 /\ Len(y) = Len(b) + 1 /\ k \in Nat /\ Len(b) \in Nat
         /\ Len(x) <= Len(y) /\ Same(x, y, k) /\ x[k + 1] = 0
<1> USE DEF AreCut
<1> DEFINE c == SubSeq(b, 1, k)
<1>1. Len(b) \in Nat /\ k \in Nat /\ k <= Len(b) /\ \A i \in 1..Len(b) : b[i] \in Byte
  <2>1. Len(b) \in Nat
    BY LenProperties DEF Text
  <2> QED
    BY <2>1, ElementOfSeq DEF Text
<1>2. c \in Text /\ Len(c) = k /\ \A i \in 1..k : c[i] = b[i]
  <2>1. \A i \in 1..k : b[i] \in Byte
    BY <1>1
  <2>2. /\ c \in Seq(Byte) /\ Len(c) = IF 1 <= k THEN k - 1 + 1 ELSE 0
        /\ \A i \in 1..(k - 1 + 1) : c[i] = b[1 + i - 1]
    BY <1>1, <2>1, SubSeqProperties
  <2> HIDE DEF c
  <2>3. k - 1 + 1 = k /\ \A i \in 1..k : 1 + i - 1 = i
    BY <1>1
  <2> QED
    BY <1>1, <2>2, <2>3 DEF Text
<1> HIDE DEF c
<1>3. 0 \in Byte
  BY DEF Byte
<1>4. /\ x \in Text /\ Len(x) = k + 1 /\ (\A i \in 1..k : x[i] = c[i]) /\ x[k + 1] = 0
  BY <1>2, <1>3, AppendProperties DEF c, Text
<1>5. /\ y \in Text /\ Len(y) = Len(b) + 1 /\ \A i \in 1..Len(b) : y[i] = b[i]
  BY <1>3, AppendProperties DEF Text
<1>6. Same(x, y, k)
  BY <1>1, <1>2, <1>4, <1>5 DEF Same
<1> QED
  BY <1>1, <1>4, <1>5, <1>6

(* The beginning of an array or object is no JSON: if the whole text is one *)
(* that is parsed to its end, no text that stops short of it is accepted.   *)
THEOREM CutRefused ==
  ASSUME NEW b \in Text, NEW k \in 0..Len(b), k < Len(b), NEW w, w = cJSON_Parse(Append(b, 0)),
         w.ok, w.item.type \in {"Array", "Object"}, w.off = Len(b)
  PROVE  ~cJSON_Parse(Append(SubSeq(b, 1, k), 0)).ok
<1> DEFINE x == Append(SubSeq(b, 1, k), 0)
           y == Append(b, 0)
           p == First(x)
           t == First(y)
           r == Parse[<<"Value", p>>]
           v == Parse[<<"Value", t>>]
<1> SUFFICES ASSUME cJSON_Parse(x).ok PROVE FALSE
  OBVIOUS
<1>1. /\ x \in Text /\ y \in Text /\ Len(x) = k + 1 /\ k \in Nat /\ Len(b) \in Nat
      /\ Len(x) <= Len(y) /\ Same(x, y, k) /\ x[k + 1] = 0
  <2>1. AreCut(b, k, x, y)
    BY DEF AreCut
  <2> HIDE DEF x, y
  <2> QED
    BY <2>1, Beginnings
<1>2. w = cJSON_Parse(y)
  OBVIOUS
<1> HIDE DEF x, y
<1>3. r.ok /\ v.ok /\ v.item.type \in {"Array", "Object"} /\ cJSON_Parse(x).off = r.off /\ cJSON_Parse(x).item = r.item
  BY <1>1, <1>2, ResultIs
<1>4. p \in parse_buffer /\ t \in parse_buffer /\ p.content = x
  BY <1>1, FirstIs
<1> HIDE DEF p, t
<1>5. /\ r.off \in Nat /\ p.offset < r.off /\ r.off <= Len(x) /\ p.offset \in Nat /\ CanAccess(p, 0)
      /\ At(p, 0) \in Starts /\ Inked(p)
  BY <1>3, <1>4, ValueBounds
<1>6. p.offset + 1 <= k
  <2>1. At(p, 0) = x[p.offset + 1]
    <3>1. p.offset + 0 + 1 = p.offset + 1
      BY <1>5
    <3> QED
      BY <1>4, <3>1 DEF At
  <2>2. p.offset # k
    BY <1>1, <1>5, <2>1, StartsInked
  <2> HIDE DEF r
  <2> QED
    BY <1>1, <1>5, <2>2
<1>7. At(t, 0) = At(p, 0)
  BY <1>1, <1>5, <1>6, FirstLocal DEF p, t
<1>8. At(t, 0) \in {OpenArray, OpenObject}
  BY <1>3, <1>4, KindOf
<1>9. r.item.type \in {"Array", "Object"} /\ x[r.off] \in Closers
  BY <1>3, <1>4, <1>7, <1>8, KindOf
<1> HIDE DEF r, v
<1>10. r.off <= k
  <2>1. 0 \notin Closers
    BY DEF Closers, CloseArray, CloseObject
  <2>2. r.off # k + 1
    BY <1>1, <1>9, <2>1
  <2> QED
    BY <1>1, <1>5, <2>2
<1>11. TailCut(x, y)
  <2>1. Same(x, y, r.off)
    BY <1>1, <1>5, <1>10, SameLess
  <2> QED
    BY <1>1, <1>3, <1>9, <2>1 DEF TailCut
<1>12. cJSON_Parse(y) = cJSON_Parse(x)
  BY <1>1, <1>11, TailIgnored
<1> QED
  BY <1>1, <1>2, <1>3, <1>5, <1>10, <1>12

-----------------------------------------------------------------------------
(* What main gives to the parser. *)

LEMMA CStringText ==
  ASSUME NEW s \in Text
  PROVE  CString(s) \in Text /\ Append(CString(s), 0) \in Text
<1> DEFINE zeros == {k \in DOMAIN s : s[k] = 0}
<1>1. CString(s) \in Text
  <2>1. CASE zeros = {}
    BY <2>1 DEF CString
  <2>2. CASE zeros # {}
    <3>1. zeros \in SUBSET Nat /\ zeros # {} /\ zeros \subseteq 1..Len(s) /\ Len(s) \in Nat
      BY <2>2, LenProperties DEF Text
    <3> HIDE DEF zeros
    <3>2. \E e \in zeros : \A k \in zeros : e <= k
      BY <3>1, TextRecursion!Least
    <3>3. Min(zeros) \in zeros
      BY <3>2 DEF Min
    <3>4. Min(zeros) - 1 \in 0..Len(s)
      <4>1. Min(zeros) \in 1..Len(s)
        BY <3>1, <3>3
      <4> QED
        BY <3>1, <4>1
    <3>5. SubSeq(s, 1, Min(zeros) - 1) \in Text
      BY <3>4, PrefixText
    <3> QED
      BY <2>2, <3>5 DEF CString, zeros
  <2> QED
    BY <2>1, <2>2
<1>2. 0 \in Byte
  BY DEF Byte
<1>3. Append(CString(s), 0) \in Text
  BY <1>1, <1>2, AppendProperties DEF Text
<1> QED
  BY <1>1, <1>3

(* What is parsed ends with a 0. *)
LEMMA ParsedText == StartAssumption => \A f \in Files, t \in Stacks : \A k \in 0..Len(f.bytes) :
  SubSeq(f.bytes, 1, k) \in Text /\ t \in Text
<1> SUFFICES ASSUME StartAssumption, NEW f \in Files, NEW k \in 0..Len(f.bytes), NEW t \in Stacks
             PROVE  SubSeq(f.bytes, 1, k) \in Text /\ t \in Text
  OBVIOUS
<1>1. f.bytes \in Text /\ t \in Text
  BY DEF StartAssumption
<1> QED
  BY <1>1, PrefixText

-----------------------------------------------------------------------------
(* The memory of the parser. *)

MemoryInv ==
  /\ file.bytes \in Text /\ stack \in Text
  /\ json.safe = TRUE
  /\ json.live = IF json.item = NULL THEN 0 ELSE Blocks(<<json.item>>)
  /\ pc = "fields" => json.item # NULL /\ json.item \in Items[NESTING_LIMIT]

LEMMA BufferText ==
  ASSUME file.bytes \in Text, stack \in Text
  PROVE  Buffer \in Text
<1> DEFINE all == file.bytes \o stack
<1>1. all \in Text
  BY ConcatProperties DEF Text
<1> HIDE DEF all
<1>2. Len(all) \in Nat /\ BUFFER \in Nat
  BY <1>1, LenProperties, StartAssumption DEF StartAssumption, Text
<1>3. Min({BUFFER, Len(all)}) \in 0..Len(all)
  <2>1. \E x \in {BUFFER, Len(all)} : \A y \in {BUFFER, Len(all)} : x <= y
    BY <1>2
  <2>2. Min({BUFFER, Len(all)}) \in {BUFFER, Len(all)} /\ \A y \in {BUFFER, Len(all)} : Min({BUFFER, Len(all)}) <= y
    BY <2>1 DEF Min
  <2> QED
    BY <1>2, <2>2
<1> QED
  BY <1>1, <1>3, PrefixText DEF Buffer, all

LEMMA MemoryInit == Init => MemoryInv
<1> SUFFICES ASSUME Init PROVE MemoryInv
  OBVIOUS
<1>1. PICK f \in Files : \E k \in 0..Len(f.bytes) :
        file = [bytes |-> SubSeq(f.bytes, 1, k), whole |-> k = Len(f.bytes), means |-> f.means]
  BY DEF Init
<1>0. PICK k \in 0..Len(f.bytes) :
        file = [bytes |-> SubSeq(f.bytes, 1, k), whole |-> k = Len(f.bytes), means |-> f.means]
  BY <1>1
<1>2. file.bytes \in Text /\ stack \in Text
  BY <1>0, ParsedText, StartAssumption DEF Init
<1> QED
  BY <1>2 DEF Init, MemoryInv

LEMMA MemoryNext == MemoryInv /\ [Next]_vars => MemoryInv'
<1> SUFFICES ASSUME MemoryInv, [Next]_vars PROVE MemoryInv'
  OBVIOUS
<1>1. ASSUME ParseConfig PROVE MemoryInv'
  <2>1. CASE 0 \in Range(Buffer)
    <3> DEFINE p == cJSON_Parse(Append(CString(Buffer), 0))
    <3>1. Append(CString(Buffer), 0) \in Text
      BY BufferText, CStringText DEF MemoryInv
    <3>2. /\ p.safe = TRUE
          /\ p.ok => p.item \in Items[NESTING_LIMIT] /\ p.item # NULL /\ p.live = Blocks(<<p.item>>)
          /\ ~p.ok => p.item = NULL /\ p.live = 0
      BY <3>1, CJSONParse
    <3>3. json' = p /\ pc' = IF p.ok THEN "fields" ELSE "noJson"
      BY <1>1, <2>1 DEF ParseConfig
    <3>4. UNCHANGED <<file, stack>>
      BY <1>1 DEF ParseConfig
    <3> HIDE DEF p
    <3>5. CASE p.ok
      BY <3>2, <3>3, <3>4, <3>5 DEF MemoryInv
    <3>6. CASE ~p.ok
      BY <3>2, <3>3, <3>4, <3>6 DEF MemoryInv
    <3> QED
      BY <3>5, <3>6
  <2>2. CASE ~(0 \in Range(Buffer))
    BY <1>1, <2>2 DEF ParseConfig, MemoryInv
  <2> QED
    BY <2>1, <2>2
<1>2. ASSUME GetFields PROVE MemoryInv'
  <2>1. /\ json' = [Deleted(json, <<json.item>>) EXCEPT !.item = NULL]
        /\ pc' = "listener" /\ UNCHANGED <<file, stack>>
        /\ pc = "fields"
    BY <1>2 DEF GetFields
  <2>2. json.item # NULL /\ json.item \in Items[NESTING_LIMIT]
    BY <2>1 DEF MemoryInv
  <2>3. Blocks(<<json.item>>) \in Nat
    BY <2>2, BlocksOne
  <2>4. json.live = Blocks(<<json.item>>) /\ json.safe = TRUE
    BY <2>2 DEF MemoryInv
  <2>5. json'.live = 0 /\ json'.item = NULL /\ json'.safe = TRUE
    BY <2>1, <2>3, <2>4 DEF Deleted
  <2> QED
    BY <2>1, <2>5 DEF MemoryInv
<1>3. ASSUME UNCHANGED <<file, stack, json>>, pc' # "fields" \/ UNCHANGED pc PROVE MemoryInv'
  BY <1>3 DEF MemoryInv
<1>4. ASSUME NoFile \/ NoField \/ GetFiles \/ NoDirectory \/ NoThread \/ Join \/ Exit \/ UNCHANGED vars
      PROVE  MemoryInv'
  BY <1>3, <1>4 DEF NoFile, NoField, GetFiles, NoDirectory, NoThread, Join, Exit, Goto, vars
<1>5. ASSUME NEW d \in Descriptors, Open(d) \/ OpenFails(d) \/ Call(d) \/ CallFails(d) \/ Created(d)
      PROVE  MemoryInv'
  <2>1. \A r : After(d, r) # "fields"
    BY DEF After, Descriptors, Calls
  <2> QED
    BY <1>3, <1>5, <2>1 DEF Open, OpenFails, Call, CallFails, Created, Returns
<1>6. ASSUME NEW w \in Workers, CreateThread(w) \/ WorkerStarts(w) \/ WorkerEnds(w) PROVE MemoryInv'
  BY <1>3, <1>6 DEF CreateThread, WorkerStarts, WorkerEnds, Goto
<1> QED
  BY <1>1, <1>2, <1>4, <1>5, <1>6 DEF Next, Done

(* In every state of main the parser has stayed inside of the text and of    *)
(* what it allocated, and what is allocated is the item, or nothing, after   *)
(* any failure of the parse and after cJSON_Delete (cJSON.c:253-276,         *)
(* 1132-1230; main.c:54-76).                                                 *)
THEOREM MemoryIsSafe == Spec => []ParserMemory
<1>1. MemoryInv => ParserMemory
  BY DEF MemoryInv, ParserMemory
<1> QED
  BY <1>1, MemoryInit, MemoryNext, PTL DEF Spec

-----------------------------------------------------------------------------
(* The descriptors. *)

(* Before a function is called; and before all of start_node. *)
NotYet == [listener |-> {"fopen", "fields"},
           udp      |-> {"fopen", "fields", "listener"},
           epoll    |-> {"fopen", "fields", "listener", "udp"},
           hello    |-> {"fopen", "fields", "listener", "udp", "epoll", "files"},
           cleanup  |-> {"fopen", "fields", "listener", "udp", "epoll", "files", "hello"}]

(* start_node has not returned. *)
Inside == NotYet["cleanup"] \cup {"cleanup", "threads", "join"}

Counted ==
  /\ step \in Nat /\ (pc \notin Descriptors => step = 0)
  /\ got \in [Descriptors -> {"nothing", "-1", "descriptor"}]
  /\ fds \subseteq Descriptors /\ epoll \subseteq Descriptors

(* A descriptor is open from its first call on, until one fails; then only   *)
(* if it was returned.                                                      *)
OpenIff(d) ==
  /\ pc \in NotYet[d] \cup {d} => got[d] = "nothing"
  /\ pc = d => (d \in fds <=> step # 0)
  /\ pc # d /\ d \in fds => got[d] = "descriptor"
  /\ got[d] = "descriptor" /\ pc \in Inside => d \in fds

DescriptorInv == Counted /\ \A d \in Descriptors : OpenIff(d)

LEMMA DescriptorsAre == Descriptors = {"listener", "udp", "epoll", "hello", "cleanup"}
  BY DEF Descriptors, Calls

LEMMA CallsAre ==
  /\ DOMAIN Calls["listener"] = 1..4 /\ Len(Calls["listener"]) = 4
  /\ DOMAIN Calls["udp"] = 1..3 /\ Len(Calls["udp"]) = 3
  /\ \A d \in {"epoll", "hello", "cleanup"} : DOMAIN Calls[d] = 1..2 /\ Len(Calls[d]) = 2
  BY DEF Calls, ListenerCalls, UdpCalls, EpollCalls, HelloCalls, CleanupCalls

(* Of the thirteen error branches each closes the descriptor of its function. *)
LEMMA ClosesAre == \A d \in Descriptors : \A i \in DOMAIN Calls[d] : Closes[d][i] = {d}
<1>1. DOMAIN Closes = Descriptors
  BY DescriptorsAre DEF Closes
<1>2. \A i \in 1..4 : ListenerCloses[i] = {"listener"}
  BY DEF ListenerCloses
<1>3. \A i \in 1..3 : UdpCloses[i] = {"udp"}
  BY DEF UdpCloses
<1>4. \A i \in 1..2 : EpollCloses[i] = {"epoll"} /\ HelloCloses[i] = {"hello"} /\ CleanupCloses[i] = {"cleanup"}
  BY DEF EpollCloses, HelloCloses, CleanupCloses
<1> QED
  BY <1>1, <1>2, <1>3, <1>4, DescriptorsAre, CallsAre DEF Closes

LEMMA StepIsNat ==
  ASSUME NEW d \in Descriptors
  PROVE  Len(Calls[d]) \in Nat /\ DOMAIN Calls[d] \subseteq Nat /\ 0 \notin DOMAIN Calls[d] /\ Len(Calls[d]) + 1 # 0
  BY CallsAre, DescriptorsAre

(* Where a function goes to. *)
LEMMA AfterIs ==
  ASSUME NEW d \in Descriptors, NEW r
  PROVE  /\ After(d, r) # d
         /\ \A e \in Descriptors \ {d} : pc = d /\ After(d, r) \in NotYet[e] => pc \in NotYet[e]
         /\ \A e \in Descriptors \ {d} : pc = d /\ After(d, r) = e => pc \in NotYet[e]
         /\ After(d, r) \notin NotYet[d]
  BY DescriptorsAre DEF After, NotYet

LEMMA DescriptorInit == Init => DescriptorInv
  BY DescriptorsAre DEF Init, DescriptorInv, Counted, OpenIff

(* A step of a function that does not return. *)
LEMMA Inner ==
  ASSUME DescriptorInv, NEW d \in Descriptors, pc = d, pc' = pc, step' \in Nat, step' # 0, got' = got,
         fds' = fds \cup {d}, epoll' \subseteq Descriptors
  PROVE  DescriptorInv'
<1>1. Counted'
  BY DEF DescriptorInv, Counted
<1>2. ASSUME NEW e \in Descriptors PROVE OpenIff(e)'
  <2>1. OpenIff(e) /\ OpenIff(d)
    BY DEF DescriptorInv
  <2>2. CASE e = d
    <3>1. d \notin NotYet[d]
      BY DescriptorsAre DEF NotYet
    <3> QED
      BY <2>1, <2>2, <3>1 DEF OpenIff
  <2>3. CASE e # d
    BY <2>1, <2>3 DEF OpenIff
  <2> QED
    BY <2>2, <2>3
<1> QED
  BY <1>1, <1>2 DEF DescriptorInv

LEMMA Returned ==
  ASSUME DescriptorInv, NEW d \in Descriptors, pc = d, NEW r \in {"-1", "descriptor"}, Returns(d, r),
         r = "-1" => fds' = fds \ {d}, r = "descriptor" => fds' = fds /\ d \in fds, epoll' \subseteq Descriptors
  PROVE  DescriptorInv'
<1>1. got' = [got EXCEPT ![d] = r] /\ step' = 0 /\ pc' = After(d, r)
  BY DEF Returns
<1>2. Counted'
  BY <1>1 DEF DescriptorInv, Counted
<1>3. ASSUME NEW e \in Descriptors PROVE OpenIff(e)'
  <2>1. OpenIff(e) /\ OpenIff(d) /\ got \in [Descriptors -> {"nothing", "-1", "descriptor"}]
    BY DEF DescriptorInv, Counted
  <2>2. CASE e = d
    <3>1. pc' # d /\ pc' \notin NotYet[d]
      BY <1>1, AfterIs
    <3>2. got'[d] = r
      BY <1>1, <2>1
    <3> QED
      BY <2>1, <2>2, <3>1, <3>2 DEF OpenIff
  <2>3. CASE e # d
    <3>1. (pc' \in NotYet[e] => pc \in NotYet[e]) /\ (pc' = e => pc \in NotYet[e])
      BY <1>1, <2>3, AfterIs
    <3>2. got'[e] = got[e] /\ (e \in fds' <=> e \in fds)
      BY <1>1, <2>1, <2>3
    <3>3. pc \in Inside
      BY DescriptorsAre DEF Inside, NotYet
    <3> QED
      BY <1>1, <2>1, <3>1, <3>2, <3>3 DEF OpenIff
  <2> QED
    BY <2>2, <2>3
<1> QED
  BY <1>2, <1>3 DEF DescriptorInv

(* A step outside of these functions. *)
LEMMA Outer ==
  ASSUME DescriptorInv, UNCHANGED <<got, step>>, pc \notin Descriptors, epoll' \subseteq epoll,
         \/ pc \in {"fopen", "fields", "files"} /\ fds' = fds
         \/ fds' \subseteq fds /\ pc' \notin Inside
         \/ fds' = fds /\ pc \in {"threads", "join"},
         pc' \notin Descriptors \cup Inside \/ <<pc, pc'>> \in
           {<<"fopen", "fields">>, <<"fields", "listener">>, <<"files", "hello">>,
            <<"threads", "threads">>, <<"threads", "join">>}
  PROVE  DescriptorInv'
<1>1. Counted'
  BY DEF DescriptorInv, Counted
<1>2. ASSUME NEW e \in Descriptors PROVE OpenIff(e)'
  <2>1. OpenIff(e) /\ step = 0
    BY DEF DescriptorInv, Counted
  <2>2. /\ pc' \in NotYet[e] => pc \in NotYet[e]
        /\ pc' = e => pc \in NotYet[e]
        /\ pc' \in Inside => pc \in Inside /\ fds' = fds
        /\ fds' \subseteq fds
    BY DescriptorsAre DEF NotYet, Inside
  <2> QED
    BY <2>1, <2>2 DEF OpenIff
<1> QED
  BY <1>1, <1>2 DEF DescriptorInv

LEMMA DescriptorNext == DescriptorInv /\ [Next]_vars => DescriptorInv'
<1> SUFFICES ASSUME DescriptorInv, [Next]_vars PROVE DescriptorInv'
  OBVIOUS
<1>1. ASSUME NEW d \in Descriptors, Open(d) PROVE DescriptorInv'
  <2>1. /\ pc = d /\ pc' = pc /\ step' = 1 /\ got' = got /\ fds' = fds \cup {d} /\ epoll' = epoll
        /\ epoll \subseteq Descriptors
    BY <1>1 DEF Open, DescriptorInv, Counted
  <2> QED
    BY <2>1, Inner
<1>2. ASSUME NEW d \in Descriptors, OpenFails(d) PROVE DescriptorInv'
  <2>1. pc = d /\ step = 0 /\ Returns(d, "-1") /\ fds' = fds /\ epoll' = epoll /\ epoll \subseteq Descriptors
    BY <1>2 DEF OpenFails, DescriptorInv, Counted
  <2>2. d \notin fds
    BY <2>1 DEF DescriptorInv, OpenIff
  <2>3. fds' = fds \ {d}
    BY <2>1, <2>2
  <2> QED
    BY <2>1, <2>3, Returned
<1>3. ASSUME NEW d \in Descriptors, Call(d) PROVE DescriptorInv'
  <2>1. /\ pc = d /\ pc' = pc /\ step' = step + 1 /\ got' = got /\ fds' = fds
        /\ step \in DOMAIN Calls[d] /\ epoll' \subseteq epoll \cup Descriptors
    BY <1>3 DEF Call
  <2>2. step \in Nat /\ step # 0 /\ epoll \subseteq Descriptors
    BY <2>1, StepIsNat DEF DescriptorInv, Counted
  <2>3. d \in fds
    BY <2>1, <2>2 DEF DescriptorInv, OpenIff
  <2>4. fds' = fds \cup {d} /\ step' \in Nat /\ step' # 0 /\ epoll' \subseteq Descriptors
    BY <2>1, <2>2, <2>3
  <2> QED
    BY <2>1, <2>4, Inner
<1>4. ASSUME NEW d \in Descriptors, CallFails(d) PROVE DescriptorInv'
  <2>1. pc = d /\ Returns(d, "-1") /\ fds' = fds \ {d} /\ epoll' \subseteq epoll /\ epoll \subseteq Descriptors
    BY <1>4, ClosesAre DEF CallFails, DescriptorInv, Counted
  <2> QED
    BY <2>1, Returned
<1>5. ASSUME NEW d \in Descriptors, Created(d) PROVE DescriptorInv'
  <2>1. /\ pc = d /\ step = Len(Calls[d]) + 1 /\ Returns(d, "descriptor") /\ fds' = fds /\ epoll' = epoll
        /\ epoll \subseteq Descriptors
    BY <1>5 DEF Created, DescriptorInv, Counted
  <2>2. d \in fds
    BY <2>1, StepIsNat DEF DescriptorInv, OpenIff
  <2> QED
    BY <2>1, <2>2, Returned
<1>6. ASSUME NoFile \/ ParseConfig \/ NoField \/ GetFields \/ GetFiles \/ NoDirectory \/ NoThread PROVE DescriptorInv'
  <2>1. /\ UNCHANGED <<got, step, epoll, fds>> /\ pc \notin Descriptors
        /\ pc \in {"fopen", "fields", "files", "threads"}
    BY <1>6, DescriptorsAre DEF NoFile, ParseConfig, NoField, GetFields, GetFiles, NoDirectory, NoThread, Goto, nodeVars
  <2>2. \/ pc' \in {"noFile", "noJson", "undefined", "noField", "returned"}
        \/ <<pc, pc'>> \in {<<"fopen", "fields">>, <<"fields", "listener">>, <<"files", "hello">>}
    BY <1>6 DEF NoFile, ParseConfig, NoField, GetFields, GetFiles, NoDirectory, NoThread, Goto
  <2>3. {"noFile", "noJson", "undefined", "noField", "returned"} \cap (Descriptors \cup Inside) = {}
    BY DescriptorsAre DEF Inside, NotYet
  <2> QED
    BY <2>1, <2>2, <2>3, Outer
<1>7. ASSUME Join \/ Exit PROVE DescriptorInv'
  <2>1. /\ UNCHANGED <<got, step>> /\ pc \notin Descriptors /\ epoll' \subseteq epoll /\ fds' \subseteq fds
        /\ pc' \in {"returned", "exited"}
    BY <1>7, DescriptorsAre DEF Join, Exit
  <2>2. pc' \notin Inside /\ pc' \notin Descriptors
    BY <2>1, DescriptorsAre DEF Inside, NotYet
  <2> QED
    BY <2>1, <2>2, Outer
<1>8. ASSUME NEW w \in Workers, CreateThread(w) PROVE DescriptorInv'
  <2>1. UNCHANGED <<got, step, epoll, fds>> /\ pc = "threads" /\ pc' \in {"threads", "join"}
    BY <1>8 DEF CreateThread, Goto
  <2>2. pc \notin Descriptors
    BY <2>1, DescriptorsAre
  <2> QED
    BY <2>1, <2>2, Outer
<1>9. ASSUME UNCHANGED <<pc, got, step, epoll, fds>> PROVE DescriptorInv'
  BY <1>9 DEF DescriptorInv, Counted, OpenIff
<1> QED
  BY <1>1, <1>2, <1>3, <1>4, <1>5, <1>6, <1>7, <1>8, <1>9 DEF Next, Done, vars, WorkerStarts, WorkerEnds

-----------------------------------------------------------------------------
(* The threads. *)

(* The last thread is created last: where it is missing, the first thread   *)
(* is still at it or has given up, and only then are there threads that     *)
(* read the variable of a function that has returned.                       *)
ThreadInv ==
  /\ worker \in [Workers -> {"none", "created", "running", "ended"}]
  /\ (\E w \in Workers : worker[w] # "none") => pc \in {"threads", "join", "returned"}
  /\ pc = "threads" => worker[NUM_THREADS] = "none"
  /\ pc = "returned" /\ worker[NUM_THREADS] # "none" => AllEnded
  /\ arg = "stale" => pc \in {"returned", "exited"} /\ worker[NUM_THREADS] = "none"

LEMMA LastThread == NUM_THREADS \in Workers /\ \A w \in Workers : w # NUM_THREADS => w < NUM_THREADS
  BY StartAssumption DEF StartAssumption, Workers

LEMMA ThreadInit == Init => ThreadInv
  BY LastThread DEF Init, ThreadInv

LEMMA ThreadNext == ThreadInv /\ [Next]_vars => ThreadInv'
<1> SUFFICES ASSUME ThreadInv, [Next]_vars PROVE ThreadInv'
  OBVIOUS
<1> USE LastThread
<1>1. ASSUME UNCHANGED <<worker, arg>>, pc # "join",
             ~(pc' = "threads" /\ pc # "threads" /\ pc # "cleanup"),
             UNCHANGED pc \/ pc \notin {"join", "returned", "exited", "threads"} \/ (pc = "threads" /\ pc' = "returned")
      PROVE  ThreadInv'
  BY <1>1 DEF ThreadInv, AllEnded
<1>2. ASSUME NoFile \/ ParseConfig \/ NoField \/ GetFields \/ GetFiles \/ NoDirectory \/ NoThread PROVE ThreadInv'
  <2>1. /\ UNCHANGED <<worker, arg>> /\ pc \in {"fopen", "fields", "files", "threads"} /\ pc' # "threads"
        /\ pc = "threads" => pc' = "returned"
    BY <1>2 DEF NoFile, ParseConfig, NoField, GetFields, GetFiles, NoDirectory, NoThread, Goto, nodeVars
  <2> QED
    BY <1>1, <2>1
<1>3. ASSUME NEW d \in Descriptors, Open(d) \/ OpenFails(d) \/ Call(d) \/ CallFails(d) \/ Created(d)
      PROVE  ThreadInv'
  <2>1. \A r : After(d, r) = "threads" => d = "cleanup"
    BY DescriptorsAre DEF After
  <2>2. /\ UNCHANGED <<worker, arg>> /\ pc = d
        /\ UNCHANGED pc \/ \E r : pc' = After(d, r)
    BY <1>3 DEF Open, OpenFails, Call, CallFails, Created, Returns
  <2>3. d \notin {"join", "returned", "exited", "threads"}
    BY DescriptorsAre
  <2> QED
    BY <1>1, <2>1, <2>2, <2>3
<1>4. ASSUME Join PROVE ThreadInv'
  BY <1>4 DEF Join, ThreadInv, AllEnded
<1>5. ASSUME Exit PROVE ThreadInv'
  BY <1>5 DEF Exit, ThreadInv
<1>6. ASSUME NEW w \in Workers, CreateThread(w) PROVE ThreadInv'
  BY <1>6 DEF CreateThread, Goto, ThreadInv
<1>7. ASSUME NEW w \in Workers, WorkerStarts(w) PROVE ThreadInv'
  <2>1. worker[w] # "ended" /\ ~AllEnded
    BY <1>7 DEF WorkerStarts, AllEnded
  <2>2. worker' = [worker EXCEPT ![w] = "running"] /\ arg' = (IF pc = "returned" THEN "stale" ELSE arg)
        /\ pc' = pc /\ worker[w] # "none"
    BY <1>7 DEF WorkerStarts
  <2>3. pc = "returned" => worker[NUM_THREADS] = "none" /\ NUM_THREADS # w
    BY <2>1, <2>2 DEF ThreadInv
  <2>4. worker'[NUM_THREADS] = "none" <=> worker[NUM_THREADS] = "none"
    BY <2>2 DEF ThreadInv
  <2>5. worker' \in [Workers -> {"none", "created", "running", "ended"}]
    BY <2>2 DEF ThreadInv
  <2>6. pc \in {"threads", "join", "returned"}
    BY <2>2 DEF ThreadInv
  <2> QED
    BY <2>2, <2>3, <2>4, <2>5, <2>6 DEF ThreadInv
<1>8. ASSUME NEW w \in Workers, WorkerEnds(w) PROVE ThreadInv'
  <2>1. worker' = [worker EXCEPT ![w] = "ended"] /\ UNCHANGED <<pc, arg>> /\ worker[w] = "running"
    BY <1>8 DEF WorkerEnds
  <2>2. worker'[NUM_THREADS] = "none" <=> worker[NUM_THREADS] = "none"
    BY <2>1 DEF ThreadInv
  <2>3. AllEnded => AllEnded'
    BY <2>1 DEF ThreadInv, AllEnded
  <2>4. pc \in {"threads", "join", "returned"}
    BY <2>1 DEF ThreadInv
  <2> QED
    BY <2>1, <2>2, <2>3, <2>4 DEF ThreadInv
<1>9. ASSUME UNCHANGED vars PROVE ThreadInv'
  BY <1>9 DEF vars, ThreadInv, AllEnded
<1> QED
  BY <1>2, <1>3, <1>4, <1>5, <1>6, <1>7, <1>8, <1>9 DEF Next, Done

(* A thread that reads the variable of start_node after its return was       *)
(* created before a pthread_create failed: otherwise start_node waits for    *)
(* all of them, for any number of threads (server.c:329-340).                *)
THEOREM ThreadsReadInTime == Spec => []ArgOutlivesThreads
<1>1. ThreadInv => ArgOutlivesThreads
  BY LastThread DEF ThreadInv, ArgOutlivesThreads
<1> QED
  BY <1>1, ThreadInit, ThreadNext, PTL DEF Spec

-----------------------------------------------------------------------------
(* What a node with a thread has. *)

Served == epoll = Descriptors \ {"epoll"} /\ \A d \in Descriptors : got[d] = "descriptor"

(* Although three results are not looked at, the timers can only be created *)
(* when the epoll instance was, and that only when both sockets were.       *)
ServedInv ==
  /\ pc \in NotYet["epoll"] => epoll = {}
  /\ pc = "epoll" => /\ epoll = {c \in {"listener", "udp"} : (c = "listener" /\ step > 1) \/ (c = "udp" /\ step > 2)}
                     /\ \A c \in epoll : got[c] = "descriptor"
  /\ got["epoll"] = "descriptor" => {got["listener"], got["udp"]} = {"descriptor"}
  /\ pc = "files" /\ got["epoll"] = "descriptor" => epoll = {"listener", "udp"}
  /\ pc \in {"files", "hello"} /\ got["epoll"] # "descriptor" => epoll = {}
  /\ pc = "hello" => /\ step # 0 => got["epoll"] = "descriptor"
                     /\ got["epoll"] = "descriptor" =>
                          epoll = {"listener", "udp"} \cup (IF step > 2 THEN {"hello"} ELSE {})
  /\ pc = "cleanup" => /\ {got["epoll"], got["hello"]} = {"descriptor"}
                       /\ epoll = {"listener", "udp", "hello"} \cup (IF step > 2 THEN {"cleanup"} ELSE {})
  /\ pc \in {"threads", "join"} \/ (\E w \in Workers : worker[w] # "none") => Served

(* The last call of each function that creates a socket is bind, or comes   *)
(* behind it.                                                               *)
PortInv ==
  /\ bound = [d \in {"listener", "udp"} |-> bound[d]]
  /\ (pc = "listener" /\ step > 3) \/ got["listener"] = "descriptor" => bound["listener"] = config.srv_port
  /\ (pc = "udp" /\ step > 3) \/ got["udp"] = "descriptor" => bound["udp"] = config.broadcast_port

(* main, before it calls start_node and where it ends without. *)
Early == {"fopen", "fields", "noFile", "noJson", "noField", "undefined"}

EarlyInv ==
  /\ pc \in Early \cup Inside \cup {"returned", "exited"}
  /\ pc \in Early => epoll = {} /\ \A d \in Descriptors : got[d] = "nothing"

NodeInv == DescriptorInv /\ ThreadInv /\ ServedInv /\ PortInv /\ EarlyInv

LEMMA NodeInit == Init => NodeInv
<1> SUFFICES ASSUME Init PROVE NodeInv
  OBVIOUS
<1>1. DescriptorInv /\ ThreadInv
  BY DescriptorInit, ThreadInit
<1>2. ServedInv
  BY DescriptorsAre DEF Init, ServedInv
<1>3. PortInv
  BY DescriptorsAre DEF Init, PortInv
<1>4. EarlyInv
  BY DEF Init, EarlyInv, Early
<1> QED
  BY <1>1, <1>2, <1>3, <1>4 DEF NodeInv

LEMMA CallIs ==
  /\ \A i \in 1..4 : Calls["listener"][i] = "bind" <=> i = 3
  /\ \A i \in 1..3 : Calls["udp"][i] = "bind" <=> i = 3
  /\ Calls["epoll"][1] = "listener" /\ Calls["epoll"][2] = "udp"
  /\ Calls["hello"][1] = "timerfd_settime" /\ Calls["hello"][2] = "hello"
  /\ Calls["cleanup"][1] = "timerfd_settime" /\ Calls["cleanup"][2] = "cleanup"
  /\ \A i \in 1..4 : Calls["listener"][i] \notin Descriptors
  /\ \A i \in 1..3 : Calls["udp"][i] \notin Descriptors
  BY DescriptorsAre DEF Calls, ListenerCalls, UdpCalls, EpollCalls, HelloCalls, CleanupCalls

LEMMA PortNext ==
  ASSUME NodeInv, [Next]_vars
  PROVE  PortInv'
<1> USE DescriptorsAre
<1>0. DescriptorInv /\ PortInv /\ Counted /\ \A d \in Descriptors : OpenIff(d)
  BY DEF NodeInv, DescriptorInv
<1>1. ASSUME UNCHANGED <<bound, got, config>>, ~(pc' = "listener" /\ step' > 3), ~(pc' = "udp" /\ step' > 3) PROVE PortInv'
  BY <1>0, <1>1 DEF PortInv
<1>2. ASSUME UNCHANGED <<bound, got, config, pc, step>> PROVE PortInv'
  BY <1>0, <1>2 DEF PortInv
<1>3. ASSUME NoFile \/ ParseConfig \/ NoField \/ GetFiles \/ NoDirectory \/ NoThread \/ Join \/ Exit PROVE PortInv'
  <2>1. UNCHANGED <<bound, got, config, step>> /\ pc' \notin {"listener", "udp"}
    BY <1>3 DEF NoFile, ParseConfig, NoField, GetFiles, NoDirectory, NoThread, Join, Exit, Goto, nodeVars
  <2> QED
    BY <1>1, <2>1
<1>4. ASSUME GetFields PROVE PortInv'
  <2>1. UNCHANGED <<bound, got, step>> /\ pc = "fields" /\ pc' = "listener"
    BY <1>4 DEF GetFields, nodeVars
  <2>2. step = 0 /\ got["listener"] = "nothing" /\ got["udp"] = "nothing"
    BY <1>0, <2>1 DEF Counted, OpenIff, NotYet
  <2>3. bound' = [d \in {"listener", "udp"} |-> bound'[d]]
    BY <1>0, <2>1 DEF PortInv
  <2>4. step' = 0 /\ got'["listener"] = "nothing" /\ got'["udp"] = "nothing" /\ ~(step' > 3)
    BY <2>1, <2>2
  <2> QED
    BY <2>1, <2>3, <2>4 DEF PortInv
<1>5. ASSUME NEW w \in Workers, CreateThread(w) \/ WorkerStarts(w) \/ WorkerEnds(w) PROVE PortInv'
  <2>1. CASE CreateThread(w)
    <3>1. UNCHANGED <<bound, got, config, step>> /\ pc' \notin {"listener", "udp"}
      BY <2>1 DEF CreateThread, Goto
    <3> QED
      BY <1>1, <3>1
  <2>2. CASE WorkerStarts(w) \/ WorkerEnds(w)
    BY <1>2, <2>2 DEF WorkerStarts, WorkerEnds
  <2> QED
    BY <1>5, <2>1, <2>2
<1>6. ASSUME NEW d \in Descriptors, Open(d) PROVE PortInv'
  <2>1. UNCHANGED <<bound, got, config>> /\ step' = 1
    BY <1>6 DEF Open
  <2> QED
    BY <1>1, <2>1
<1>7. ASSUME NEW d \in Descriptors, OpenFails(d) \/ CallFails(d) PROVE PortInv'
  <2>1. UNCHANGED <<bound, config>> /\ step' = 0 /\ got' = [got EXCEPT ![d] = "-1"]
    BY <1>7 DEF OpenFails, CallFails, Returns
  <2>2. \A e \in Descriptors : got'[e] = "descriptor" => got[e] = "descriptor"
    BY <1>0, <2>1 DEF Counted
  <2>3. ~(step' > 3)
    BY <2>1
  <2> QED
    BY <1>0, <2>1, <2>2, <2>3 DEF PortInv
<1>8. ASSUME NEW d \in Descriptors, Call(d) PROVE PortInv'
  <2>1. /\ pc = d /\ pc' = pc /\ step' = step + 1 /\ got' = got /\ config' = config /\ step \in DOMAIN Calls[d] /\ step \in Nat
        /\ bound' = IF Calls[d][step] = "bind" THEN [bound EXCEPT ![d] = PortOf(d)] ELSE bound
    BY <1>0, <1>8 DEF Call, Counted
  <2>2. got[d] = "nothing"
    BY <1>0, <2>1 DEF OpenIff
  <2>3. CASE d = "listener"
    <3>1. step \in 1..4 /\ (Calls[d][step] = "bind" <=> step = 3)
      BY <2>1, <2>3, CallsAre, CallIs
    <3>2. CASE step = 3
      BY <1>0, <2>1, <2>2, <2>3, <3>1, <3>2 DEF PortInv, PortOf
    <3>3. CASE step # 3
      BY <1>0, <2>1, <2>2, <2>3, <3>1, <3>3 DEF PortInv
    <3> QED
      BY <3>2, <3>3
  <2>4. CASE d = "udp"
    <3>1. step \in 1..3 /\ (Calls[d][step] = "bind" <=> step = 3)
      BY <2>1, <2>4, CallsAre, CallIs
    <3>2. CASE step = 3
      BY <1>0, <2>1, <2>2, <2>4, <3>1, <3>2 DEF PortInv, PortOf
    <3>3. CASE step # 3
      BY <1>0, <2>1, <2>2, <2>4, <3>1, <3>3 DEF PortInv
    <3> QED
      BY <3>2, <3>3
  <2>5. CASE d \notin {"listener", "udp"}
    <3>1. Calls[d][step] # "bind"
      <4>1. step \in 1..2
        BY <2>1, <2>5, CallsAre
      <4> QED
        BY <2>5, <4>1, CallIs
    <3> QED
      BY <1>0, <2>1, <2>5, <3>1 DEF PortInv
  <2> QED
    BY <2>3, <2>4, <2>5
<1>9. ASSUME NEW d \in Descriptors, Created(d) PROVE PortInv'
  <2>1. /\ UNCHANGED <<bound, config>> /\ step' = 0 /\ got' = [got EXCEPT ![d] = "descriptor"]
        /\ pc = d /\ step = Len(Calls[d]) + 1
    BY <1>9 DEF Created, Returns
  <2>2. \A e \in Descriptors \ {d} : got'[e] = got[e]
    BY <1>0, <2>1 DEF Counted
  <2>3. d \in {"listener", "udp"} => step > 3
    <3>1. d \in {"listener", "udp"} => Len(Calls[d]) \in {3, 4}
      BY CallsAre
    <3> QED
      BY <2>1, <3>1
  <2>4. ~(step' > 3)
    BY <2>1
  <2> QED
    BY <1>0, <2>1, <2>2, <2>3, <2>4 DEF PortInv
<1> QED
  BY <1>2, <1>3, <1>4, <1>5, <1>6, <1>7, <1>8, <1>9 DEF Next, Done, vars

LEMMA ServedNext ==
  ASSUME NodeInv, [Next]_vars
  PROVE  ServedInv'
<1> USE DescriptorsAre
<1>0. /\ DescriptorInv /\ ServedInv /\ ThreadInv /\ Counted /\ \A d \in Descriptors : OpenIff(d)
      /\ step \in Nat
  BY DEF NodeInv, DescriptorInv, Counted
<1>1. ASSUME UNCHANGED <<epoll, got, worker>>, UNCHANGED <<pc, step>> \/ pc' \notin Inside \/ (pc' \in NotYet["epoll"] /\ pc \in NotYet["epoll"]) PROVE ServedInv'
  <2>1. CASE UNCHANGED <<pc, step>>
    BY <1>0, <1>1, <2>1 DEF ServedInv, Served
  <2>2. CASE pc' \notin Inside
    <3>1. /\ pc' \notin NotYet["epoll"] /\ pc' \notin {"epoll", "files", "hello", "cleanup", "threads", "join"}
      BY <2>2 DEF Inside, NotYet
    <3> QED
      BY <1>0, <1>1, <3>1 DEF ServedInv, Served
  <2>3. CASE pc' \in NotYet["epoll"] /\ pc \in NotYet["epoll"]
    <3>1. pc' \notin {"epoll", "files", "hello", "cleanup", "threads", "join"}
      BY <2>3 DEF NotYet
    <3> QED
      BY <1>0, <1>1, <2>3, <3>1 DEF ServedInv, Served
  <2> QED
    BY <1>1, <2>1, <2>2, <2>3
<1>2. ASSUME NoFile \/ ParseConfig \/ NoField \/ GetFields \/ NoDirectory \/ NoThread PROVE ServedInv'
  <2>1. UNCHANGED <<epoll, got, worker>>
    BY <1>2 DEF NoFile, ParseConfig, NoField, GetFields, NoDirectory, NoThread, Goto, nodeVars
  <2>2. \/ pc' \in {"noFile", "noJson", "undefined", "noField", "returned"}
        \/ pc \in {"fopen", "fields"} /\ pc' \in {"fields", "listener"}
    BY <1>2 DEF NoFile, ParseConfig, NoField, GetFields, NoDirectory, NoThread, Goto
  <2>3. pc' \notin Inside \/ (pc' \in NotYet["epoll"] /\ pc \in NotYet["epoll"])
    BY <2>2 DEF Inside, NotYet
  <2> QED
    BY <1>1, <2>1, <2>3
<1>3. ASSUME GetFiles PROVE ServedInv'
  <2>1. UNCHANGED <<epoll, got, step, worker>> /\ pc = "files" /\ pc' = "hello"
    BY <1>3 DEF GetFiles, Goto
  <2>2. step = 0
    BY <1>0, <2>1 DEF Counted
  <2>3. \A w \in Workers : worker[w] = "none"
    BY <1>0, <2>1 DEF ThreadInv
  <2>4. "hello" \notin NotYet["epoll"]
    BY DEF NotYet
  <2> QED
    BY <1>0, <2>1, <2>2, <2>3, <2>4 DEF ServedInv
<1>4. ASSUME Join PROVE ServedInv'
  <2>1. UNCHANGED <<epoll, got, worker>> /\ pc' = "returned"
    BY <1>4 DEF Join
  <2>2. pc' \notin Inside
    BY <2>1 DEF Inside, NotYet
  <2> QED
    BY <1>1, <2>1, <2>2
<1>5. ASSUME Exit PROVE ServedInv'
  <2>1. epoll' = {} /\ got' = got /\ pc' = "exited" /\ \A w \in Workers : worker'[w] = "none"
    BY <1>5 DEF Exit
  <2>2. "exited" \notin NotYet["epoll"]
    BY DEF NotYet
  <2> QED
    BY <1>0, <2>1, <2>2 DEF ServedInv
<1>6. ASSUME NEW w \in Workers, CreateThread(w) \/ WorkerStarts(w) \/ WorkerEnds(w) PROVE ServedInv'
  <2>1. UNCHANGED <<epoll, got>>
    BY <1>6 DEF CreateThread, WorkerStarts, WorkerEnds, Goto
  <2>2. Served
    <3>1. pc = "threads" \/ worker[w] # "none"
      BY <1>6 DEF CreateThread, WorkerStarts, WorkerEnds
    <3> QED
      BY <1>0, <3>1 DEF ServedInv
  <2>3. pc \in {"threads", "join", "returned"}
    <3>1. pc = "threads" \/ worker[w] # "none"
      BY <1>6 DEF CreateThread, WorkerStarts, WorkerEnds
    <3> QED
      BY <1>0, <3>1 DEF ThreadInv
  <2>4. pc' \in {"threads", "join", "returned"}
    BY <1>6, <2>3 DEF CreateThread, WorkerStarts, WorkerEnds, Goto
  <2>5. Served'
    BY <2>1, <2>2 DEF Served
  <2>6. pc' \notin NotYet["epoll"]
    BY <2>4 DEF NotYet
  <2> QED
    BY <2>4, <2>5, <2>6, <1>0, <2>1 DEF ServedInv
<1>7. ASSUME NEW d \in Descriptors, Open(d) PROVE ServedInv'
  <2>1. UNCHANGED <<epoll, got, worker, pc>> /\ step' = 1 /\ step = 0 /\ pc = d /\ ArgumentsOK(d)
    BY <1>7 DEF Open
  <2>2. d = "hello" => got["epoll"] = "descriptor"
    BY <2>1 DEF ArgumentsOK
  <2>3. ~(step > 1) /\ ~(step > 2) /\ ~(step' > 1) /\ ~(step' > 2)
    BY <2>1
  <2>4. Served => Served'
    BY <2>1 DEF Served
  <2> QED
    BY <1>0, <2>1, <2>2, <2>3, <2>4 DEF ServedInv
<1>8. ASSUME NEW d \in Descriptors, OpenFails(d) \/ CallFails(d) PROVE ServedInv'
  <2>1. /\ pc = d /\ step' = 0 /\ got' = [got EXCEPT ![d] = "-1"] /\ worker' = worker /\ pc' = After(d, "-1")
        /\ IF d = "epoll" THEN epoll' = {} ELSE epoll' = epoll
    <3>1. CASE OpenFails(d)
      <4>1. pc = d /\ step = 0 /\ epoll' = epoll /\ ~(step > 1) /\ ~(step > 2)
        BY <3>1 DEF OpenFails
      <4>2. d = "epoll" => epoll = {}
        BY <1>0, <4>1 DEF ServedInv
      <4> QED
        BY <3>1, <4>1, <4>2 DEF OpenFails, Returns
    <3>2. CASE CallFails(d)
      <4>1. d \in Closes[d][step] /\ Closes[d][step] = {d}
        BY <3>2, ClosesAre DEF CallFails
      <4> QED
        BY <3>2, <4>1 DEF CallFails, Returns
    <3> QED
      BY <1>8, <3>1, <3>2
  <2>2. got'[d] = "-1" /\ \A e \in Descriptors \ {d} : got'[e] = got[e]
    BY <1>0, <2>1 DEF Counted
  <2>3. \A w \in Workers : worker[w] = "none"
    BY <1>0, <2>1 DEF ThreadInv
  <2>4. pc' = CASE d = "listener" -> "udp" [] d = "udp" -> "epoll" [] d = "epoll" -> "files"
              [] d = "hello" -> "returned" [] d = "cleanup" -> "returned"
    BY <2>1 DEF After
  <2>5. got["epoll"] = "descriptor" => d \notin {"listener", "udp"}
    BY <1>0, <2>1 DEF OpenIff, NotYet
  <2>6. CASE d \in {"listener", "udp"}
    <3>1. epoll = {} /\ epoll' = {}
      BY <1>0, <2>1, <2>6 DEF ServedInv, NotYet
    <3>2. pc' \in {"udp", "epoll"} /\ got'["epoll"] # "descriptor" /\ ~(step' > 1) /\ ~(step' > 2)
      BY <2>1, <2>2, <2>4, <2>5, <2>6
    <3> QED
      BY <2>1, <2>3, <3>1, <3>2 DEF ServedInv
  <2>7. CASE d = "epoll"
    <3>1. pc' = "files" /\ got'["epoll"] # "descriptor" /\ pc' \notin NotYet["epoll"] /\ epoll' = {}
      BY <2>1, <2>2, <2>4, <2>7 DEF NotYet
    <3> QED
      BY <2>1, <2>3, <3>1 DEF ServedInv
  <2>8. CASE d \in {"hello", "cleanup"}
    <3>1. pc' = "returned" /\ pc' \notin NotYet["epoll"]
      BY <2>4, <2>8 DEF NotYet
    <3> QED
      BY <1>0, <2>1, <2>2, <2>3, <2>8, <3>1 DEF ServedInv
  <2> QED
    BY <2>6, <2>7, <2>8
<1>9. ASSUME NEW d \in Descriptors, Call(d) PROVE ServedInv'
  <2>1. /\ pc = d /\ pc' = pc /\ step' = step + 1 /\ got' = got /\ worker' = worker /\ step \in DOMAIN Calls[d]
        /\ Possible(d, Calls[d][step])
        /\ epoll' = IF Calls[d][step] \in Descriptors THEN epoll \cup {Calls[d][step]} ELSE epoll
    BY <1>9 DEF Call
  <2>2. \A w \in Workers : worker[w] = "none"
    BY <1>0, <2>1 DEF ThreadInv
  <2>3. CASE d \in {"listener", "udp"}
    <3>1. Calls[d][step] \notin Descriptors
      BY <2>1, <2>3, CallsAre, CallIs
    <3>2. pc' \notin {"epoll", "files", "hello", "cleanup", "threads", "join"}
      BY <2>1, <2>3
    <3> QED
      BY <1>0, <2>1, <2>2, <3>1, <3>2 DEF ServedInv
  <2>4. CASE d = "epoll"
    <3>1. step \in 1..2 /\ "epoll" \notin NotYet["epoll"] /\ got["epoll"] = "nothing"
      BY <1>0, <2>1, <2>4, CallsAre DEF NotYet, OpenIff
    <3>2. got[Calls[d][step]] = "descriptor"
      BY <2>1, <2>4 DEF Possible
    <3>3. CASE step = 1
      <4>1. epoll' = {"listener"} /\ got["listener"] = "descriptor" /\ step' = 2
        BY <1>0, <2>1, <2>4, <3>2, <3>3, CallIs DEF ServedInv
      <4> QED
        BY <2>1, <2>2, <2>4, <3>1, <4>1 DEF ServedInv
    <3>4. CASE step = 2
      <4>1. epoll' = {"listener", "udp"} /\ got["listener"] = "descriptor" /\ got["udp"] = "descriptor" /\ step' = 3
        BY <1>0, <2>1, <2>4, <3>2, <3>4, CallIs DEF ServedInv
      <4> QED
        BY <2>1, <2>2, <2>4, <3>1, <4>1 DEF ServedInv
    <3> QED
      BY <3>1, <3>3, <3>4
  <2>5. CASE d \in {"hello", "cleanup"}
    <3>1. step \in 1..2 /\ d \notin NotYet["epoll"] /\ step # 0 /\ step' # 0
      <4>1. step \in 1..2
        BY <2>1, <2>5, CallsAre
      <4> QED
        BY <2>1, <2>5, <4>1 DEF NotYet
    <3>2. CASE step = 1
      <4>1. epoll' = epoll /\ ~(step > 2) /\ ~(step' > 2)
        BY <2>1, <2>5, <3>2, CallIs
      <4> QED
        BY <1>0, <2>1, <2>2, <2>5, <3>1, <4>1 DEF ServedInv
    <3>3. CASE step = 2
      <4>1. epoll' = epoll \cup {d} /\ ~(step > 2) /\ step' > 2
        BY <2>1, <2>5, <3>3, CallIs
      <4> QED
        BY <1>0, <2>1, <2>2, <2>5, <3>1, <4>1 DEF ServedInv
    <3> QED
      BY <3>1, <3>2, <3>3
  <2> QED
    BY <2>3, <2>4, <2>5
<1>10. ASSUME NEW d \in Descriptors, Created(d) PROVE ServedInv'
  <2>1. /\ pc = d /\ step' = 0 /\ got' = [got EXCEPT ![d] = "descriptor"] /\ worker' = worker
        /\ pc' = After(d, "descriptor") /\ epoll' = epoll /\ step = Len(Calls[d]) + 1
    BY <1>10 DEF Created, Returns
  <2>2. got'[d] = "descriptor" /\ \A e \in Descriptors \ {d} : got'[e] = got[e]
    BY <1>0, <2>1 DEF Counted
  <2>3. \A w \in Workers : worker[w] = "none"
    BY <1>0, <2>1 DEF ThreadInv
  <2>4. pc' = CASE d = "listener" -> "udp" [] d = "udp" -> "epoll" [] d = "epoll" -> "files"
              [] d = "hello" -> "cleanup" [] d = "cleanup" -> "threads"
    BY <2>1 DEF After
  <2>5. d \in {"epoll", "hello", "cleanup"} => step = 3 /\ step > 1 /\ step > 2
    <3>1. d \in {"epoll", "hello", "cleanup"} => Len(Calls[d]) = 2
      BY CallsAre
    <3>2. d \in {"epoll", "hello", "cleanup"} => step = 2 + 1
      BY <2>1, <3>1
    <3> QED
      BY <3>2
  <2>6. CASE d \in {"listener", "udp"}
    <3>1. epoll = {} /\ epoll' = {} /\ got["epoll"] # "descriptor" /\ ~(step' > 1) /\ ~(step' > 2)
      BY <1>0, <2>1, <2>6 DEF ServedInv, NotYet, OpenIff
    <3>2. pc' \in {"udp", "epoll"} /\ got'["epoll"] # "descriptor"
      BY <2>2, <2>4, <2>6, <3>1
    <3> QED
      BY <2>1, <2>3, <3>1, <3>2 DEF ServedInv
  <2>7. CASE d = "epoll"
    <3>1. pc' = "files" /\ pc' \notin NotYet["epoll"]
      BY <2>4, <2>7 DEF NotYet
    <3>2. epoll = {"listener", "udp"} /\ got["listener"] = "descriptor" /\ got["udp"] = "descriptor"
      BY <1>0, <2>1, <2>5, <2>7 DEF ServedInv
    <3> QED
      BY <2>1, <2>2, <2>3, <2>7, <3>1, <3>2 DEF ServedInv
  <2>8. CASE d = "hello"
    <3>1. pc' = "cleanup" /\ pc' \notin NotYet["epoll"] /\ ~(step' > 2)
      BY <2>1, <2>4, <2>8 DEF NotYet
    <3>2. epoll = {"listener", "udp", "hello"} /\ got["epoll"] = "descriptor"
      <4>1. got["epoll"] = "descriptor"
        BY <1>0, <2>1, <2>5, <2>8 DEF ServedInv
      <4> QED
        BY <1>0, <2>1, <2>5, <2>8, <4>1 DEF ServedInv
    <3>3. got["listener"] = "descriptor" /\ got["udp"] = "descriptor"
      BY <1>0, <3>2 DEF ServedInv
    <3> QED
      BY <2>1, <2>2, <2>3, <2>8, <3>1, <3>2, <3>3 DEF ServedInv
  <2>9. CASE d = "cleanup"
    <3>1. pc' = "threads" /\ pc' \notin NotYet["epoll"]
      BY <2>4, <2>9 DEF NotYet
    <3>2. epoll = {"listener", "udp", "hello", "cleanup"} /\ got["epoll"] = "descriptor" /\ got["hello"] = "descriptor"
      BY <1>0, <2>1, <2>5, <2>9 DEF ServedInv
    <3>3. got["listener"] = "descriptor" /\ got["udp"] = "descriptor"
      BY <1>0, <3>2 DEF ServedInv
    <3>4. Served'
      BY <2>1, <2>2, <2>9, <3>2, <3>3 DEF Served
    <3> QED
      BY <2>2, <2>9, <3>1, <3>2, <3>3, <3>4 DEF ServedInv
  <2> QED
    BY <2>6, <2>7, <2>8, <2>9
<1>11. ASSUME UNCHANGED vars PROVE ServedInv'
  BY <1>1, <1>11 DEF vars
<1> QED
  BY <1>2, <1>3, <1>4, <1>5, <1>6, <1>7, <1>8, <1>9, <1>10, <1>11 DEF Next, Done

LEMMA EarlyNext == EarlyInv /\ [Next]_vars => EarlyInv'
<1> SUFFICES ASSUME EarlyInv, [Next]_vars
             PROVE  /\ pc' \in Early \cup Inside \cup {"returned", "exited"}
                    /\ pc' \in Early => pc \in Early /\ UNCHANGED <<epoll, got>>
  BY DEF EarlyInv
<1>1. ASSUME NEW d \in Descriptors, Open(d) \/ OpenFails(d) \/ Call(d) \/ CallFails(d) \/ Created(d)
      PROVE  pc' \in (Inside \cup {"returned"}) \ Early
  <2>1. d \in Inside \ Early
    BY DescriptorsAre DEF Early, Inside, NotYet
  <2>2. \A r : After(d, r) \in (Inside \cup {"returned"}) \ Early
    BY DescriptorsAre DEF Early, Inside, NotYet, After
  <2>3. pc = d /\ (pc' = pc \/ \E r : pc' = After(d, r))
    BY <1>1 DEF Open, OpenFails, Call, CallFails, Created, Returns
  <2> QED
    BY <2>1, <2>2, <2>3
<1>2. ASSUME NoFile \/ ParseConfig \/ NoField PROVE pc' \in Early /\ pc \in Early /\ UNCHANGED <<epoll, got>>
  BY <1>2 DEF NoFile, ParseConfig, NoField, nodeVars, Early
<1>3. ASSUME GetFields \/ GetFiles PROVE pc' \in Inside \ Early
  BY <1>3 DEF GetFields, GetFiles, Goto, Inside, NotYet, Early
<1>4. ASSUME NEW w \in Workers, CreateThread(w) PROVE pc' \in Inside \ Early
  BY <1>4 DEF CreateThread, Goto, Inside, NotYet, Early
<1>5. ASSUME NoDirectory \/ NoThread \/ Join \/ Exit PROVE pc' \in {"returned", "exited"} \ Early
  BY <1>5 DEF NoDirectory, NoThread, Join, Exit, Goto, Early
<1>6. ASSUME UNCHANGED <<pc, epoll, got>>
      PROVE  /\ pc' \in Early \cup Inside \cup {"returned", "exited"}
             /\ pc' \in Early => pc \in Early /\ UNCHANGED <<epoll, got>>
  BY <1>6 DEF EarlyInv
<1> QED
  BY <1>1, <1>2, <1>3, <1>4, <1>5, <1>6 DEF Next, Done, vars, WorkerStarts, WorkerEnds

LEMMA NodeNext == NodeInv /\ [Next]_vars => NodeInv'
  BY DescriptorNext, ThreadNext, PortNext, ServedNext, EarlyNext DEF NodeInv

(* Whichever of the thirteen calls fails, and whatever failed before it, the *)
(* descriptors open between two functions are those returned, and epoll has *)
(* only open ones, and none once its instance is closed                     *)
(* (network.c:15-73, 111-160; events.c:16-60, 167-250; server.c:281-321).   *)
THEOREM FailuresAreClosed == Spec => []ReturnedIsOpen
<1>1. ASSUME NodeInv PROVE ReturnedIsOpen
  <2> USE DescriptorsAre
  <2>1. \A d \in Descriptors : OpenIff(d)
    BY <1>1 DEF NodeInv, DescriptorInv
  <2>2. ServedInv /\ Counted
    BY <1>1 DEF NodeInv, DescriptorInv
  <2>3. \A d \in Descriptors : d \in fds /\ pc # d => got[d] = "descriptor"
    BY <2>1 DEF OpenIff
  <2>4. ASSUME pc \notin {"returned", "exited"}
        PROVE  /\ \A d \in Descriptors : got[d] = "descriptor" => d \in fds
               /\ epoll \subseteq fds /\ (epoll # {} => "epoll" \in fds)
    <3>1. CASE pc \in Early
      <4>1. epoll = {} /\ \A d \in Descriptors : got[d] # "descriptor"
        BY <1>1, <3>1 DEF NodeInv, EarlyInv
      <4> QED
        BY <4>1
    <3>2. CASE pc \in Inside \ Early
      <4>1. \A d \in Descriptors : got[d] = "descriptor" => d \in fds
        BY <2>1, <3>2 DEF OpenIff
      <4>2. epoll # {} => /\ pc \in {"epoll", "hello", "cleanup", "files", "threads", "join"}
                          /\ pc = "epoll" \/ got["epoll"] = "descriptor"
        BY <2>2, <3>2 DEF ServedInv, Inside, NotYet, Early, Served
      <4>3. pc = "epoll" /\ epoll # {} => step # 0
        BY <2>2 DEF ServedInv
      <4>4. epoll # {} => "epoll" \in fds
        BY <2>1, <4>1, <4>2, <4>3 DEF OpenIff
      <4>5. pc \notin epoll \/ step # 0
        <5>1. CASE pc = "epoll"
          BY <2>2, <5>1 DEF ServedInv
        <5>2. CASE pc = "hello"
          <6>1. step = 0 => ~(step > 2)
            OBVIOUS
          <6> QED
            BY <2>2, <4>2, <5>2, <6>1 DEF ServedInv
        <5>3. CASE pc = "cleanup"
          <6>1. step = 0 => ~(step > 2)
            OBVIOUS
          <6> QED
            BY <2>2, <5>3, <6>1 DEF ServedInv
        <5>4. CASE pc \notin {"epoll", "hello", "cleanup"}
          BY <2>2, <4>2, <5>4 DEF Counted
        <5> QED
          BY <5>1, <5>2, <5>3, <5>4
      <4>6. \A c \in epoll : pc = c \/ got[c] = "descriptor"
        <5>1. CASE pc = "epoll"
          BY <2>2, <5>1 DEF ServedInv
        <5>2. CASE pc = "files"
          BY <2>2, <5>2 DEF ServedInv
        <5>3. CASE pc = "hello"
          BY <2>2, <5>3 DEF ServedInv
        <5>4. CASE pc = "cleanup"
          BY <2>2, <5>4 DEF ServedInv
        <5>5. CASE pc \in {"threads", "join"}
          BY <2>2, <5>5 DEF ServedInv, Served
        <5> QED
          BY <4>2, <5>1, <5>2, <5>3, <5>4, <5>5
      <4>7. \A c \in epoll : c \in Descriptors
        BY <2>2 DEF Counted
      <4>8. \A c \in epoll : c \in fds
        BY <2>1, <4>1, <4>5, <4>6, <4>7 DEF OpenIff
      <4> QED
        BY <4>1, <4>4, <4>8
    <3>3. pc \in Inside \cup Early
      BY <1>1, <2>4 DEF NodeInv, EarlyInv
    <3> QED
      BY <3>1, <3>2, <3>3
  <2> QED
    BY <2>3, <2>4 DEF ReturnedIsOpen
<1> QED
  BY <1>1, NodeInit, NodeNext, PTL DEF Spec

(* What config_buffer holds of a file of which the bytes b were written. *)
Held(b, t) == SubSeq(b \o t, 1, Min({BUFFER, Len(b \o t)}))

Parsing(b, t) == cJSON_Parse(Append(CString(Held(b, t)), 0))

(* The parse of b and what follows it has all of the fields. *)
Accepted(b, t) ==
  /\ 0 \in Range(Held(b, t)) /\ Parsing(b, t).ok
  /\ \A g \in DOMAIN Fields : FieldOK(Parsing(b, t).item, g)

(* The values of the fields are those the item has. *)
Agreed(b, t, item) ==
  \A g \in DOMAIN Fields : FieldValue(Parsing(b, t).item, g) = FieldValue(item, g)

(* Wherever all of the fields are found, in a file and what follows it in   *)
(* the buffer, they are those the file means.                               *)
FieldsAreMeant ==
  \A f \in Files, t \in Stacks : \A k \in 0..Len(f.bytes) :
    f.means # Unknown /\ Accepted(SubSeq(f.bytes, 1, k), t) => Agreed(SubSeq(f.bytes, 1, k), t, f.means)

IsFile(f, k) == file = [bytes |-> SubSeq(f.bytes, 1, k), whole |-> k = Len(f.bytes), means |-> f.means]

FileInv ==
  /\ \E f \in Files : \E k \in 0..Len(f.bytes) : IsFile(f, k)
  /\ stack \in Stacks
  /\ pc \in {"fields", "noJson"} => 0 \in Range(Buffer) /\ json = Parsing(file.bytes, stack)
  /\ pc = "fields" => json.ok
  /\ pc = "noJson" => ~json.ok

(* After the configuration was taken from the item. *)
Configured == pc \notin {"fopen", "fields", "noFile", "noJson", "noField", "undefined"}

ConfigInv ==
  Configured /\ file.means # Unknown => config = [g \in DOMAIN Fields |-> FieldValue(file.means, g)]

LEMMA FileInit == Init => FileInv /\ ConfigInv
<1> SUFFICES ASSUME Init PROVE FileInv /\ ConfigInv
  OBVIOUS
<1>1. \E f \in Files : \E k \in 0..Len(f.bytes) : IsFile(f, k)
  BY DEF Init, IsFile
<1>2. stack \in Stacks /\ pc = "fopen"
  BY DEF Init
<1> QED
  BY <1>1, <1>2 DEF FileInv, ConfigInv, Configured

LEMMA FileNext == FileInv /\ [Next]_vars => FileInv'
<1> SUFFICES ASSUME FileInv, [Next]_vars PROVE FileInv'
  OBVIOUS
<1>1. UNCHANGED <<file, stack>>
  BY DEF Next, Done, vars, NoFile, ParseConfig, NoField, GetFields, GetFiles, NoDirectory, NoThread, Join, Exit, Goto,
         CreateThread, WorkerStarts, WorkerEnds, Open, OpenFails, Call, CallFails, Created
<1>2. Buffer' = Buffer /\ \A f, k : IsFile(f, k)' <=> IsFile(f, k)
  BY <1>1 DEF Buffer, IsFile
<1>3. CASE UNCHANGED <<pc, json>>
  BY <1>1, <1>2, <1>3 DEF FileInv
<1>4. CASE pc' \notin {"fields", "noJson"}
  BY <1>1, <1>2, <1>4 DEF FileInv
<1>5. CASE ParseConfig
  <2>1. CASE 0 \in Range(Buffer)
    <3> DEFINE p == Parsing(file.bytes, stack)
    <3>1. json' = p /\ pc' = IF p.ok THEN "fields" ELSE "noJson"
      BY <1>5, <2>1 DEF ParseConfig, Parsing, Held, Buffer
    <3>2. Parsing(file.bytes, stack)' = p
      BY <1>1 DEF Parsing, Held
    <3> HIDE DEF p
    <3> QED
      BY <1>1, <1>2, <2>1, <3>1, <3>2 DEF FileInv
  <2>2. CASE ~(0 \in Range(Buffer))
    BY <1>4, <1>5, <2>2 DEF ParseConfig
  <2> QED
    BY <2>1, <2>2
<1>6. UNCHANGED <<pc, json>> \/ pc' \notin {"fields", "noJson"} \/ ParseConfig
  <2>1. ASSUME NEW d \in Descriptors, Open(d) \/ OpenFails(d) \/ Call(d) \/ CallFails(d) \/ Created(d)
        PROVE  UNCHANGED <<pc, json>> \/ pc' \notin {"fields", "noJson"}
    <3>1. \A r : After(d, r) \notin {"fields", "noJson"}
      BY DescriptorsAre DEF After
    <3> QED
      BY <2>1, <3>1 DEF Open, OpenFails, Call, CallFails, Created, Returns
  <2> QED
    BY <2>1 DEF Next, Done, vars, NoFile, NoField, GetFields, GetFiles, NoDirectory, NoThread, Join, Exit, Goto,
         CreateThread, WorkerStarts, WorkerEnds
<1> QED
  BY <1>3, <1>4, <1>5, <1>6

LEMMA ConfigNext == FieldsAreMeant /\ FileInv /\ ConfigInv /\ [Next]_vars => ConfigInv'
<1> SUFFICES ASSUME FieldsAreMeant, FileInv, ConfigInv, [Next]_vars PROVE ConfigInv'
  OBVIOUS
<1>1. UNCHANGED file
  BY DEF Next, Done, vars, NoFile, ParseConfig, NoField, GetFields, GetFiles, NoDirectory, NoThread, Join, Exit, Goto,
         CreateThread, WorkerStarts, WorkerEnds, Open, OpenFails, Call, CallFails, Created
<1>2. ASSUME GetFields PROVE ConfigInv'
  <2>1. /\ pc = "fields" /\ \A g \in DOMAIN Fields : FieldOK(json.item, g)
        /\ config' = [g \in DOMAIN Fields |-> FieldValue(json.item, g)]
    BY <1>2 DEF GetFields
  <2>2. PICK f \in Files : \E k \in 0..Len(f.bytes) : IsFile(f, k)
    BY DEF FileInv
  <2>3. PICK k \in 0..Len(f.bytes) : IsFile(f, k)
    BY <2>2
  <2>4. file.bytes = SubSeq(f.bytes, 1, k) /\ file.means = f.means
    BY <2>3 DEF IsFile
  <2>5. stack \in Stacks /\ 0 \in Range(Held(file.bytes, stack)) /\ json = Parsing(file.bytes, stack) /\ json.ok
    BY <2>1 DEF FileInv, Buffer, Held
  <2>6. file.means # Unknown => \A g \in DOMAIN Fields : FieldValue(json.item, g) = FieldValue(file.means, g)
    BY <2>1, <2>4, <2>5 DEF FieldsAreMeant, Accepted, Agreed
  <2> QED
    BY <1>1, <2>1, <2>6 DEF ConfigInv
<1>3. ASSUME UNCHANGED config, Configured \/ ~Configured' PROVE ConfigInv'
  BY <1>1, <1>3 DEF ConfigInv
<1>4. ASSUME NEW d \in Descriptors, Open(d) \/ OpenFails(d) \/ Call(d) \/ CallFails(d) \/ Created(d) PROVE ConfigInv'
  <2>1. Configured
    BY <1>4, DescriptorsAre DEF Configured, Open, OpenFails, Call, CallFails, Created
  <2> QED
    BY <1>3, <1>4, <2>1 DEF Open, OpenFails, Call, CallFails, Created
<1>5. ASSUME NoFile \/ ParseConfig \/ NoField \/ GetFiles \/ NoDirectory \/ NoThread \/ Join \/ Exit PROVE ConfigInv'
  <2>1. UNCHANGED config
    BY <1>5 DEF NoFile, ParseConfig, NoField, GetFiles, NoDirectory, NoThread, Join, Exit, Goto, nodeVars
  <2>2. Configured \/ ~Configured'
    BY <1>5 DEF NoFile, ParseConfig, NoField, GetFiles, NoDirectory, NoThread, Join, Exit, Goto, Configured
  <2> QED
    BY <1>3, <2>1, <2>2
<1>6. ASSUME NEW w \in Workers, CreateThread(w) \/ WorkerStarts(w) \/ WorkerEnds(w) PROVE ConfigInv'
  BY <1>3, <1>6 DEF CreateThread, WorkerStarts, WorkerEnds, Goto, Configured
<1>7. ASSUME UNCHANGED vars PROVE ConfigInv'
  BY <1>3, <1>7 DEF vars, Configured
<1> QED
  BY <1>2, <1>4, <1>5, <1>6, <1>7 DEF Next, Done

LEMMA NodeServes == NodeInv /\ ConfigInv => ServesAsConfigured
<1> SUFFICES ASSUME NodeInv, ConfigInv, NEW w \in Workers, worker[w] # "none"
             PROVE  /\ Descriptors \ {"epoll"} = epoll /\ \A d \in epoll : got[d] = "descriptor"
                    /\ pc = "join" => fds = Descriptors
                    /\ file.means # Unknown =>
                         /\ bound = [listener |-> FieldValue(file.means, "srv_port"),
                                     udp |-> FieldValue(file.means, "broadcast_port")]
                         /\ config = [f \in DOMAIN Fields |-> FieldValue(file.means, f)]
  BY DEF ServesAsConfigured
<1>1. Served
  BY DEF NodeInv, ServedInv
<1>2. pc = "join" => fds = Descriptors
  <2>1. \A d \in Descriptors : pc = "join" => d \in fds
    BY <1>1 DEF Served, NodeInv, DescriptorInv, OpenIff, Inside
  <2> QED
    BY <2>1 DEF NodeInv, DescriptorInv, Counted
<1>3. pc \in {"threads", "join", "returned"}
  BY DEF NodeInv, ThreadInv
<1>4. file.means # Unknown => config = [f \in DOMAIN Fields |-> FieldValue(file.means, f)]
  BY <1>3 DEF ConfigInv, Configured
<1>5. /\ bound = [d \in {"listener", "udp"} |-> bound[d]]
      /\ bound["listener"] = config.srv_port /\ bound["udp"] = config.broadcast_port
  BY <1>1, DescriptorsAre DEF NodeInv, PortInv, Served
<1>6. DOMAIN Fields = {"srv_name", "srv_port", "srv_ip", "broadcast_port", "broadcast_ip"}
  BY DEF Fields
<1>7. file.means # Unknown => bound = [listener |-> FieldValue(file.means, "srv_port"),
                                       udp |-> FieldValue(file.means, "broadcast_port")]
  BY <1>4, <1>5, <1>6
<1> QED
  BY <1>1, <1>2, <1>4, <1>7 DEF Served

-----------------------------------------------------------------------------
(* What the parse makes of the buffer. *)

(* The 0 that ends the text is behind the file and what is read of it. *)
HeldGood(b, t) == 0 \notin Range(b) /\ 0 \in Range(Held(b, t))

LEMMA HeldIs ==
  ASSUME NEW b \in Text, NEW t \in Text, HeldGood(b, t), NEW h, h = CString(Held(b, t))
  PROVE  /\ h \in Text /\ Len(h) \in Nat /\ Len(b) \in Nat /\ Len(b) <= Len(h)
         /\ \A i \in 1..Len(b) : h[i] = b[i]
         /\ t[1] = 0 => h = b
<1> DEFINE all == b \o t
           n == Min({BUFFER, Len(all)})
           u == Held(b, t)
           zeros == {k \in DOMAIN u : u[k] = 0}
           z == Min(zeros)
<1>1. /\ all \in Text /\ Len(all) = Len(b) + Len(t) /\ Len(b) \in Nat /\ Len(t) \in Nat
      /\ \A i \in 1..Len(all) : all[i] = IF i <= Len(b) THEN b[i] ELSE t[i - Len(b)]
  BY ConcatProperties, LenProperties DEF Text
<1> HIDE DEF all
<1>2. n \in 0..Len(all) /\ n \in Nat
  <2>1. Len(all) \in Nat /\ BUFFER \in Nat
    BY <1>1, StartAssumption DEF StartAssumption
  <2>2. \E x \in {BUFFER, Len(all)} : \A y \in {BUFFER, Len(all)} : x <= y
    BY <2>1
  <2>3. n \in {BUFFER, Len(all)} /\ \A y \in {BUFFER, Len(all)} : n <= y
    BY <2>2 DEF Min
  <2> HIDE DEF n
  <2> QED
    BY <2>1, <2>3
<1>3. u = SubSeq(all, 1, n)
  BY DEF Held, all
<1> HIDE DEF n, u
<1>4. u \in Text /\ Len(u) = n /\ \A i \in 1..n : u[i] = all[i]
  BY <1>1, <1>2, <1>3, PrefixText
<1>5. DOMAIN u = 1..n
  BY <1>4, LenProperties DEF Text
<1>6. zeros # {} /\ zeros \subseteq 1..n
  <2>1. PICK k \in DOMAIN u : u[k] = 0
    BY DEF HeldGood, Range, u
  <2> QED
    BY <1>5, <2>1
<1>7. z \in 1..n /\ u[z] = 0 /\ \A k \in 1..n : u[k] = 0 => z <= k
  <2>1. zeros \in SUBSET Nat
    BY <1>2, <1>6
  <2>2. \A k \in DOMAIN u : u[k] = 0 <=> k \in zeros
    OBVIOUS
  <2> HIDE DEF zeros
  <2>3. \E e \in zeros : \A k \in zeros : e <= k
    BY <1>6, <2>1, TextRecursion!Least
  <2>4. z \in zeros /\ \A k \in zeros : z <= k
    BY <2>3 DEF Min
  <2> HIDE DEF z
  <2> QED
    BY <1>5, <1>6, <2>2, <2>4
<1>8. h = SubSeq(u, 1, z - 1)
  BY <1>6 DEF CString, u
<1> HIDE DEF z, zeros
<1>9. h \in Text /\ Len(h) = z - 1 /\ \A i \in 1..(z - 1) : h[i] = u[i]
  <2>1. z - 1 \in 0..Len(u)
    BY <1>2, <1>4, <1>7
  <2> QED
    BY <1>4, <1>8, <2>1, PrefixText
<1>10. ~(z <= Len(b))
  <2> SUFFICES ASSUME z <= Len(b) PROVE FALSE
    OBVIOUS
  <2>1. z \in 1..Len(b) /\ z \in 1..Len(all)
    BY <1>1, <1>2, <1>7
  <2>2. b[z] = 0
    BY <1>1, <1>4, <1>7, <2>1
  <2>3. z \in DOMAIN b
    BY <2>1, LenProperties DEF Text
  <2> QED
    BY <2>2, <2>3 DEF HeldGood, Range
<1>11. \A i \in 1..Len(b) : h[i] = b[i]
  <2> SUFFICES ASSUME NEW i \in 1..Len(b) PROVE h[i] = b[i]
    OBVIOUS
  <2>1. i \in 1..(z - 1) /\ i \in 1..n /\ i \in 1..Len(all) /\ i <= Len(b)
    BY <1>1, <1>2, <1>7, <1>10
  <2> QED
    BY <1>1, <1>4, <1>9, <2>1
<1>12. ASSUME t[1] = 0 PROVE h = b
  <2> DEFINE k == Len(b) + 1
  <2>1. k \in 1..n /\ k \in 1..Len(all) /\ ~(k <= Len(b)) /\ k - Len(b) = 1
    BY <1>1, <1>2, <1>7, <1>10
  <2>2. u[k] = 0
    BY <1>1, <1>4, <1>12, <2>1
  <2>3. z <= k
    BY <1>7, <2>1, <2>2
  <2>4. Len(h) = Len(b)
    BY <1>1, <1>2, <1>7, <1>9, <1>10, <2>3
  <2> QED
    BY <1>9, <1>11, <2>4, SeqEqual DEF Text
<1>13. Len(h) \in Nat /\ Len(b) <= Len(h)
  BY <1>1, <1>2, <1>7, <1>9, <1>10
<1> QED
  BY <1>1, <1>9, <1>11, <1>12, <1>13

(* Of each file of which something is said, the whole of it, with a 0 behind *)
(* it, is parsed to its end and to what it means, or refused if it is no     *)
(* JSON: what the parser makes of whole files is given here, and what it     *)
(* makes of anything else in the buffer follows.                             *)
WholeIsParsed ==
  \A f \in Files :
    LET w == cJSON_Parse(Append(f.bytes, 0))
    IN  /\ f.means = NULL => 0 \notin Range(f.bytes) /\ ~w.ok
        /\ f.means \notin {NULL, Unknown} =>
             0 \notin Range(f.bytes) /\ w.ok /\ w.item = f.means /\ w.off = Len(f.bytes)

Structures == {"Array", "Object"}

(* What is behind an array or object in the buffer is of no matter. *)
LEMMA TailHeld ==
  ASSUME NEW b \in Text, NEW t \in Text, HeldGood(b, t), NEW w, w = cJSON_Parse(Append(b, 0)),
         w.ok, w.off = Len(b), w.item.type \in Structures
  PROVE  Parsing(b, t) = w
<1> DEFINE h == CString(Held(b, t))
           x == Append(b, 0)
           y == Append(h, 0)
<1>1. /\ h \in Text /\ Len(h) \in Nat /\ Len(b) \in Nat /\ Len(b) <= Len(h)
      /\ \A i \in 1..Len(b) : h[i] = b[i]
  BY HeldIs
<1> HIDE DEF h
<1>2. 0 \in Byte
  BY DEF Byte
<1>3. /\ x \in Text /\ Len(x) = Len(b) + 1 /\ (\A i \in 1..Len(b) : x[i] = b[i])
      /\ y \in Text /\ Len(y) = Len(h) + 1 /\ (\A i \in 1..Len(h) : y[i] = h[i])
  BY <1>1, <1>2, AppendProperties DEF Text
<1>4. w = cJSON_Parse(x) /\ Parsing(b, t) = cJSON_Parse(y)
  BY DEF Parsing, h
<1> HIDE DEF x, y
<1>5. Same(x, y, w.off) /\ Len(x) <= Len(y)
  BY <1>1, <1>3 DEF Same
<1>6. TailCut(x, y)
  BY <1>4, <1>5 DEF TailCut, Structures
<1> QED
  BY <1>3, <1>4, <1>6, TailIgnored

(* Where the buffer ends with the file there is nothing but the file. *)
LEMMA ExactHeld ==
  ASSUME NEW b \in Text, NEW t \in Text, HeldGood(b, t), t[1] = 0
  PROVE  Parsing(b, t) = cJSON_Parse(Append(b, 0))
<1>1. CString(Held(b, t)) = b
  BY HeldIs
<1> QED
  BY <1>1 DEF Parsing

LEMMA WholeHeld ==
  ASSUME WholeIsParsed, NEW f \in Files, NEW t \in Stacks, f.means \notin {NULL, Unknown},
         0 \in Range(Held(f.bytes, t)), t[1] = 0 \/ f.means.type \in Structures
  PROVE  LET p == Parsing(f.bytes, t) IN p.ok /\ p.item = f.means /\ p.off = Len(f.bytes)
<1> DEFINE b == f.bytes
           w == cJSON_Parse(Append(b, 0))
<1>1. b \in Text /\ t \in Text
  BY StartAssumption DEF StartAssumption
<1>2. 0 \notin Range(b) /\ w.ok /\ w.item = f.means /\ w.off = Len(b)
  BY DEF WholeIsParsed
<1>3. HeldGood(b, t)
  BY <1>2 DEF HeldGood
<1> HIDE DEF b, w
<1>4. Parsing(b, t) = w
  BY <1>1, <1>2, <1>3, TailHeld, ExactHeld DEF w
<1> QED
  BY <1>2, <1>4 DEF b

(* The beginning of a file, too, has no 0 in it. *)
LEMMA CutGood ==
  ASSUME NEW b \in Text, 0 \notin Range(b), NEW k \in 0..Len(b), NEW t, 0 \in Range(Held(SubSeq(b, 1, k), t))
  PROVE  SubSeq(b, 1, k) \in Text /\ HeldGood(SubSeq(b, 1, k), t)
<1> DEFINE c == SubSeq(b, 1, k)
<1>1. Len(b) \in Nat /\ c \in Text /\ Len(c) = k /\ \A i \in 1..k : c[i] = b[i]
  BY PrefixText, LenProperties DEF Text
<1> HIDE DEF c
<1>2. DOMAIN c = 1..k /\ DOMAIN b = 1..Len(b)
  BY <1>1, LenProperties DEF Text
<1>3. 0 \notin Range(c)
  BY <1>1, <1>2 DEF Range
<1> QED
  BY <1>1, <1>3 DEF HeldGood, c

LEMMA CutHeld ==
  ASSUME WholeIsParsed, NEW f \in Files, NEW t \in Stacks, NEW k \in 0..Len(f.bytes), k # Len(f.bytes),
         0 \in Range(Held(SubSeq(f.bytes, 1, k), t)), t[1] = 0, f.means \notin {NULL, Unknown}, f.means.type \in Structures
  PROVE  ~Parsing(SubSeq(f.bytes, 1, k), t).ok
<1> DEFINE b == f.bytes
           w == cJSON_Parse(Append(b, 0))
           c == SubSeq(b, 1, k)
<1>1. b \in Text /\ t \in Text
  BY StartAssumption DEF StartAssumption
<1>2. 0 \notin Range(b) /\ w.ok /\ w.item = f.means /\ w.off = Len(b)
  BY DEF WholeIsParsed
<1>3. k \in 0..Len(b) /\ k < Len(b) /\ 0 \in Range(Held(c, t)) /\ w.item.type \in {"Array", "Object"}
  BY <1>1, <1>2, LenProperties DEF Structures, Text
<1> HIDE DEF b
<1>4. c \in Text /\ HeldGood(c, t)
  BY <1>1, <1>2, <1>3, CutGood
<1>5. Parsing(c, t) = cJSON_Parse(Append(c, 0))
  <2> HIDE DEF c
  <2> QED
    BY <1>1, <1>4, ExactHeld
<1> HIDE DEF w
<1>6. ~cJSON_Parse(Append(c, 0)).ok
  BY <1>1, <1>2, <1>3, CutRefused DEF w
<1> QED
  BY <1>5, <1>6 DEF b

LEMMA FileIs ==
  ASSUME FileInv
  PROVE  \E f \in Files : \E k \in 0..Len(f.bytes) :
           /\ f.bytes \in Text /\ Len(f.bytes) \in Nat /\ stack \in Stacks /\ stack \in Text
           /\ file.bytes = SubSeq(f.bytes, 1, k) /\ file.means = f.means
           /\ file.whole => k = Len(f.bytes) /\ file.bytes = f.bytes
           /\ ~file.whole => k # Len(f.bytes)
<1>1. PICK f \in Files : \E k \in 0..Len(f.bytes) : IsFile(f, k)
  BY DEF FileInv
<1>2. PICK k \in 0..Len(f.bytes) : IsFile(f, k)
  BY <1>1
<1>3. f.bytes \in Text /\ Len(f.bytes) \in Nat /\ stack \in Stacks /\ stack \in Text
  BY StartAssumption, LenProperties DEF StartAssumption, FileInv, Text
<1>4. file.bytes = SubSeq(f.bytes, 1, k) /\ file.means = f.means /\ file.whole = (k = Len(f.bytes))
  BY <1>2 DEF IsFile
<1>5. SubSeq(f.bytes, 1, Len(f.bytes)) = f.bytes
  BY <1>3, SubSeqFull DEF Text
<1> QED
  BY <1>3, <1>4, <1>5

LEMMA ParsesWritten == WholeIsParsed /\ FileInv => ParsedIsWritten
<1> SUFFICES ASSUME WholeIsParsed, FileInv PROVE ParsedIsWritten
  OBVIOUS
<1>1. PICK f \in Files : \E k \in 0..Len(f.bytes) :
           /\ f.bytes \in Text /\ Len(f.bytes) \in Nat /\ stack \in Stacks /\ stack \in Text
           /\ file.bytes = SubSeq(f.bytes, 1, k) /\ file.means = f.means
           /\ file.whole => k = Len(f.bytes) /\ file.bytes = f.bytes
           /\ ~file.whole => k # Len(f.bytes)
  BY FileIs
<1>2. /\ f.bytes \in Text /\ stack \in Stacks /\ stack \in Text /\ file.means = f.means
      /\ file.whole => file.bytes = f.bytes
  BY <1>1
<1>3. /\ pc \in {"fields", "noJson"} => 0 \in Range(Held(file.bytes, stack)) /\ json = Parsing(file.bytes, stack)
      /\ pc = "fields" => json.ok
  BY DEF FileInv, Buffer, Held
<1>4. ASSUME pc = "fields", file.means = NULL, file.whole, stack[1] = 0 PROVE FALSE
  <2>1. 0 \notin Range(f.bytes) /\ ~cJSON_Parse(Append(f.bytes, 0)).ok
    BY <1>2, <1>4 DEF WholeIsParsed
  <2>2. HeldGood(f.bytes, stack) /\ Parsing(f.bytes, stack).ok
    BY <1>2, <1>3, <1>4, <2>1 DEF HeldGood
  <2> QED
    BY <1>2, <1>4, <2>1, <2>2, ExactHeld
<1>5. ASSUME pc \in {"fields", "noJson"}, file.means \notin {NULL, Unknown}, Readable(file.means)
      PROVE  json.ok /\ json.item = file.means /\ json.off = Len(file.bytes)
  <2>1. file.bytes = f.bytes /\ (stack[1] = 0 \/ f.means.type \in Structures)
    BY <1>2, <1>5 DEF Readable, Structures
  <2>2. 0 \in Range(Held(f.bytes, stack)) /\ json = Parsing(f.bytes, stack) /\ f.means \notin {NULL, Unknown}
    BY <1>2, <1>3, <1>5, <2>1
  <2> QED
    BY <1>2, <2>1, <2>2, WholeHeld
<1> QED
  BY <1>4, <1>5 DEF ParsedIsWritten

LEMMA RefusesCut == WholeIsParsed /\ FileInv => CutIsRefused
<1> SUFFICES ASSUME WholeIsParsed, FileInv, pc = "fields", ~file.whole, stack[1] = 0, file.means \notin {NULL, Unknown},
                    file.means.type \in Structures
             PROVE  FALSE
  BY DEF CutIsRefused, Structures
<1>1. PICK f \in Files : \E k \in 0..Len(f.bytes) :
           /\ f.bytes \in Text /\ Len(f.bytes) \in Nat /\ stack \in Stacks /\ stack \in Text
           /\ file.bytes = SubSeq(f.bytes, 1, k) /\ file.means = f.means
           /\ file.whole => k = Len(f.bytes) /\ file.bytes = f.bytes
           /\ ~file.whole => k # Len(f.bytes)
  BY FileIs
<1>2. PICK k \in 0..Len(f.bytes) :
           stack \in Stacks /\ file.bytes = SubSeq(f.bytes, 1, k) /\ file.means = f.means /\ k # Len(f.bytes)
  BY <1>1
<1>3. 0 \in Range(Held(file.bytes, stack)) /\ Parsing(file.bytes, stack).ok
  BY DEF FileInv, Buffer, Held
<1> QED
  BY <1>2, <1>3, CutHeld

(* What main gives to the parser is parsed to what the file means, to its   *)
(* last byte, and refused if the file is no JSON: an array or object whatever*)
(* is behind it in the buffer, which main does not clear (main.c:52-58), any *)
(* other value if nothing is.                                               *)
THEOREM FilesAreParsedAsWritten ==
  ASSUME WholeIsParsed
  PROVE  Spec => []ParsedIsWritten
<1>1. FileInv /\ ConfigInv => FileInv
  OBVIOUS
<1> QED
  BY <1>1, FileInit, FileNext, ParsesWritten, PTL DEF Spec

(* main refuses a file of which only the beginning was written, if the whole *)
(* is an array or object: not one of its beginnings is JSON                  *)
(* (cJSON.c:1486-1580, 1640-1777).                                           *)
THEOREM CutFilesAreRefused ==
  ASSUME WholeIsParsed
  PROVE  Spec => []CutIsRefused
<1>1. FileInv /\ ConfigInv => FileInv
  OBVIOUS
<1> QED
  BY <1>1, FileInit, FileNext, RefusesCut, PTL DEF Spec

-----------------------------------------------------------------------------
(* The configuration of a file. *)

(* Where what is behind a file in the buffer goes on with a file that was   *)
(* cut short, or that is no JSON, to one with all of the fields, they are   *)
(* those the file means.  A buffer of zeros goes on with nothing.           *)
CompletesNothing ==
  \A f \in Files, t \in Stacks : \A k \in 0..Len(f.bytes) :
    /\ t[1] # 0 /\ (k # Len(f.bytes) \/ f.means = NULL)
    /\ f.means # Unknown /\ Accepted(SubSeq(f.bytes, 1, k), t)
    => Agreed(SubSeq(f.bytes, 1, k), t, f.means)

LEMMA FieldsAreChildren ==
  ASSUME NEW item, \A g \in DOMAIN Fields : FieldOK(item, g)
  PROVE  item.child # <<>>
<1>1. "srv_name" \in DOMAIN Fields
  BY DEF Fields
<1>2. Field(item, "srv_name") # NULL
  BY <1>1 DEF FieldOK
<1> QED
  BY <1>2 DEF Field, cJSON_GetObjectItemCaseSensitive

LEMMA ChildKind ==
  ASSUME NEW x \in Text, NEW p, p = cJSON_Parse(x), p.ok
  PROVE  /\ p.off \in Nat /\ p.off <= Len(x)
         /\ p.item.child # <<>> => p.item.type \in Structures /\ x[p.off] # 0
<1> DEFINE q == First(x)
           r == Parse[<<"Value", q>>]
<1>1. q \in parse_buffer /\ q.content = x
  BY FirstIs
<1>2. r.ok /\ p.off = r.off /\ p.item = r.item
  BY ResultIs
<1> HIDE DEF q
<1>3. r.off \in Nat /\ r.off <= Len(x)
  BY <1>1, <1>2, ValueBounds
<1>4. r.item.child # <<>> => r.item.type \in {"Array", "Object"} /\ x[r.off] \in Closers
  BY <1>1, <1>2, KindOf
<1>5. 0 \notin Closers
  BY DEF Closers, CloseArray, CloseObject
<1> QED
  BY <1>2, <1>3, <1>4, <1>5 DEF Structures

(* A text that is the same as another where that is parsed is an array or   *)
(* object if that is one.                                                   *)
LEMMA SameKind ==
  ASSUME NEW x \in Text, NEW y \in Text, NEW p, p = cJSON_Parse(x), p.ok, NEW w, w = cJSON_Parse(y), w.ok,
         Same(x, y, p.off), Len(x) <= Len(y), w.item.type \in Structures
  PROVE  p.item.type \in Structures
<1> DEFINE q == First(x)
           u == First(y)
           r == Parse[<<"Value", q>>]
           v == Parse[<<"Value", u>>]
<1>1. q \in parse_buffer /\ u \in parse_buffer
  BY FirstIs
<1>2. r.ok /\ p.off = r.off /\ p.item = r.item /\ v.ok /\ w.item = v.item
  BY ResultIs
<1> HIDE DEF q, u
<1>3. r.off \in Nat /\ q.offset < r.off /\ q.offset \in Nat /\ At(q, 0) \in Starts /\ Inked(q)
  BY <1>1, <1>2, ValueBounds
<1>4. At(u, 0) \in {OpenArray, OpenObject}
  BY <1>1, <1>2, KindOf DEF Structures
<1>5. At(u, 0) = At(q, 0)
  <2> DEFINE m == r.off
  <2>1. m \in Nat /\ Same(x, y, m)
    BY <1>2, <1>3
  <2>2. q.offset + 1 <= m
    <3> HIDE DEF m
    <3>1. m \in Nat /\ q.offset < m
      BY <1>3 DEF m
    <3> QED
      BY <1>3, <3>1
  <2> HIDE DEF m, r
  <2> QED
    BY <1>3, <2>1, <2>2, FirstLocal DEF q, u
<1>6. r.item.type \in Structures
  BY <1>1, <1>2, <1>4, <1>5, KindOf DEF Structures
<1> QED
  BY <1>2, <1>6

LEMMA FieldsMeant == WholeIsParsed /\ CompletesNothing => FieldsAreMeant
<1> SUFFICES ASSUME WholeIsParsed, CompletesNothing, NEW f \in Files, NEW t \in Stacks, NEW k \in 0..Len(f.bytes),
                    f.means # Unknown, Accepted(SubSeq(f.bytes, 1, k), t)
             PROVE  Agreed(SubSeq(f.bytes, 1, k), t, f.means)
  BY DEF FieldsAreMeant
<1> DEFINE b == f.bytes
           c == SubSeq(b, 1, k)
           w == cJSON_Parse(Append(b, 0))
           p == Parsing(c, t)
<1>1. b \in Text /\ t \in Text /\ Len(b) \in Nat /\ SubSeq(b, 1, Len(b)) = b
  BY StartAssumption, LenProperties, SubSeqFull DEF StartAssumption, Text
<1>2. /\ 0 \notin Range(b)
      /\ f.means = NULL => ~w.ok
      /\ f.means # NULL => w.ok /\ w.item = f.means /\ w.off = Len(b)
  BY DEF WholeIsParsed
<1>3. 0 \in Range(Held(c, t)) /\ p.ok /\ \A g \in DOMAIN Fields : FieldOK(p.item, g)
  BY DEF Accepted
<1>4. p.item = f.means => Agreed(c, t, f.means)
  BY DEF Agreed
<1>5. ASSUME t[1] # 0, k # Len(b) \/ f.means = NULL PROVE Agreed(c, t, f.means)
  BY <1>5 DEF CompletesNothing
<1>6. k \in 0..Len(b)
  OBVIOUS
<1> HIDE DEF b
<1>7. c \in Text /\ HeldGood(c, t)
  BY <1>1, <1>2, <1>3, <1>6, CutGood
<1>8. p.item.child # <<>>
  <2> HIDE DEF p
  <2> QED
    BY <1>3, FieldsAreChildren
<1>9. CASE t[1] = 0
  <2> DEFINE x == Append(c, 0)
             y == Append(b, 0)
  <2>1. p = cJSON_Parse(x)
    <3> HIDE DEF c
    <3> QED
      BY <1>1, <1>7, <1>9, ExactHeld
  <2>2. AreCut(b, k, x, y)
    BY <1>6 DEF AreCut
  <2>3. w = cJSON_Parse(y)
    OBVIOUS
  <2> HIDE DEF x, y, p, c, w
  <2>4. /\ x \in Text /\ y \in Text /\ Len(x) = k + 1 /\ k \in Nat
        /\ Len(x) <= Len(y) /\ Same(x, y, k) /\ x[k + 1] = 0
    BY <1>1, <2>2, Beginnings
  <2>5. p.off \in Nat /\ p.off <= Len(x) /\ p.item.type \in Structures /\ x[p.off] # 0
    BY <1>3, <1>8, <2>1, <2>4, ChildKind
  <2>6. p.off <= k
    BY <2>4, <2>5
  <2>7. Same(x, y, p.off)
    BY <2>4, <2>5, <2>6, SameLess
  <2>8. TailCut(x, y)
    BY <1>3, <2>1, <2>4, <2>5, <2>7 DEF TailCut, Structures
  <2>9. w = p
    BY <2>1, <2>3, <2>4, <2>8, TailIgnored
  <2>10. Agreed(c, t, f.means)
    BY <1>2, <1>3, <1>4, <2>9
  <2> QED
    BY <2>10 DEF b, c
<1>10. CASE k = Len(b) /\ f.means # NULL
  <2> DEFINE h == CString(Held(b, t))
             x == Append(b, 0)
             y == Append(h, 0)
  <2>1. c = b
    BY <1>1, <1>10
  <2>2. HeldGood(b, t)
    BY <1>7, <2>1
  <2>3. /\ h \in Text /\ Len(h) \in Nat /\ Len(b) \in Nat /\ Len(b) <= Len(h)
        /\ \A i \in 1..Len(b) : h[i] = b[i]
    BY <1>1, <2>2, HeldIs
  <2>4. p = cJSON_Parse(y)
    BY <2>1 DEF Parsing
  <2> HIDE DEF h, p, c
  <2>5. 0 \in Byte
    BY DEF Byte
  <2>6. /\ x \in Text /\ Len(x) = Len(b) + 1 /\ (\A i \in 1..Len(b) : x[i] = b[i])
        /\ y \in Text /\ Len(y) = Len(h) + 1 /\ (\A i \in 1..Len(h) : y[i] = h[i])
    BY <1>1, <2>3, <2>5, AppendProperties DEF Text
  <2> HIDE DEF x, y
  <2>7. p.item.type \in Structures
    BY <1>3, <1>8, <2>4, <2>6, ChildKind
  <2>8. w = cJSON_Parse(x) /\ w.ok /\ w.off = Len(b)
    BY <1>2, <1>10 DEF x
  <2>9. Same(x, y, w.off) /\ Len(x) <= Len(y)
    BY <2>3, <2>6, <2>8 DEF Same
  <2> HIDE DEF w
  <2>10. w.item.type \in Structures
    BY <1>3, <2>4, <2>6, <2>7, <2>8, <2>9, SameKind
  <2>11. Parsing(b, t) = w
    BY <1>1, <2>2, <2>8, <2>10, TailHeld DEF x
  <2>12. p = w
    BY <2>1, <2>11 DEF p
  <2>13. Agreed(c, t, f.means)
    BY <1>2, <1>4, <1>10, <2>12
  <2> QED
    BY <2>13 DEF b, c
<1> QED
  BY <1>5, <1>9, <1>10 DEF b

(* A node with a thread that handles events has both sockets on the ports,  *)
(* and the five values, that its file means, both timers and all of them in *)
(* epoll, whatever calls failed on the way (server.c:281-284): given that   *)
(* whole files are parsed as meant and that nothing in the buffer completes *)
(* one that is not whole to another.                                        *)
THEOREM NodeServesAsConfigured ==
  ASSUME WholeIsParsed, CompletesNothing
  PROVE  Spec => []ServesAsConfigured
<1>0. FieldsAreMeant
  BY FieldsMeant
<1>1. NodeInv /\ FileInv /\ ConfigInv /\ [Next]_vars => (NodeInv /\ FileInv /\ ConfigInv)'
  BY <1>0, NodeNext, FileNext, ConfigNext
<1> QED
  BY <1>1, NodeInit, FileInit, NodeServes, PTL DEF Spec

=============================================================================
