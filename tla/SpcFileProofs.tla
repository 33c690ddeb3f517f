---------------------------- MODULE SpcFileProofs ----------------------------
(***************************************************************************)
(* The safety properties of how an SPC file becomes a track, for every     *)
(* text of bytes that its fields can hold, every duration, folder name,    *)
(* default and limit; and that the header of the WAV file of a track, of   *)
(* any texts and any duration, can be read (module WavLayout).             *)
(***************************************************************************)
EXTENDS SpcFile, FoldFacts, SequenceTheorems

-----------------------------------------------------------------------------
(* Texts.  A text is a sequence of bytes; Byte is not expanded within Seq. *)

LEMMA ByteIsNatural == \A b \in Byte : b \in Nat /\ b <= 255
BY DEF Byte

LEMMA TextFacts ==
    ASSUME NEW s \in Seq(Byte)
    PROVE  /\ Len(s) \in Nat /\ DOMAIN s = 1..Len(s)
           /\ \A i \in 1..Len(s) : s[i] \in Byte
           /\ s = <<>> <=> Len(s) = 0
BY LenProperties, ElementOfSeq, EmptySeq

LEMMA TextIsBytes ==
    ASSUME NEW s \in Seq(ASCII)
    PROVE  s \in Seq(Byte)
<1>1. Len(s) \in Nat /\ DOMAIN s = 1..Len(s) /\ \A i \in 1..Len(s) : s[i] \in ASCII
  BY LenProperties, ElementOfSeq
<1>2. \A c \in ASCII : c \in Byte
  BY DEF ASCII, Byte
<1>3. s \in [1..Len(s) -> Byte]
  <2>1. s = [i \in 1..Len(s) |-> s[i]]
    BY <1>1
  <2> QED
    BY <1>1, <1>2, <2>1
<1> QED
  BY <1>1, <1>3, SeqDef

(* Of a set of natural numbers Min is the smallest.                        *)
LEMMA SmallestOfSet ==
    ASSUME NEW S \in SUBSET Nat, S # {}
    PROVE  Min(S) \in S /\ \A x \in S : Min(S) <= x
<1>1. \E x \in S : \A y \in S : x =< y
  BY LeastNatural
<1> QED
  BY <1>1 DEF Min

(* r is the part of s from a to b.                                         *)
Part(s, a, b, r) ==
    /\ r \in Seq(Byte) /\ Len(r) = b + 1 - a
    /\ \A i \in 1..Len(r) : r[i] = s[i + (a - 1)]

LEMMA SubSeqIsPart ==
    ASSUME NEW s \in Seq(Byte), NEW a \in Nat \ {0}, NEW b \in 0..Len(s), a <= b + 1
    PROVE  Part(s, a, b, SubSeq(s, a, b))
<1>1. Len(s) \in Nat /\ \A i \in a..b : s[i] \in Byte
  BY TextFacts
<1>2. a \in Int /\ b \in Int
  BY <1>1
<1>3. /\ SubSeq(s, a, b) \in Seq(Byte)
      /\ Len(SubSeq(s, a, b)) = IF a <= b THEN b - a + 1 ELSE 0
      /\ \A i \in 1..b - a + 1 : SubSeq(s, a, b)[i] = s[a + i - 1]
  BY <1>1, <1>2, SubSeqProperties
<1> DEFINE r == SubSeq(s, a, b)
<1> HIDE DEF r
<1>4. r \in Seq(Byte) /\ Len(r) = b + 1 - a
  BY <1>1, <1>2, <1>3 DEF r
<1>5. ASSUME NEW i \in 1..Len(r) PROVE r[i] = s[i + (a - 1)]
  <2>1. i \in 1..b - a + 1 /\ a + i - 1 = i + (a - 1)
    BY <1>2, <1>4
  <2> QED
    BY <2>1, <1>3 DEF r
<1> QED
  BY <1>4, <1>5 DEF Part, r

(* A text is the only one that is that part.                               *)
LEMMA PartIs ==
    ASSUME NEW s, NEW a \in Int, NEW b \in Int, NEW r, NEW t, Part(s, a, b, r), Part(s, a, b, t)
    PROVE  r = t
<1>1. r \in Seq(Byte) /\ t \in Seq(Byte) /\ Len(r) = Len(t) /\ \A i \in 1..Len(r) : r[i] = t[i]
  BY DEF Part
<1> QED
  BY <1>1, SeqEqual

(* NullPaddedString returns what is before the first null, if there is one. *)
LEMMA UpToNull ==
    ASSUME NEW s \in Seq(Byte)
    PROVE  \E n \in 0..Len(s) :
              /\ \A i \in 1..n : s[i] # 0
              /\ n < Len(s) => s[n + 1] = 0
              /\ NullPaddedString(s) = SubSeq(s, 1, n)
<1> DEFINE nulls == {i \in DOMAIN s : s[i] = 0}
<1>1. Len(s) \in Nat /\ DOMAIN s = 1..Len(s)
  BY TextFacts
<1>2. CASE nulls = {}
  <2>1. Len(s) \in 0..Len(s) /\ (\A i \in 1..Len(s) : s[i] # 0)
    BY <1>1, <1>2
  <2>2. NullPaddedString(s) = SubSeq(s, 1, Len(s))
    BY <1>2, SubSeqFull DEF NullPaddedString
  <2>3. ~(Len(s) < Len(s))
    BY <1>1
  <2> WITNESS Len(s) \in 0..Len(s)
  <2> QED
    BY <2>1, <2>2, <2>3
<1>3. CASE nulls # {}
  <2> DEFINE m == Min(nulls)
  <2>1. m \in nulls /\ \A x \in nulls : m <= x
    <3>1. nulls \in SUBSET Nat
      BY <1>1
    <3> HIDE DEF nulls
    <3> QED
      BY <1>3, <3>1, SmallestOfSet
  <2>2. NullPaddedString(s) = SubSeq(s, 1, m - 1)
    BY <1>3 DEF NullPaddedString
  <2> HIDE DEF m
  <2>3. m \in 1..Len(s) /\ s[m] = 0 /\ \A i \in 1..Len(s) : s[i] = 0 => m <= i
    BY <1>1, <2>1
  <2>4. m - 1 \in 0..Len(s) /\ (m - 1) + 1 = m
    BY <1>1, <2>3
  <2>5. \A i \in 1..(m - 1) : s[i] # 0
    BY <1>1, <2>3
  <2> QED
    BY <2>2, <2>3, <2>4, <2>5
<1> QED
  BY <1>2, <1>3

LEMMA UpToNullIs ==
    ASSUME NEW s \in Seq(Byte), NEW n \in 0..Len(s),
           \A i \in 1..n : s[i] # 0, n < Len(s) => s[n + 1] = 0
    PROVE  NullPaddedString(s) = SubSeq(s, 1, n)
<1>1. PICK m \in 0..Len(s) :
          /\ \A i \in 1..m : s[i] # 0
          /\ m < Len(s) => s[m + 1] = 0
          /\ NullPaddedString(s) = SubSeq(s, 1, m)
  BY UpToNull
<1>2. Len(s) \in Nat
  BY TextFacts
<1>3. CASE m < n
  <2>1. m + 1 \in 1..n /\ m < Len(s)
    BY <1>2, <1>3
  <2> QED
    BY <1>1, <2>1
<1>4. CASE n < m
  <2>1. n + 1 \in 1..m /\ n < Len(s)
    BY <1>2, <1>4
  <2> QED
    BY <1>1, <2>1
<1>5. CASE m = n
  BY <1>1, <1>5
<1> QED
  BY <1>2, <1>3, <1>4, <1>5

(* It is a text that is no longer.                                         *)
LEMMA UpToNullType ==
    ASSUME NEW s \in Seq(Byte)
    PROVE  NullPaddedString(s) \in Seq(Byte) /\ Len(NullPaddedString(s)) <= Len(s)
<1>1. PICK n \in 0..Len(s) : NullPaddedString(s) = SubSeq(s, 1, n)
  BY UpToNull
<1>2. Len(s) \in Nat /\ 1 \in Nat \ {0} /\ 1 <= n + 1
  BY TextFacts
<1>3. Part(s, 1, n, SubSeq(s, 1, n))
  BY <1>2, SubSeqIsPart
<1> QED
  BY <1>1, <1>2, <1>3 DEF Part

(* TrimSpace returns what lies between the first and the last character    *)
(* that is no space.                                                       *)
Core(s, a, b) ==
    /\ a \in 1..Len(s) /\ b \in a..Len(s)
    /\ s[a] \notin Spaces /\ s[b] \notin Spaces
    /\ \A i \in 1..Len(s) : i < a \/ b < i => s[i] \in Spaces

LEMMA TrimBlank ==
    ASSUME NEW s \in Seq(Byte), \A i \in 1..Len(s) : s[i] \in Spaces
    PROVE  TrimSpace(s) = <<>>
<1>1. {i \in DOMAIN s : s[i] \notin Spaces} = {}
  BY TextFacts
<1> QED
  BY <1>1 DEF TrimSpace

LEMMA TrimCore ==
    ASSUME NEW s \in Seq(Byte), NEW k \in 1..Len(s), s[k] \notin Spaces
    PROVE  \E a, b \in 1..Len(s) : Core(s, a, b) /\ TrimSpace(s) = SubSeq(s, a, b)
<1> DEFINE kept == {i \in DOMAIN s : s[i] \notin Spaces}
           a == Min(kept)
           b == Max(kept)
<1>1. Len(s) \in Nat /\ DOMAIN s = 1..Len(s)
  BY TextFacts
<1>2. kept # {} /\ kept \in SUBSET Nat /\ \A x \in kept : x <= Len(s)
  BY <1>1
<1>3. TrimSpace(s) = SubSeq(s, a, b)
  BY <1>2 DEF TrimSpace
<1> HIDE DEF kept
<1>4. a \in kept /\ b \in kept /\ \A x \in kept : a <= x /\ x <= b
  BY <1>1, <1>2, SmallestOfSet, GreatestNatural
<1> HIDE DEF a, b
<1>5. a \in 1..Len(s) /\ b \in a..Len(s) /\ s[a] \notin Spaces /\ s[b] \notin Spaces /\ b \in 1..Len(s)
  BY <1>1, <1>4 DEF kept
<1>6. \A i \in 1..Len(s) : i < a \/ b < i => s[i] \in Spaces
  <2> TAKE i \in 1..Len(s)
  <2> HAVE i < a \/ b < i
  <2>1. i \notin kept
    BY <1>1, <1>4, <1>5
  <2> QED
    BY <1>1, <2>1 DEF kept
<1> QED
  BY <1>3, <1>5, <1>6 DEF Core

LEMMA TrimIs ==
    ASSUME NEW s \in Seq(Byte), NEW a, NEW b, Core(s, a, b)
    PROVE  TrimSpace(s) = SubSeq(s, a, b)
<1>1. Len(s) \in Nat
  BY TextFacts
<1>2. a \in 1..Len(s) /\ s[a] \notin Spaces
  BY DEF Core
<1>3. PICK c, d \in 1..Len(s) : Core(s, c, d) /\ TrimSpace(s) = SubSeq(s, c, d)
  BY <1>2, TrimCore
<1>4. a = c /\ b = d
  BY <1>1, <1>3 DEF Core
<1> QED
  BY <1>3, <1>4

(* What TrimSpace returns, and when it returns nothing.                    *)
Trimmed(s, t) ==
    /\ t \in Seq(Byte) /\ Len(t) <= Len(s)
    /\ t = <<>> <=> \A i \in 1..Len(s) : s[i] \in Spaces
    /\ t # <<>> => t[1] \notin Spaces /\ t[Len(t)] \notin Spaces
    /\ \A i \in 1..Len(t) : \E j \in 1..Len(s) : t[i] = s[j]

LEMMA TrimTrims ==
    ASSUME NEW s \in Seq(Byte)
    PROVE  Trimmed(s, TrimSpace(s))
<1>1. Len(s) \in Nat
  BY TextFacts
<1>2. CASE \A i \in 1..Len(s) : s[i] \in Spaces
  <2>1. TrimSpace(s) = <<>>
    BY <1>2, TrimBlank
  <2>2. <<>> \in Seq(Byte) /\ Len(<<>>) = 0 /\ Len(<<>>) <= Len(s)
    BY <1>1, EmptySeq
  <2> QED
    BY <1>2, <2>1, <2>2 DEF Trimmed
<1>3. ASSUME NEW k \in 1..Len(s), s[k] \notin Spaces
      PROVE  Trimmed(s, TrimSpace(s))
  <2> DEFINE t == TrimSpace(s)
  <2>1. PICK a, b \in 1..Len(s) : Core(s, a, b) /\ t = SubSeq(s, a, b)
    BY <1>3, TrimCore
  <2>2. a \in Nat \ {0} /\ b \in a..Len(s) /\ b \in 0..Len(s) /\ a <= b + 1
    BY <1>1, <2>1 DEF Core
  <2>3. Part(s, a, b, t)
    BY <2>1, <2>2, SubSeqIsPart
  <2> HIDE DEF t
  <2>4. t \in Seq(Byte) /\ Len(t) = b + 1 - a /\ \A i \in 1..Len(t) : t[i] = s[i + (a - 1)]
    BY <2>3 DEF Part
  <2>5. Len(t) \in 1..Len(s) /\ 1 \in 1..Len(t) /\ Len(t) \in 1..Len(t) /\ t # <<>>
    <3>1. Len(t) \in Nat /\ 1 <= Len(t) /\ Len(t) <= Len(s)
      BY <1>1, <2>2, <2>4
    <3> QED
      BY <1>1, <3>1, <2>4, TextFacts
  <2>6. t[1] = s[a] /\ t[Len(t)] = s[b]
    <3>1. 1 + (a - 1) = a /\ Len(t) + (a - 1) = b
      BY <2>2, <2>4
    <3> QED
      BY <2>4, <2>5, <3>1
  <2>7. \A i \in 1..Len(t) : i + (a - 1) \in 1..Len(s)
    BY <1>1, <2>2, <2>4
  <2>8. s[a] \notin Spaces /\ s[b] \notin Spaces
    BY <2>1 DEF Core
  <2>9. t[1] \notin Spaces /\ t[Len(t)] \notin Spaces
    BY <2>6, <2>8
  <2>10. \A i \in 1..Len(t) : \E j \in 1..Len(s) : t[i] = s[j]
    BY <2>4, <2>7
  <2>11. Len(t) <= Len(s) /\ t \in Seq(Byte) /\ t # <<>>
    BY <1>1, <2>4, <2>5
  <2>12. Trimmed(s, t)
    BY <1>3, <2>9, <2>10, <2>11 DEF Trimmed
  <2> QED
    BY <2>12 DEF t
<1> QED
  BY <1>2, <1>3

(* A space in front makes no difference.                                   *)
LEMMA TrimSkips ==
    ASSUME NEW s \in Seq(Byte), NEW r \in Seq(Byte), Part(s, 2, Len(s), r),
           s # <<>>, s[1] \in Spaces
    PROVE  TrimSpace(s) = TrimSpace(r)
<1>1. Len(s) \in Nat /\ Len(r) \in Nat /\ Len(s) = Len(r) + 1
  BY TextFacts DEF Part
<1>2. \A i \in 1..Len(r) : r[i] = s[i + 1]
  <2>1. \A i \in 1..Len(r) : r[i] = s[i + (2 - 1)]
    BY DEF Part
  <2> QED
    BY <2>1
<1>3. CASE \A i \in 1..Len(r) : r[i] \in Spaces
  <2>1. ASSUME NEW i \in 1..Len(s) PROVE s[i] \in Spaces
    <3>1. CASE i = 1
      BY <3>1
    <3>2. CASE i # 1
      <4>1. i - 1 \in 1..Len(r) /\ (i - 1) + 1 = i
        BY <1>1, <3>2
      <4> QED
        BY <1>2, <1>3, <4>1
    <3> QED
      BY <3>1, <3>2
  <2> QED
    BY <1>3, <2>1, TrimBlank
<1>4. ASSUME NEW k \in 1..Len(r), r[k] \notin Spaces
      PROVE  TrimSpace(s) = TrimSpace(r)
  <2>1. PICK a, b \in 1..Len(r) : Core(r, a, b) /\ TrimSpace(r) = SubSeq(r, a, b)
    BY <1>4, TrimCore
  <2>2. b \in a..Len(r)
    BY <2>1 DEF Core
  <2>3. ASSUME NEW i \in 1..Len(s), i < a + 1 \/ b + 1 < i PROVE s[i] \in Spaces
    <3>1. CASE i = 1
      BY <3>1
    <3>2. CASE i # 1
      <4>1. i - 1 \in 1..Len(r) /\ (i - 1) + 1 = i /\ (i - 1 < a \/ b < i - 1)
        BY <1>1, <2>3, <3>2
      <4>2. r[i - 1] \in Spaces
        BY <2>1, <4>1 DEF Core
      <4> QED
        BY <1>2, <4>1, <4>2
    <3> QED
      BY <3>1, <3>2
  <2>4. Core(s, a + 1, b + 1)
    <3>1. r[a] \notin Spaces /\ r[b] \notin Spaces
      BY <2>1 DEF Core
    <3>2. s[a + 1] \notin Spaces /\ s[b + 1] \notin Spaces
      BY <1>2, <3>1
    <3>3. a + 1 \in 1..Len(s) /\ b + 1 \in (a + 1)..Len(s)
      BY <1>1, <2>2
    <3> QED
      BY <2>3, <3>2, <3>3 DEF Core
  <2>5. TrimSpace(s) = SubSeq(s, a + 1, b + 1)
    BY <2>4, TrimIs
  <2>6. /\ a \in Nat \ {0} /\ b \in 0..Len(r) /\ a <= b + 1
        /\ a + 1 \in Nat \ {0} /\ b + 1 \in 0..Len(s) /\ a + 1 <= (b + 1) + 1
    BY <1>1, <2>2
  <2>7. Part(r, a, b, TrimSpace(r)) /\ Part(s, a + 1, b + 1, TrimSpace(s))
    BY <2>1, <2>5, <2>6, SubSeqIsPart
  <2> DEFINE t == TrimSpace(s)
             u == TrimSpace(r)
  <2> HIDE DEF t, u
  <2>8. /\ t \in Seq(Byte) /\ u \in Seq(Byte) /\ Len(t) = Len(u) /\ Len(u) = b + 1 - a
        /\ \A i \in 1..Len(t) : t[i] = s[i + (a + 1 - 1)]
        /\ \A i \in 1..Len(u) : u[i] = r[i + (a - 1)]
    BY <2>6, <2>7 DEF Part, t, u
  <2>9. ASSUME NEW i \in 1..Len(t) PROVE t[i] = u[i]
    <3>1. i + (a - 1) \in 1..Len(r) /\ (i + (a - 1)) + 1 = i + (a + 1 - 1) /\ i \in 1..Len(u)
      BY <1>1, <2>2, <2>8
    <3>2. t[i] = s[(i + (a - 1)) + 1] /\ u[i] = r[i + (a - 1)]
      BY <2>8, <3>1
    <3> QED
      BY <1>2, <3>1, <3>2
  <2> QED
    BY <2>8, <2>9, SeqEqual DEF t, u
<1> QED
  BY <1>3, <1>4

-----------------------------------------------------------------------------
(* Numbers written in decimal.                                             *)

(* The recursion that the value of a text's digits is the solution of.     *)
IsValue(g, s) ==
    g = [t \in SUBSET DOMAIN s |-> IF t = {} THEN 0 ELSE Decimal(g[t \ {Max(t)}], s[Max(t)])]

LEMMA ValueExists ==
    ASSUME NEW s \in Seq(Byte)
    PROVE  \E g \in [SUBSET DOMAIN s -> Int] : IsValue(g, s)
<1> DEFINE S == 1..Len(s)
           c == [t \in SUBSET S |-> Max(t)]
           step == [p \in S \X Int |-> Decimal(p[2], s[p[1]])]
<1>1. Len(s) \in Nat /\ DOMAIN s = S /\ \A x \in S : s[x] \in Nat
  BY TextFacts, ByteIsNatural
<1>2. IsFiniteSet(S)
  BY <1>1, FS_Interval
<1>3. ASSUME NEW x \in S, NEW v \in Int PROVE Decimal(v, s[x]) \in Int
  BY <1>1 DEF Decimal
<1>4. ASSUME NEW t \in SUBSET S, t # {} PROVE Max(t) \in t
  <2>1. t \in SUBSET Nat /\ \A x \in t : x <= Len(s)
    BY <1>1
  <2> QED
    BY <1>1, <1>4, <2>1, GreatestNatural
<1>5. \A t \in SUBSET S : c[t] = Max(t)
  OBVIOUS
<1>6. \A x \in S, v \in Int : step[<<x, v>>] = Decimal(v, s[x])
  OBVIOUS
<1> HIDE DEF c, step, S
<1>7. PICK h \in [SUBSET S -> Int] : IsFold(h, S, 0, c, step)
  <2>1. \A t \in SUBSET S : t # {} => c[t] \in t
    BY <1>4, <1>5
  <2>2. 0 \in Int /\ \A x \in S, v \in Int : step[<<x, v>>] \in Int
    BY <1>3, <1>6
  <2> QED
    BY <1>2, <2>1, <2>2, FoldExists
<1>8. ASSUME NEW t \in SUBSET S
      PROVE  h[t] = IF t = {} THEN 0 ELSE Decimal(h[t \ {Max(t)}], s[Max(t)])
  <2>1. CASE t = {}
    BY <2>1, <1>7 DEF IsFold
  <2>2. CASE t # {}
    <3>1. Max(t) \in S /\ t \ {Max(t)} \in SUBSET S
      BY <2>2, <1>4
    <3>2. h[t] = step[<<Max(t), h[t \ {Max(t)}]>>] /\ h[t \ {Max(t)}] \in Int
      BY <3>1, <2>2, <1>5, <1>7 DEF IsFold
    <3> QED
      BY <3>1, <3>2, <2>2, <1>6
  <2> QED
    BY <2>1, <2>2
<1>9. h = [t \in SUBSET S |-> h[t]]
  BY <1>7
<1>10. IsValue(h, s) /\ h \in [SUBSET DOMAIN s -> Int]
  BY <1>1, <1>7, <1>8, <1>9 DEF IsValue
<1> QED
  BY <1>10

(* acc[i] is the value of the first i digits of s.                         *)
Values(s, acc) ==
    /\ acc \in [0..Len(s) -> Int] /\ acc[0] = 0
    /\ \A i \in 0..(Len(s) - 1) : acc[i + 1] = Decimal(acc[i], s[i + 1])
    /\ FoldLeft(Decimal, 0, s) = acc[Len(s)]

LEMMA DecimalFolds ==
    ASSUME NEW s \in Seq(Byte)
    PROVE  \E acc : Values(s, acc)
<1> DEFINE n == Len(s)
           g == CHOOSE h : IsValue(h, s)
           acc == [i \in 0..n |-> g[1..i]]
<1>1. n \in Nat /\ DOMAIN s = 1..n
  BY TextFacts
<1>2. IsValue(g, s)
  BY ValueExists
<1>3. FoldLeft(Decimal, 0, s) = g[1..n]
  <2>1. FoldLeft(Decimal, 0, s) = g[DOMAIN s]
    BY DEF FoldLeft, MapThenFoldSet, IsValue
  <2> QED
    BY <1>1, <2>1
<1> HIDE DEF g
<1>4. \A t \in SUBSET (1..n) :
         g[t] = IF t = {} THEN 0 ELSE Decimal(g[t \ {Max(t)}], s[Max(t)])
  BY <1>1, <1>2 DEF IsValue
<1>5. g[1..0] = 0
  <2>1. 1..0 = {} /\ {} \in SUBSET (1..n)
    OBVIOUS
  <2> QED
    BY <1>4, <2>1
<1>6. ASSUME NEW i \in 0..(n - 1) PROVE g[1..(i + 1)] = Decimal(g[1..i], s[i + 1])
  <2> DEFINE t == 1..(i + 1)
  <2>1. t \in SUBSET (1..n) /\ t \in SUBSET Nat /\ t # {} /\ i + 1 \in t /\ i + 1 \in Nat
        /\ \A x \in t : x <= i + 1
    <3>1. i + 1 \in t /\ i + 1 \in Nat /\ i + 1 <= n
      BY <1>1, <1>6
    <3>2. \A x \in t : x \in Nat /\ x <= i + 1 /\ x \in 1..n
      BY <1>1, <3>1
    <3> HIDE DEF t
    <3> QED
      BY <3>1, <3>2
  <2>2. Max(t) = i + 1
    <3>1. Max(t) \in t /\ \A x \in t : x <= Max(t)
      BY <2>1, GreatestNatural
    <3>2. Max(t) <= i + 1 /\ i + 1 <= Max(t) /\ Max(t) \in Nat
      BY <2>1, <3>1
    <3> QED
      BY <3>2
  <2>3. t \ {i + 1} = 1..i
    OBVIOUS
  <2> HIDE DEF t
  <2> QED
    BY <1>4, <2>1, <2>2, <2>3 DEF t
<1>7. ASSUME NEW i \in 0..n PROVE g[1..i] \in Int
  <2> DEFINE B == {k \in 0..n : g[1..k] \notin Int}
  <2>1. SUFFICES ASSUME B # {} PROVE FALSE
    OBVIOUS
  <2>2. PICK k \in B : \A j \in B : k <= j
    <3>1. B \in SUBSET Nat
      BY <1>1
    <3> HIDE DEF B
    <3> QED
      BY <2>1, <3>1, LeastNatural
  <2>3. k \in 0..n /\ g[1..k] \notin Int /\ k # 0
    BY <2>2, <1>5
  <2> DEFINE j == k - 1
  <2>4. j \in 0..(n - 1) /\ j + 1 = k /\ j \in 0..n /\ ~(k <= j) /\ k \in 1..n
    BY <1>1, <2>3
  <2> HIDE DEF j
  <2>5. g[1..j] \in Int
    BY <2>2, <2>4
  <2>6. g[1..(j + 1)] = Decimal(g[1..j], s[j + 1])
    BY <1>6, <2>4
  <2>7. s[k] \in Nat
    BY <2>4, TextFacts, ByteIsNatural
  <2> QED
    BY <2>3, <2>4, <2>5, <2>6, <2>7 DEF Decimal
<1>8. \A i \in 0..n : acc[i] = g[1..i] /\ acc[i] \in Int
  BY <1>7
<1>9. acc \in [0..n -> Int]
  BY <1>7
<1> HIDE DEF acc
<1>10. acc[0] = 0 /\ FoldLeft(Decimal, 0, s) = acc[n]
  <2>1. 0 \in 0..n /\ n \in 0..n
    BY <1>1
  <2> QED
    BY <1>3, <1>5, <1>8, <2>1
<1>11. \A i \in 0..(n - 1) : acc[i + 1] = Decimal(acc[i], s[i + 1])
  <2> TAKE i \in 0..(n - 1)
  <2>1. i \in 0..n /\ i + 1 \in 0..n
    BY <1>1
  <2> QED
    BY <1>6, <1>8, <2>1
<1>12. Values(s, acc)
  BY <1>9, <1>10, <1>11 DEF Values, n
<1> QED
  BY <1>12

(* A field that is read as a number is one.                                *)
LEMMA NumberRead ==
    ASSUME NEW b \in Seq(Byte)
    PROVE  ParseASCIIInt(b) \in Int
<1> DEFINE s == TrimSpace(NullPaddedString(b))
           signed == s # <<>> /\ s[1] \in {43, 45}
           digits == IF signed THEN Tail(s) ELSE s
           value == FoldLeft(Decimal, 0, digits)
<1>1. s \in Seq(Byte)
  BY UpToNullType, TrimTrims DEF Trimmed
<1>2. ParseASCIIInt(b) = IF Range(digits) \subseteq 48..57
                         THEN IF signed /\ s[1] = 45 THEN -value ELSE value
                         ELSE 0
  BY DEF ParseASCIIInt
<1> HIDE DEF s
<1>3. digits \in Seq(Byte)
  BY <1>1, HeadTailProperties
<1> HIDE DEF digits
<1>4. PICK acc : Values(digits, acc)
  BY <1>3, DecimalFolds
<1>5. Len(digits) \in 0..Len(digits)
  BY <1>3, TextFacts
<1>6. value \in Int
  BY <1>4, <1>5 DEF Values
<1> HIDE DEF value, signed
<1> QED
  BY <1>2, <1>6

LEMMA TensAre ==
    Tens[1] = 1 /\ Tens[2] = 10 /\ Tens[3] = 100 /\ Tens[4] = 1000 /\ Tens[5] = 10000
BY DEF Tens

(* n without its last k digits.                                            *)
Without(n, k) == IF k = 5 THEN 0 ELSE n \div Tens[k + 1]

LEMMA LastDigit ==
    ASSUME NEW n \in Nat
    PROVE  n = 10 * (n \div 10) + (n % 10) /\ n \div 10 \in Nat /\ n % 10 \in 0..9
OBVIOUS

LEMMA DigitsDropped ==
    ASSUME NEW n \in Nat, n < 100 * 1000
    PROVE  /\ \A k \in 0..5 : Without(n, k) \in Nat
           /\ \A k \in 0..4 : Without(n, k) = 10 * Without(n, k + 1) + (Without(n, k) % 10)
           /\ Without(n, 0) = n
<1> DEFINE a == n \div 10
           b == a \div 10
           c == b \div 10
           d == c \div 10
<1>1. n = 10 * a + (n % 10) /\ a \in Nat /\ n % 10 \in 0..9
  BY LastDigit
<1>2. a = 10 * b + (a % 10) /\ b \in Nat /\ a % 10 \in 0..9
  BY <1>1, LastDigit
<1>3. b = 10 * c + (b % 10) /\ c \in Nat /\ b % 10 \in 0..9
  BY <1>2, LastDigit
<1>4. c = 10 * d + (c % 10) /\ d \in Nat /\ c % 10 \in 0..9
  BY <1>3, LastDigit
<1> HIDE DEF a, b, c, d
<1>5. d < 10
  BY <1>1, <1>2, <1>3, <1>4
<1>6. n \div 1 = n
  OBVIOUS
<1>7. n \div 10 = a
  BY DEF a
<1>8. n \div 100 = b
  BY <1>1, <1>2
<1>9. n \div 1000 = c
  BY <1>1, <1>2, <1>3
<1>10. n \div 10000 = d
  BY <1>1, <1>2, <1>3, <1>4
<1>11. /\ Without(n, 0) = n /\ Without(n, 1) = a /\ Without(n, 2) = b
       /\ Without(n, 3) = c /\ Without(n, 4) = d /\ Without(n, 5) = 0
  BY TensAre, <1>6, <1>7, <1>8, <1>9, <1>10 DEF Without
<1>12. d = 10 * 0 + (d % 10)
  BY <1>4, <1>5
<1>13. \A k \in 0..5 : k = 0 \/ k = 1 \/ k = 2 \/ k = 3 \/ k = 4 \/ k = 5
  OBVIOUS
<1>14. ASSUME NEW k \in 0..4
       PROVE  Without(n, k) = 10 * Without(n, k + 1) + (Without(n, k) % 10)
  BY <1>1, <1>2, <1>3, <1>4, <1>11, <1>12
<1> QED
  BY <1>1, <1>2, <1>3, <1>4, <1>11, <1>13, <1>14

(* d is n in decimal, of w digits.                                         *)
Written10(n, w, d) ==
    /\ d \in Seq(Byte) /\ Len(d) = w
    /\ \A i \in 1..w : d[i] = 48 + (Without(n, w - i) % 10)

(* The digits have the value of the number.                                *)
LEMMA DigitsValue ==
    ASSUME NEW n \in Nat, n < 100 * 1000, NEW w \in 0..5, Without(n, w) = 0,
           NEW d, Written10(n, w, d)
    PROVE  FoldLeft(Decimal, 0, d) = n
<1>1. d \in Seq(Byte) /\ Len(d) = w /\ \A i \in 1..w : d[i] = 48 + (Without(n, w - i) % 10)
  BY DEF Written10
<1>2. PICK acc : Values(d, acc)
  BY <1>1, DecimalFolds
<1>3. /\ acc[0] = 0 /\ FoldLeft(Decimal, 0, d) = acc[w]
      /\ \A i \in 0..(w - 1) : acc[i + 1] = Decimal(acc[i], d[i + 1])
  BY <1>1, <1>2 DEF Values
<1>4. ASSUME NEW i \in 0..(w - 1), acc[i] = Without(n, w - i)
      PROVE  acc[i + 1] = Without(n, w - (i + 1))
  <2> DEFINE k == w - (i + 1)
  <2>1. /\ k \in 0..4 /\ k \in 0..5 /\ k + 1 \in 0..5
        /\ k + 1 = w - i /\ i + 1 \in 1..w /\ w - (i + 1) = k
    OBVIOUS
  <2> HIDE DEF k
  <2>2. d[i + 1] = 48 + (Without(n, k) % 10)
    BY <1>1, <2>1
  <2>3. Without(n, k) = 10 * Without(n, k + 1) + (Without(n, k) % 10)
    <3>1. \A j \in 0..4 : Without(n, j) = 10 * Without(n, j + 1) + (Without(n, j) % 10)
      BY DigitsDropped, ZenonT(30)
    <3>2. k \in 0..4
      BY <2>1
    <3> QED
      BY <3>1, <3>2
  <2>4. Without(n, k) \in Nat /\ Without(n, k + 1) \in Nat
    <3>1. \A j \in 0..5 : Without(n, j) \in Nat
      BY DigitsDropped, ZenonT(30)
    <3> QED
      BY <2>1, <3>1
  <2>5. acc[i + 1] = 10 * Without(n, k + 1) + ((48 + (Without(n, k) % 10)) - 48)
    <3>1. acc[i + 1] = Decimal(acc[i], d[i + 1]) /\ acc[i] = Without(n, k + 1)
      BY <1>3, <1>4, <2>1
    <3> QED
      BY <2>2, <3>1 DEF Decimal
  <2> DEFINE r == Without(n, k) % 10
  <2>6. r \in 0..9
    BY <2>4, LastDigit
  <2> HIDE DEF r
  <2>7. acc[i + 1] = Without(n, k)
    BY <2>3, <2>4, <2>5, <2>6 DEF r
  <2> QED
    BY <2>1, <2>7
<1> DEFINE B == {i \in 0..w : acc[i] # Without(n, w - i)}
<1>5. ASSUME B # {} PROVE FALSE
  <2>1. PICK k \in B : \A j \in B : k <= j
    <3>1. B \in SUBSET Nat
      OBVIOUS
    <3> HIDE DEF B
    <3> QED
      BY <1>5, <3>1, LeastNatural
  <2>2. k \in 0..w /\ acc[k] # Without(n, w - k)
    OBVIOUS
  <2>3. k # 0
    BY <1>3, <2>2
  <2> DEFINE j == k - 1
  <2>4. j \in 0..(w - 1) /\ j + 1 = k /\ j \in 0..w /\ ~(k <= j)
    BY <2>2, <2>3
  <2> HIDE DEF j
  <2>5. acc[j] = Without(n, w - j)
    BY <2>1, <2>4
  <2> QED
    BY <1>4, <2>2, <2>4, <2>5
<1>6. acc[w] = Without(n, w - w)
  <2>1. w \in 0..w
    OBVIOUS
  <2> QED
    BY <1>5, <2>1
<1>7. w - w = 0
  OBVIOUS
<1> QED
  BY <1>3, <1>6, <1>7, DigitsDropped

(* How many digits a number has.                                           *)
LEMMA DigitsWidth ==
    ASSUME NEW n \in Nat, n < 100 * 1000, NEW w \in 0..5,
           w # 0 => n >= Tens[w], w # 5 => n < Tens[w + 1]
    PROVE  Cardinality({k \in 1..5 : n >= Tens[k]}) = w
<1>1. \A k \in 1..5 : n >= Tens[k] <=> k <= w
  <2>1. \A k \in 1..5 : k = 1 \/ k = 2 \/ k = 3 \/ k = 4 \/ k = 5
    OBVIOUS
  <2>2. w = 0 \/ w = 1 \/ w = 2 \/ w = 3 \/ w = 4 \/ w = 5
    OBVIOUS
  <2> QED
    BY <2>1, <2>2, TensAre
<1>2. \A k : k \in {j \in 1..5 : n >= Tens[j]} <=> k \in 1..w
  BY <1>1
<1>3. {k \in 1..5 : n >= Tens[k]} = 1..w
  BY <1>2
<1>4. Cardinality(1..w) = IF 1 > w THEN 0 ELSE w - 1 + 1
  BY FS_Interval
<1>5. Cardinality(1..w) = w
  BY <1>4
<1> QED
  BY <1>3, <1>5, ZenonT(30)

(* A number's digits are decimal, have its value, and none is in front.    *)
DecimalText(n, d) ==
    /\ d \in Seq(Byte) /\ \A i \in 1..Len(d) : d[i] \in 48..57
    /\ FoldLeft(Decimal, 0, d) = n
    /\ Len(d) <= 5 /\ (n <= 999 => Len(d) <= 3)
    /\ d = <<>> <=> n = 0

LEMMA DigitsOfNumber ==
    ASSUME NEW n \in Nat, n < 100 * 1000
    PROVE  DecimalText(n, Digits(n))
<1>1. \E w \in 0..5 : (w # 0 => n >= Tens[w]) /\ (w # 5 => n < Tens[w + 1])
  <2>1. CASE n = 0
    BY <2>1, TensAre
  <2>2. CASE n > 0 /\ n < 10
    BY <2>2, TensAre
  <2>3. CASE n >= 10 /\ n < 100
    BY <2>3, TensAre
  <2>4. CASE n >= 100 /\ n < 1000
    BY <2>4, TensAre
  <2>5. CASE n >= 1000 /\ n < 10000
    BY <2>5, TensAre
  <2>6. CASE n >= 10000
    BY <2>6, TensAre
  <2> QED
    BY <2>1, <2>2, <2>3, <2>4, <2>5, <2>6
<1>2. PICK w \in 0..5 : (w # 0 => n >= Tens[w]) /\ (w # 5 => n < Tens[w + 1])
  BY <1>1
<1> DEFINE d == Digits(n)
<1>3. d = [i \in 1..w |-> 48 + ((n \div Tens[w + 1 - i]) % 10)]
  BY <1>2, DigitsWidth DEF Digits
<1>4. ASSUME NEW i \in 1..w
      PROVE  d[i] = 48 + (Without(n, w - i) % 10) /\ d[i] \in 48..57 /\ d[i] \in Byte
  <2>1. w - i \in 0..4 /\ (w - i) + 1 = w + 1 - i /\ w - i # 5 /\ w - i \in 0..5
    OBVIOUS
  <2>2. Without(n, w - i) = n \div Tens[w + 1 - i]
    BY <2>1 DEF Without
  <2>3. Without(n, w - i) \in Nat
    BY <2>1, DigitsDropped
  <2>4. d[i] = 48 + (Without(n, w - i) % 10)
    BY <1>3, <2>2
  <2> DEFINE r == Without(n, w - i) % 10
  <2>5. r \in 0..9
    BY <2>3, LastDigit
  <2> HIDE DEF r, d
  <2> QED
    BY <2>4, <2>5 DEF r, Byte
<1>5. d \in [1..w -> Byte]
  BY <1>3, <1>4
<1> HIDE DEF d
<1>6. d \in Seq(Byte) /\ Len(d) = w
  <2>1. w \in Nat
    OBVIOUS
  <2>2. d \in Seq(Byte)
    BY <1>5, <2>1, SeqDef
  <2> QED
    BY <1>5, <2>1, <2>2, TextFacts
<1>7. Written10(n, w, d)
  BY <1>4, <1>6 DEF Written10
<1>8. Without(n, w) = 0
  <2>1. CASE w = 5
    BY <2>1 DEF Without
  <2>2. CASE w # 5
    <3>1. Tens[w + 1] \in Nat \ {0} /\ n < Tens[w + 1]
      BY <1>2, <2>2, TensAre
    <3> DEFINE m == Tens[w + 1]
    <3>2. Without(n, w) = n \div m
      BY <2>2 DEF Without
    <3> HIDE DEF m
    <3>3. n \div m = 0
      BY <3>1 DEF m
    <3> QED
      BY <3>2, <3>3
  <2> QED
    BY <2>1, <2>2
<1>9. FoldLeft(Decimal, 0, d) = n
  BY <1>7, <1>8, DigitsValue
<1>10. n <= 999 => w <= 3
  BY <1>2, TensAre
<1>11. d = <<>> <=> n = 0
  <2>1. w = 0 <=> n = 0
    BY <1>2, TensAre
  <2> QED
    BY <1>6, <2>1, TextFacts
<1>12. DecimalText(n, d)
  BY <1>4, <1>6, <1>9, <1>10, <1>11 DEF DecimalText
<1> QED
  BY <1>12 DEF d

-----------------------------------------------------------------------------
(* The fields of a tag.                                                    *)

(* f holds text d and is filled up with pad.                               *)
Field(d, width, pad, f) ==
    /\ f \in Seq(Byte) /\ Len(f) = width
    /\ \A i \in 1..Len(d) : f[i] = d[i]
    /\ \A i \in 1..width : i > Len(d) => f[i] = pad

LEMMA FilledIsField ==
    ASSUME NEW d \in Seq(Byte), NEW width \in Nat, Len(d) <= width, NEW pad \in {0, 32}
    PROVE  Field(d, width, pad, Filled(d, width, pad))
<1> DEFINE p == [i \in 1..(width - Len(d)) |-> pad]
           f == Filled(d, width, pad)
<1>1. Len(d) \in Nat /\ width - Len(d) \in Nat
  BY TextFacts
<1>2. p \in Seq(Byte) /\ Len(p) = width - Len(d) /\ \A i \in 1..(width - Len(d)) : p[i] = pad
  <2>1. pad \in Byte
    BY DEF Byte
  <2>2. p \in [1..(width - Len(d)) -> Byte]
    BY <2>1
  <2> HIDE DEF p
  <2>3. p \in Seq(Byte)
    BY <1>1, <2>2, SeqDef
  <2>4. Len(p) = width - Len(d)
    BY <1>1, <2>2, <2>3, TextFacts
  <2> QED
    BY <2>3, <2>4 DEF p
<1>3. f = d \o p
  BY DEF Filled
<1> HIDE DEF p, f
<1>4. /\ f \in Seq(Byte) /\ Len(f) = Len(d) + Len(p)
      /\ \A i \in 1..Len(d) + Len(p) : f[i] = IF i <= Len(d) THEN d[i] ELSE p[i - Len(d)]
  BY <1>2, <1>3, ConcatProperties
<1>5. Len(f) = width
  BY <1>1, <1>2, <1>4
<1>6. ASSUME NEW i \in 1..Len(d) PROVE f[i] = d[i]
  <2>1. i \in 1..Len(d) + Len(p) /\ i <= Len(d)
    BY <1>1, <1>2
  <2> QED
    BY <1>4, <2>1
<1>7. ASSUME NEW i \in 1..width, i > Len(d) PROVE f[i] = pad
  <2>1. i \in 1..Len(d) + Len(p) /\ ~(i <= Len(d)) /\ i - Len(d) \in 1..(width - Len(d))
    BY <1>1, <1>2, <1>7
  <2> QED
    BY <1>2, <1>4, <2>1
<1>8. Field(d, width, pad, f)
  BY <1>4, <1>5, <1>6, <1>7 DEF Field
<1> QED
  BY <1>8 DEF f

(* Of a field of digits parseASCIIInt trims what it is filled with.        *)
LEMMA FieldTrimmed ==
    ASSUME NEW n \in Nat, NEW d, DecimalText(n, d), NEW width \in Nat, Len(d) <= width,
           NEW pad \in {0, 32}, NEW f, Field(d, width, pad, f)
    PROVE  TrimSpace(NullPaddedString(f)) = d
<1>1. /\ d \in Seq(Byte) /\ f \in Seq(Byte) /\ Len(f) = width /\ Len(d) \in 0..width
      /\ \A i \in 1..Len(d) : f[i] = d[i] /\ f[i] \in 48..57
      /\ \A i \in 1..width : i > Len(d) => f[i] = pad
  BY TextFacts DEF Field, DecimalText
<1>2. \A x \in 48..57 : x # 0 /\ x \notin Spaces
  BY DEF Spaces
<1> DEFINE e == NullPaddedString(f)
<1>3. e \in Seq(Byte) /\ Len(e) \in Nat /\ Len(d) <= Len(e)
      /\ (\A i \in 1..Len(d) : e[i] = d[i])
      /\ (\A i \in 1..Len(e) : i > Len(d) => e[i] \in Spaces)
  <2>1. CASE pad = 0
    <3>1. /\ Len(d) \in 0..Len(f) /\ \A i \in 1..Len(d) : f[i] # 0
          /\ Len(d) < Len(f) => f[Len(d) + 1] = 0
      <4>1. Len(d) < Len(f) => Len(d) + 1 \in 1..width /\ Len(d) + 1 > Len(d)
        BY <1>1
      <4> QED
        BY <1>1, <1>2, <2>1, <4>1
    <3>2. e = SubSeq(f, 1, Len(d))
      BY <1>1, <3>1, UpToNullIs
    <3>3. Part(f, 1, Len(d), e)
      <4>1. 1 \in Nat \ {0} /\ 1 <= Len(d) + 1
        BY <1>1
      <4> QED
        BY <1>1, <3>1, <3>2, <4>1, SubSeqIsPart
    <3> HIDE DEF e
    <3>4. e \in Seq(Byte) /\ Len(e) = Len(d) + 1 - 1 /\ \A i \in 1..Len(e) : e[i] = f[i + (1 - 1)]
      BY <3>3 DEF Part
    <3>5. Len(e) = Len(d) /\ \A i \in 1..Len(e) : e[i] = f[i]
      <4>1. \A i \in 1..Len(e) : i + (1 - 1) = i
        BY <1>1, <3>4
      <4> QED
        BY <1>1, <3>4, <4>1
    <3> QED
      BY <1>1, <3>4, <3>5
  <2>2. CASE pad = 32
    <3>1. Len(f) \in 0..Len(f) /\ ~(Len(f) < Len(f))
      BY <1>1
    <3>2. \A i \in 1..Len(f) : f[i] # 0
      <4> TAKE i \in 1..Len(f)
      <4>1. CASE i <= Len(d)
        <5>1. i \in 1..Len(d)
          BY <1>1, <4>1
        <5> QED
          BY <1>1, <1>2, <5>1
      <4>2. CASE ~(i <= Len(d))
        BY <1>1, <2>2, <4>2
      <4> QED
        BY <4>1, <4>2
    <3>3. e = SubSeq(f, 1, Len(f))
      BY <1>1, <3>1, <3>2, UpToNullIs
    <3>4. e = f
      BY <1>1, <3>3, SubSeqFull
    <3>5. 32 \in Spaces
      BY DEF Spaces
    <3> HIDE DEF e
    <3>6. \A i \in 1..Len(e) : i > Len(d) => e[i] \in Spaces
      BY <1>1, <2>2, <3>4, <3>5
    <3> QED
      BY <1>1, <3>4, <3>6
  <2> QED
    BY <2>1, <2>2
<1> HIDE DEF e
<1>4. CASE Len(d) = 0
  <2>1. \A i \in 1..Len(e) : e[i] \in Spaces
    BY <1>3, <1>4
  <2> QED
    BY <1>1, <1>3, <1>4, <2>1, TrimBlank, TextFacts DEF e
<1>5. CASE Len(d) # 0
  <2>1. 1 \in 1..Len(e) /\ Len(d) \in 1..Len(e) /\ 1 \in 1..Len(d) /\ Len(d) \in 1..Len(d)
    BY <1>1, <1>3, <1>5
  <2>2. e[1] \notin Spaces /\ e[Len(d)] \notin Spaces
    BY <1>1, <1>2, <1>3, <2>1
  <2>3. \A i \in 1..Len(e) : i < 1 \/ Len(d) < i => e[i] \in Spaces
    BY <1>1, <1>3
  <2>4. Core(e, 1, Len(d))
    BY <2>1, <2>2, <2>3 DEF Core
  <2>5. TrimSpace(e) = SubSeq(e, 1, Len(d))
    BY <1>3, <2>4, TrimIs
  <2>6. 1 \in Nat \ {0} /\ Len(d) \in 0..Len(e) /\ 1 <= Len(d) + 1
    BY <1>1, <2>1
  <2>7. Part(e, 1, Len(d), SubSeq(e, 1, Len(d)))
    BY <1>3, <2>6, SubSeqIsPart
  <2>8. Part(e, 1, Len(d), d)
    <3>1. Len(d) = Len(d) + 1 - 1 /\ \A i \in 1..Len(d) : i + (1 - 1) = i
      BY <1>1
    <3>2. \A i \in 1..Len(d) : d[i] = e[i + (1 - 1)]
      BY <1>3, <3>1
    <3> QED
      BY <1>1, <3>1, <3>2 DEF Part
  <2>9. SubSeq(e, 1, Len(d)) = d
    <3>1. 1 \in Int /\ Len(d) \in Int
      BY <1>1
    <3> QED
      BY <2>7, <2>8, <3>1, PartIs
  <2> QED
    BY <2>5, <2>9 DEF e
<1> QED
  BY <1>4, <1>5

(* And it reads the number that was written.                               *)
LEMMA FieldReadsBack ==
    ASSUME NEW n \in Nat, NEW d, DecimalText(n, d), NEW width \in Nat, Len(d) <= width,
           NEW pad \in {0, 32}, NEW f, Field(d, width, pad, f)
    PROVE  ParseASCIIInt(f) = n
<1>1. TrimSpace(NullPaddedString(f)) = d
  BY FieldTrimmed
<1>2. d \in Seq(Byte) /\ Len(d) \in Nat /\ DOMAIN d = 1..Len(d) /\ (\A i \in 1..Len(d) : d[i] \in 48..57)
  BY TextFacts DEF DecimalText
<1>3. ~(d # <<>> /\ d[1] \in {43, 45})
  <2>1. d # <<>> => 1 \in 1..Len(d)
    BY <1>2, TextFacts
  <2> QED
    BY <1>2, <2>1, SMTT(30)
<1>4. Range(d) \subseteq 48..57
  BY <1>2 DEF Range
<1>5. ParseASCIIInt(f) = FoldLeft(Decimal, 0, d)
  BY <1>1, <1>3, <1>4 DEF ParseASCIIInt
<1> QED
  BY <1>5 DEF DecimalText

(* b holds the fields x, the artist a in 32 bytes, and the byte c.         *)
Ended(x, a, c, b) ==
    /\ b \in Seq(Byte) /\ Len(b) = Len(x) + 33
    /\ \A i \in 1..Len(x) : b[i] = x[i]
    /\ \A i \in 1..Len(a) : b[i + Len(x)] = a[i]
    /\ \A i \in 1..32 : i > Len(a) => b[i + Len(x)] = 0
    /\ b[33 + Len(x)] = c

LEMMA ConcatEnds ==
    ASSUME NEW x \in Seq(Byte), NEW a \in Seq(Byte), Len(a) <= 32, NEW c \in Byte
    PROVE  Ended(x, a, c, x \o Filled(a, 32, 0) \o <<c>>)
<1> DEFINE z == <<c>>
           f == Filled(a, 32, 0)
           u == x \o f
           b == u \o z
<1>1. z \in Seq(Byte) /\ Len(z) = 1 /\ z[1] = c
  OBVIOUS
<1>2. Len(x) \in Nat /\ Len(a) \in Nat
  BY TextFacts
<1>3. /\ f \in Seq(Byte) /\ Len(f) = 32
      /\ \A i \in 1..Len(a) : f[i] = a[i]
      /\ \A i \in 1..32 : i > Len(a) => f[i] = 0
  <2>1. 32 \in Nat /\ 0 \in {0, 32}
    OBVIOUS
  <2>2. Field(a, 32, 0, f)
    BY <2>1, FilledIsField
  <2> HIDE DEF f
  <2> QED
    BY <2>2 DEF Field
<1>10. b = u \o z
  OBVIOUS
<1> HIDE DEF f
<1>4. /\ u \in Seq(Byte) /\ Len(u) = Len(x) + Len(f)
      /\ \A i \in 1..Len(x) + Len(f) : u[i] = IF i <= Len(x) THEN x[i] ELSE f[i - Len(x)]
  <2>1. f \in Seq(Byte)
    BY <1>3
  <2> QED
    BY ONLY <2>1, ConcatProperties
<1> HIDE DEF u, z, b
<1>5. /\ b \in Seq(Byte) /\ Len(b) = Len(u) + Len(z)
      /\ \A i \in 1..Len(u) + Len(z) : b[i] = IF i <= Len(u) THEN u[i] ELSE z[i - Len(u)]
  <2>1. u \in Seq(Byte) /\ z \in Seq(Byte)
    BY <1>1, <1>4
  <2>2. /\ u \o z \in Seq(Byte) /\ Len(u \o z) = Len(u) + Len(z)
        /\ \A i \in 1..Len(u) + Len(z) :
              (u \o z)[i] = IF i <= Len(u) THEN u[i] ELSE z[i - Len(u)]
    BY ONLY <2>1, ConcatProperties
  <2> QED
    BY ONLY <1>10, <2>2
<1>11. Len(f) = 32 /\ Len(u) = Len(x) + 32 /\ Len(z) = 1
  BY <1>1, <1>2, <1>3, <1>4
<1>6. ASSUME NEW i \in 1..Len(x) PROVE b[i] = x[i]
  <2>1. i \in 1..Len(u) + Len(z) /\ i <= Len(u) /\ i \in 1..Len(x) + Len(f) /\ i <= Len(x)
    BY <1>2, <1>11
  <2> QED
    BY <1>4, <1>5, <2>1
<1>7. ASSUME NEW i \in 1..32 PROVE b[i + Len(x)] = f[i]
  <2> DEFINE j == i + Len(x)
  <2>1. /\ j \in 1..Len(u) + Len(z) /\ j <= Len(u) /\ j \in 1..Len(x) + Len(f)
        /\ ~(j <= Len(x)) /\ j - Len(x) = i
    BY <1>2, <1>11
  <2> HIDE DEF j
  <2>2. b[j] = f[i]
    BY <1>4, <1>5, <2>1
  <2> QED
    BY <2>2 DEF j
<1>8. b[33 + Len(x)] = c
  <2> DEFINE j == 33 + Len(x)
  <2>1. j \in 1..Len(u) + Len(z) /\ ~(j <= Len(u)) /\ j - Len(u) = 1
    BY <1>2, <1>11
  <2> HIDE DEF j
  <2>2. b[j] = z[1]
    BY <1>5, <2>1
  <2> QED
    BY <1>1, <2>2 DEF j
<1>9. Ended(x, a, c, b)
  <2>1. \A i \in 1..Len(a) : i \in 1..32
    BY <1>2
  <2>2. \A i \in 1..Len(a) : b[i + Len(x)] = a[i]
    BY <1>3, <1>7, <2>1
  <2>3. \A i \in 1..32 : i > Len(a) => b[i + Len(x)] = 0
    BY <1>3, <1>7
  <2>4. Len(b) = Len(x) + 33
    BY <1>5, <1>2, <1>11
  <2> QED
    BY <1>5, <1>6, <1>8, <2>2, <2>3, <2>4 DEF Ended
<1> QED
  BY <1>9 DEF b, u, z, f

(* What follows a null is not read.                                        *)
LEMMA NullEnds ==
    ASSUME NEW a \in Seq(Byte), NEW r \in Seq(Byte), Len(a) < Len(r),
           \A i \in 1..Len(a) : r[i] = a[i], r[Len(a) + 1] = 0
    PROVE  NullPaddedString(r) = NullPaddedString(a)
<1>1. PICK n \in 0..Len(a) :
          /\ \A i \in 1..n : a[i] # 0
          /\ n < Len(a) => a[n + 1] = 0
          /\ NullPaddedString(a) = SubSeq(a, 1, n)
  BY UpToNull
<1>2. Len(a) \in Nat /\ Len(r) \in Nat
  BY TextFacts
<1>3. n \in 0..Len(r) /\ \A i \in 1..n : r[i] # 0
  BY <1>1, <1>2
<1>4. n < Len(r) => r[n + 1] = 0
  <2>1. CASE n < Len(a)
    <3>1. n + 1 \in 1..Len(a)
      BY <1>2, <2>1
    <3> QED
      BY <1>1, <2>1, <3>1
  <2>2. CASE ~(n < Len(a))
    <3>1. n = Len(a)
      BY <1>2, <2>2
    <3> QED
      BY <3>1
  <2> QED
    BY <2>1, <2>2
<1>5. NullPaddedString(r) = SubSeq(r, 1, n)
  BY <1>3, <1>4, UpToNullIs
<1>6. Part(r, 1, n, SubSeq(r, 1, n)) /\ Part(a, 1, n, SubSeq(a, 1, n))
  <2>1. 1 \in Nat \ {0} /\ 1 <= n + 1
    OBVIOUS
  <2> QED
    BY <1>3, <2>1, SubSeqIsPart
<1> DEFINE t == SubSeq(r, 1, n)
<1> HIDE DEF t
<1>7. Part(a, 1, n, t)
  <2>1. t \in Seq(Byte) /\ Len(t) = n + 1 - 1 /\ \A i \in 1..Len(t) : t[i] = r[i + (1 - 1)]
    BY <1>6 DEF Part, t
  <2>2. \A i \in 1..Len(t) : i + (1 - 1) = i /\ i \in 1..Len(a)
    BY <1>2, <2>1
  <2>3. \A i \in 1..Len(t) : t[i] = a[i + (1 - 1)]
    BY <2>1, <2>2
  <2> QED
    BY <2>1, <2>3 DEF Part
<1>8. t = SubSeq(a, 1, n)
  <2>1. 1 \in Int /\ n \in Int
    OBVIOUS
  <2> QED
    BY <1>6, <1>7, <2>1, PartIs
<1> QED
  BY <1>1, <1>5, <1>8 DEF t

(* Nor is a space in front.                                                *)
LEMMA SpaceSkipped ==
    ASSUME NEW a \in Seq(Byte), a # <<>>, a[1] \in Spaces, NEW t, Part(a, 2, Len(a), t)
    PROVE  TrimSpace(NullPaddedString(t)) = TrimSpace(NullPaddedString(a))
<1>1. PICK n \in 0..Len(a) :
          /\ \A i \in 1..n : a[i] # 0
          /\ n < Len(a) => a[n + 1] = 0
          /\ NullPaddedString(a) = SubSeq(a, 1, n)
  BY UpToNull
<1>2. /\ t \in Seq(Byte) /\ Len(t) = Len(a) + 1 - 2 /\ Len(a) \in Nat /\ Len(a) # 0
      /\ \A i \in 1..Len(t) : t[i] = a[i + (2 - 1)]
  BY TextFacts DEF Part
<1>3. Len(t) = Len(a) - 1 /\ \A i \in 1..Len(t) : t[i] = a[i + 1]
  <2>1. \A i \in 1..Len(t) : i + (2 - 1) = i + 1
    BY <1>2
  <2> QED
    BY <1>2, <2>1
<1>4. n # 0
  <2>1. a[1] # 0
    BY DEF Spaces
  <2>2. n = 0 => n < Len(a) /\ n + 1 = 1
    BY <1>2
  <2> QED
    BY <1>1, <2>1, <2>2
<1> DEFINE m == n - 1
<1>5. m \in 0..Len(t) /\ m + 1 = n
  BY <1>2, <1>3, <1>4
<1> HIDE DEF m
<1>6. NullPaddedString(t) = SubSeq(t, 1, m)
  <2>1. \A i \in 1..m : i \in 1..Len(t) /\ i + 1 \in 1..n
    BY <1>2, <1>3, <1>5
  <2>2. \A i \in 1..m : t[i] # 0
    BY <1>1, <1>3, <2>1
  <2>3. m < Len(t) => m + 1 \in 1..Len(t) /\ (m + 1) + 1 = n + 1 /\ n < Len(a)
    BY <1>2, <1>3, <1>5
  <2>4. m < Len(t) => t[m + 1] = 0
    BY <1>1, <1>3, <2>3
  <2> QED
    BY <1>2, <1>5, <2>2, <2>4, UpToNullIs
<1> DEFINE e == SubSeq(a, 1, n)
           f == SubSeq(t, 1, m)
<1>7. Part(a, 1, n, e) /\ Part(t, 1, m, f)
  <2>1. 1 \in Nat \ {0} /\ 1 <= n + 1 /\ 1 <= m + 1
    BY <1>5
  <2> QED
    BY <1>2, <1>5, <2>1, SubSeqIsPart
<1> HIDE DEF e, f
<1>8. /\ e \in Seq(Byte) /\ Len(e) = n + 1 - 1 /\ \A i \in 1..Len(e) : e[i] = a[i + (1 - 1)]
      /\ f \in Seq(Byte) /\ Len(f) = m + 1 - 1 /\ \A i \in 1..Len(f) : f[i] = t[i + (1 - 1)]
  BY <1>7 DEF Part
<1>9. Len(e) = n /\ Len(f) = m
  BY <1>5, <1>8
<1>10. (\A i \in 1..n : e[i] = a[i]) /\ (\A i \in 1..m : f[i] = t[i])
  <2>1. (\A i \in 1..n : i + (1 - 1) = i) /\ (\A i \in 1..m : i + (1 - 1) = i)
    BY <1>5
  <2> QED
    BY <1>8, <1>9, <2>1
<1>11. Part(e, 2, Len(e), f)
  <2>1. Len(f) = Len(e) + 1 - 2
    BY <1>5, <1>9
  <2>2. ASSUME NEW i \in 1..Len(f) PROVE f[i] = e[i + (2 - 1)]
    <3>1. i \in 1..m /\ i \in 1..Len(t) /\ i + 1 \in 1..n /\ i + (2 - 1) = i + 1
      BY <1>5, <1>9
    <3>2. f[i] = t[i] /\ t[i] = a[i + 1] /\ e[i + 1] = a[i + 1]
      BY <1>3, <1>10, <3>1
    <3> QED
      BY <3>1, <3>2
  <2> QED
    BY <1>8, <2>1, <2>2 DEF Part
<1>12. e # <<>> /\ e[1] \in Spaces
  <2>1. 1 \in 1..n
    BY <1>4
  <2> QED
    BY <1>8, <1>9, <1>10, <2>1, TextFacts
<1>13. TrimSpace(e) = TrimSpace(f)
  BY <1>8, <1>11, <1>12, TrimSkips
<1> QED
  BY <1>1, <1>6, <1>13 DEF e, f

-----------------------------------------------------------------------------
(* What tools write and the parser finds.                                  *)

LEMMA WrittenTyped ==
    ASSUME NEW w \in Written
    PROVE  /\ w.play \in Nat /\ w.fade \in Nat /\ w.pad \in {0, 32} /\ w.dated \in BOOLEAN
           /\ w.title \in Seq(Byte) /\ Len(w.title) <= 32
           /\ w.artist \in Seq(Byte) /\ Len(w.artist) <= 32 /\ w.channels \in Byte
           /\ w.format = "text" => w.play < 1000 /\ w.fade < 100 * 1000
           /\ w.format = "binary" => /\ w.play \div (256 * 256) < 256
                                     /\ w.fade \div (256 * 256 * 256) < 256
<1>1. w \in Dumps /\ Fits(w)
  BY WrittenAssumption
<1>2. /\ w.play \in Nat /\ w.fade \in Nat /\ w.pad \in {0, 32} /\ w.dated \in BOOLEAN
      /\ w.title \in Seq(ASCII) /\ w.artist \in Seq(ASCII) /\ w.channels \in Byte
  BY <1>1 DEF Dumps
<1>3. w.title \in Seq(Byte) /\ w.artist \in Seq(Byte)
  BY <1>2, TextIsBytes
<1> QED
  BY <1>1, <1>2, <1>3 DEF Fits

LEMMA EightBits ==
    ASSUME NEW n \in Nat
    PROVE  n = 256 * (n \div 256) + (n % 256) /\ n \div 256 \in Nat /\ n % 256 \in Byte
BY DEF Byte

LEMMA BytesNest ==
    ASSUME NEW n \in Nat
    PROVE  /\ n \div (256 * 256) = (n \div 256) \div 256
           /\ n \div (256 * 256 * 256) = ((n \div 256) \div 256) \div 256
<1> DEFINE a == n \div 256
           b == a \div 256
           c == b \div 256
<1>1. n = 256 * a + (n % 256) /\ a \in Nat /\ n % 256 \in 0..255
  BY EightBits DEF Byte
<1>2. a = 256 * b + (a % 256) /\ b \in Nat /\ a % 256 \in 0..255
  BY <1>1, EightBits DEF Byte
<1>3. b = 256 * c + (b % 256) /\ c \in Nat /\ b % 256 \in 0..255
  BY <1>2, EightBits DEF Byte
<1> HIDE DEF a, b, c
<1>4. n \div (256 * 256) = b
  BY <1>1, <1>2, SMT
<1>5. n \div (256 * 256 * 256) = c
  BY <1>1, <1>2, <1>3, SMT
<1> QED
  BY <1>4, <1>5 DEF a, b, c

(* The parts of a number, least significant first.                         *)
LEMMA BytesOfNumber ==
    ASSUME NEW n \in Nat
    PROVE  LET p == n \div (256 * 256)
               q == n \div (256 * 256 * 256)
           IN  /\ p \in Nat /\ q \in Nat
               /\ n = (n % 256) + 256 * (((n \div 256) % 256) + 256 * p)
               /\ p = (p % 256) + 256 * q
               /\ n % 256 \in Byte /\ (n \div 256) % 256 \in Byte
               /\ p % 256 \in Byte /\ q % 256 \in Byte
<1> DEFINE a == n \div 256
           p == n \div (256 * 256)
           q == n \div (256 * 256 * 256)
<1>1. n = 256 * a + (n % 256) /\ a \in Nat /\ n % 256 \in Byte
  BY EightBits
<1>2. a = 256 * p + (a % 256) /\ p \in Nat /\ a % 256 \in Byte
  BY <1>1, EightBits, BytesNest
<1>3. p = 256 * q + (p % 256) /\ q \in Nat /\ p % 256 \in Byte
  BY <1>2, EightBits, BytesNest
<1>4. q % 256 \in Byte
  BY <1>3, EightBits
<1>5. n % 256 \in Nat /\ a % 256 \in Nat /\ p % 256 \in Nat
  BY <1>1, <1>2, <1>3, ByteIsNatural
<1> HIDE DEF p, q
<1>6. n = (n % 256) + 256 * ((a % 256) + 256 * p) /\ p = (p % 256) + 256 * q
  <2> DEFINE x == n % 256
             y == a % 256
             z == p % 256
  <2> HIDE DEF a, x, y, z
  <2>1. n = x + 256 * (y + 256 * p) /\ p = z + 256 * q
    BY <1>1, <1>2, <1>3, <1>5 DEF x, y, z
  <2> QED
    BY <2>1 DEF x, y, z
<1> QED
  BY <1>1, <1>2, <1>3, <1>4, <1>6 DEF p, q

AllBytes(n) ==
    /\ n % 256 \in Byte /\ (n \div 256) % 256 \in Byte
    /\ (n \div (256 * 256)) % 256 \in Byte
    /\ (n \div (256 * 256 * 256)) % 256 \in Byte

LEMMA BytesTyped ==
    ASSUME NEW n \in Nat
    PROVE  AllBytes(n)
<1> DEFINE k == n \div 256
           l == n \div (256 * 256)
           m == n \div (256 * 256 * 256)
<1>1. k \in Nat /\ l \in Nat /\ m \in Nat
  OBVIOUS
<1> HIDE DEF k, l, m
<1>2. n % 256 \in Byte /\ k % 256 \in Byte /\ l % 256 \in Byte /\ m % 256 \in Byte
  BY <1>1, EightBits
<1> QED
  BY ONLY <1>2 DEF AllBytes, k, l, m

(* x is what a binary tag holds in front of its artist.                    *)
Durations7(w, x) ==
    /\ x \in Seq(Byte) /\ Len(x) = 7
    /\ x[1] = w.play % 256 /\ x[2] = (w.play \div 256) % 256
    /\ x[3] = (w.play \div (256 * 256)) % 256
    /\ x[4] = w.fade % 256 /\ x[5] = (w.fade \div 256) % 256
    /\ x[6] = (w.fade \div (256 * 256)) % 256
    /\ x[7] = (w.fade \div (256 * 256 * 256)) % 256

LEMMA BytesConcat ==
    ASSUME NEW a \in Byte, NEW b \in Byte, NEW c \in Byte, NEW d \in Byte, NEW e \in Byte,
           NEW f \in Byte, NEW g \in Byte
    PROVE  <<a, b, c>> \o (<<d, e, f>> \o <<g>>) = <<a, b, c, d, e, f, g>>
<1> DEFINE l == <<a, b, c>>
           m == <<d, e, f>>
           n == <<g>>
           r == m \o n
           s == l \o r
           t == <<a, b, c, d, e, f, g>>
<1>1. /\ l \in Seq(Byte) /\ Len(l) = 3 /\ l[1] = a /\ l[2] = b /\ l[3] = c
      /\ m \in Seq(Byte) /\ Len(m) = 3 /\ m[1] = d /\ m[2] = e /\ m[3] = f
      /\ n \in Seq(Byte) /\ Len(n) = 1 /\ n[1] = g
  OBVIOUS
<1>2. /\ t \in Seq(Byte) /\ Len(t) = 7 /\ t[1] = a /\ t[2] = b /\ t[3] = c
      /\ t[4] = d /\ t[5] = e /\ t[6] = f /\ t[7] = g
  OBVIOUS
<1>3. l \in Seq(Byte) /\ m \in Seq(Byte) /\ n \in Seq(Byte)
  BY <1>1
<1> HIDE DEF l, m, n, t
<1>4. /\ r \in Seq(Byte) /\ Len(r) = Len(m) + Len(n)
      /\ \A i \in 1..Len(m) + Len(n) : r[i] = IF i <= Len(m) THEN m[i] ELSE n[i - Len(m)]
  BY ONLY <1>3, ConcatProperties
<1> HIDE DEF r
<1>5. /\ s \in Seq(Byte) /\ Len(s) = Len(l) + Len(r)
      /\ \A i \in 1..Len(l) + Len(r) : s[i] = IF i <= Len(l) THEN l[i] ELSE r[i - Len(l)]
  <2>1. r \in Seq(Byte)
    BY <1>4
  <2> QED
    BY ONLY <1>3, <2>1, ConcatProperties
<1> HIDE DEF s
<1>6. Len(r) = 4 /\ r[1] = d /\ r[2] = e /\ r[3] = f /\ r[4] = g
  BY <1>1, <1>4
<1>7. Len(s) = 7 /\ s[1] = a /\ s[2] = b /\ s[3] = c /\ s[4] = d /\ s[5] = e /\ s[6] = f /\ s[7] = g
  BY <1>1, <1>5, <1>6
<1>8. \A i \in 1..Len(s) : s[i] = t[i]
  <2>1. \A i \in 1..7 : i = 1 \/ i = 2 \/ i = 3 \/ i = 4 \/ i = 5 \/ i = 6 \/ i = 7
    OBVIOUS
  <2> QED
    BY <1>2, <1>7, <2>1
<1>9. s = t
  BY <1>2, <1>5, <1>7, <1>8, SeqEqual
<1> QED
  BY <1>9 DEF l, m, n, r, s, t

LEMMA BinaryRest ==
    ASSUME NEW w \in Written, w.format = "binary"
    PROVE  \E x : Durations7(w, x) /\ Ended(x, w.artist, w.channels, Rest(w))
<1> DEFINE x == Bytes3(w.play) \o Bytes4(w.fade)
           p == w.play
           q == w.fade
           a == p % 256
           b == (p \div 256) % 256
           c == (p \div (256 * 256)) % 256
           d == q % 256
           e == (q \div 256) % 256
           f == (q \div (256 * 256)) % 256
           g == (q \div (256 * 256 * 256)) % 256
<1>1. p \in Nat /\ q \in Nat /\ w.artist \in Seq(Byte) /\ Len(w.artist) <= 32 /\ w.channels \in Byte
  BY WrittenTyped
<1>2. x = <<a, b, c>> \o (<<d, e, f>> \o <<g>>)
  BY DEF Bytes3, Bytes4
<1>3. /\ a \in Byte /\ b \in Byte /\ c \in Byte
      /\ d \in Byte /\ e \in Byte /\ f \in Byte /\ g \in Byte
  <2>1. AllBytes(p)
    BY ONLY <1>1, BytesTyped
  <2>2. AllBytes(q)
    BY ONLY <1>1, BytesTyped
  <2> QED
    BY ONLY <2>1, <2>2 DEF AllBytes
<1>4. Rest(w) = x \o Filled(w.artist, 32, 0) \o <<w.channels>>
  BY DEF Rest
<1> HIDE DEF x, a, b, c, d, e, f, g
<1>5. x = <<a, b, c, d, e, f, g>>
  BY <1>2, <1>3, BytesConcat
<1>6. x \in Seq(Byte) /\ Len(x) = 7
  BY <1>3, <1>5
<1>7. /\ x[1] = a /\ x[2] = b /\ x[3] = c /\ x[4] = d /\ x[5] = e /\ x[6] = f /\ x[7] = g
  BY <1>5
<1>8. Durations7(w, x)
  BY <1>6, <1>7 DEF Durations7, a, b, c, d, e, f, g
<1>9. Ended(x, w.artist, w.channels, Rest(w))
  BY <1>1, <1>4, <1>6, ConcatEnds
<1> QED
  BY <1>8, <1>9

(* x is what a text tag holds in front of its artist.                      *)
Fields8(w, x, play, fade) ==
    /\ x \in Seq(Byte) /\ Len(x) = 8
    /\ Field(Digits(w.play), 3, w.pad, play) /\ Field(Digits(w.fade), 5, w.pad, fade)
    /\ \A i \in 1..3 : x[i] = play[i]
    /\ \A i \in 1..5 : x[i + 3] = fade[i]

LEMMA TextRest ==
    ASSUME NEW w \in Written, w.format = "text"
    PROVE  /\ DecimalText(w.play, Digits(w.play)) /\ Len(Digits(w.play)) <= 3
           /\ DecimalText(w.fade, Digits(w.fade)) /\ Len(Digits(w.fade)) <= 5
           /\ \E x, play, fade : Fields8(w, x, play, fade) /\ Ended(x, w.artist, w.channels, Rest(w))
<1> DEFINE play == Filled(Digits(w.play), 3, w.pad)
           fade == Filled(Digits(w.fade), 5, w.pad)
           x == play \o fade
<1>1. /\ w.play \in Nat /\ w.fade \in Nat /\ w.play < 1000 /\ w.fade < 100 * 1000
      /\ w.pad \in {0, 32} /\ w.artist \in Seq(Byte) /\ Len(w.artist) <= 32 /\ w.channels \in Byte
  BY WrittenTyped
<1>2. w.play < 100 * 1000 /\ w.play <= 999
  BY <1>1
<1>3. DecimalText(w.play, Digits(w.play)) /\ DecimalText(w.fade, Digits(w.fade))
  BY <1>1, <1>2, DigitsOfNumber
<1>4. Len(Digits(w.play)) <= 3 /\ Len(Digits(w.fade)) <= 5
  BY <1>2, <1>3 DEF DecimalText
<1>5. Digits(w.play) \in Seq(Byte) /\ Digits(w.fade) \in Seq(Byte)
  BY <1>3 DEF DecimalText
<1>6. Field(Digits(w.play), 3, w.pad, play) /\ Field(Digits(w.fade), 5, w.pad, fade)
  <2>1. 3 \in Nat /\ 5 \in Nat
    OBVIOUS
  <2>2. Field(Digits(w.play), 3, w.pad, play)
    BY <1>1, <1>4, <1>5, <2>1, FilledIsField
  <2>3. Field(Digits(w.fade), 5, w.pad, fade)
    BY <1>1, <1>4, <1>5, <2>1, FilledIsField
  <2> QED
    BY <2>2, <2>3
<1>7. Rest(w) = x \o Filled(w.artist, 32, 0) \o <<w.channels>>
  BY DEF Rest
<1> HIDE DEF play, fade
<1>8. play \in Seq(Byte) /\ fade \in Seq(Byte) /\ Len(play) = 3 /\ Len(fade) = 5
  BY <1>6 DEF Field
<1>9. /\ x \in Seq(Byte) /\ Len(x) = Len(play) + Len(fade)
      /\ \A i \in 1..Len(play) + Len(fade) :
            x[i] = IF i <= Len(play) THEN play[i] ELSE fade[i - Len(play)]
  <2>1. play \in Seq(Byte) /\ fade \in Seq(Byte)
    BY <1>8
  <2> QED
    BY ONLY <2>1, ConcatProperties
<1> HIDE DEF x
<1>10. \A i \in 1..3 : x[i] = play[i]
  BY <1>8, <1>9
<1>11. \A i \in 1..5 : x[i + 3] = fade[i]
  <2> TAKE i \in 1..5
  <2> DEFINE j == i + 3
  <2>1. j \in 1..3 + 5 /\ ~(j <= 3) /\ j - 3 = i
    OBVIOUS
  <2> HIDE DEF j
  <2>2. x[j] = fade[i]
    BY <1>8, <1>9, <2>1
  <2> QED
    BY <2>2 DEF j
<1>12. x \in Seq(Byte) /\ Len(x) = 8
  BY <1>8, <1>9
<1>13. Fields8(w, x, play, fade)
  BY <1>6, <1>10, <1>11, <1>12 DEF Fields8
<1>14. Ended(x, w.artist, w.channels, Rest(w))
  BY <1>1, <1>7, <1>12, ConcatEnds
<1> QED
  BY <1>3, <1>4, <1>13, <1>14

(* What starts with a and goes on with nulls reads as a.                   *)
LEMMA NullsFollow ==
    ASSUME NEW a \in Seq(Byte), NEW r \in Seq(Byte), Len(a) <= Len(r),
           \A i \in 1..Len(a) : r[i] = a[i],
           \A i \in 1..Len(r) : i > Len(a) => r[i] = 0
    PROVE  NullPaddedString(r) = NullPaddedString(a)
<1>1. Len(a) \in Nat /\ Len(r) \in Nat
  BY TextFacts
<1>2. CASE Len(a) < Len(r)
  <2>1. Len(a) + 1 \in 1..Len(r) /\ Len(a) + 1 > Len(a)
    BY <1>1, <1>2
  <2>2. r[Len(a) + 1] = 0
    BY <2>1
  <2> QED
    BY <1>2, <2>2, NullEnds
<1>3. CASE Len(a) = Len(r)
  <2>1. r = a
    BY <1>3, SeqEqual
  <2> QED
    BY <2>1
<1> QED
  BY <1>1, <1>2, <1>3

(* The artist is at its place, and ends at the first null.                 *)
LEMMA ArtistFound ==
    ASSUME NEW x \in Seq(Byte), NEW a \in Seq(Byte), Len(a) <= 32, NEW c, NEW b, Ended(x, a, c, b)
    PROVE  NullPaddedString(SubSeq(b, Len(x) + 1, Len(x) + 32)) = NullPaddedString(a)
<1> DEFINE r == SubSeq(b, Len(x) + 1, Len(x) + 32)
<1>1. /\ b \in Seq(Byte) /\ Len(b) = Len(x) + 33
      /\ \A i \in 1..Len(a) : b[i + Len(x)] = a[i]
      /\ \A i \in 1..32 : i > Len(a) => b[i + Len(x)] = 0
  BY DEF Ended
<1>2. Len(x) \in Nat /\ Len(a) \in Nat
  BY TextFacts
<1>3. Part(b, Len(x) + 1, Len(x) + 32, r)
  <2>1. Len(x) + 1 \in Nat \ {0} /\ Len(x) + 32 \in 0..Len(b) /\ Len(x) + 1 <= Len(x) + 32 + 1
    BY <1>1, <1>2
  <2> QED
    BY <1>1, <2>1, SubSeqIsPart
<1> HIDE DEF r
<1>4. /\ r \in Seq(Byte) /\ Len(r) = Len(x) + 32 + 1 - (Len(x) + 1)
      /\ \A i \in 1..Len(r) : r[i] = b[i + (Len(x) + 1 - 1)]
  BY <1>3 DEF Part
<1>5. Len(r) = 32 /\ \A i \in 1..32 : r[i] = b[i + Len(x)]
  <2>1. Len(r) = 32 /\ \A i \in 1..32 : i + (Len(x) + 1 - 1) = i + Len(x)
    BY <1>2, <1>4
  <2> QED
    BY <1>4, <2>1
<1>6. \A i \in 1..Len(a) : r[i] = a[i]
  <2>1. \A i \in 1..Len(a) : i \in 1..32
    BY <1>2
  <2> QED
    BY <1>1, <1>5, <2>1
<1>7. Len(a) <= Len(r) /\ \A i \in 1..Len(r) : i > Len(a) => r[i] = 0
  BY <1>1, <1>2, <1>5
<1> QED
  BY <1>4, <1>6, <1>7, NullsFollow DEF r

-----------------------------------------------------------------------------
(* The tags that Parse makes.                                              *)

BinaryTag(w) ==
    LET b == Rest(w)
    IN  [title  |-> NullPaddedString(w.title),
         artist |-> NullPaddedString(BinaryArtist(b)),
         playMs |-> IF Uint24(b, 1) <= MaxBinaryPlaySec THEN 1000 * Uint24(b, 1) ELSE 0,
         fadeMs |-> IF Uint32(b, 4) <= MaxBinaryFadeMs THEN Uint32(b, 4) ELSE 0]

TextTag(w) ==
    LET b == Rest(w)
    IN  [title  |-> NullPaddedString(w.title),
         artist |-> NullPaddedString(SubSeq(b, 9, 40)),
         playMs |-> 1000 * ParseASCIIInt(SubSeq(b, 1, 3)),
         fadeMs |-> ParseASCIIInt(SubSeq(b, 4, 8))]

(* What of a tag the rest relies on.                                       *)
TagOK(t) ==
    /\ t.title \in Seq(Byte) /\ Len(t.title) <= 32
    /\ t.artist \in Seq(Byte) /\ Len(t.artist) <= 32
    /\ t.playMs \in Int /\ t.fadeMs \in Int

(* The bytes from 0xA9 on, in either encoding.                             *)
LEMMA RestTyped ==
    ASSUME NEW w \in Written, w.format \in {"text", "binary"}
    PROVE  Rest(w) \in Seq(Byte) /\ Len(Rest(w)) \in Nat /\ Len(Rest(w)) >= 40
<1>1. \E x \in Seq(Byte) : Len(x) \in {7, 8} /\ Ended(x, w.artist, w.channels, Rest(w))
  <2>1. CASE w.format = "text"
    <3>1. PICK x, play, fade : Fields8(w, x, play, fade) /\ Ended(x, w.artist, w.channels, Rest(w))
      BY <2>1, TextRest
    <3> QED
      BY <3>1 DEF Fields8
  <2>2. CASE w.format = "binary"
    <3>1. PICK x : Durations7(w, x) /\ Ended(x, w.artist, w.channels, Rest(w))
      BY <2>2, BinaryRest
    <3> QED
      BY <3>1 DEF Durations7
  <2> QED
    BY <2>1, <2>2
<1>2. Rest(w) \in Seq(Byte) /\ (Len(Rest(w)) = 7 + 33 \/ Len(Rest(w)) = 8 + 33)
  BY <1>1 DEF Ended
<1> DEFINE n == Len(Rest(w))
<1>3. n = 7 + 33 \/ n = 8 + 33
  BY <1>2
<1> HIDE DEF n
<1>4. n \in Nat /\ n >= 40
  BY <1>3
<1> QED
  BY <1>2, <1>4 DEF n

(* A number of three bytes.                                                *)
LEMMA ThreeBytes ==
    ASSUME NEW x \in Nat, NEW y \in Nat, NEW z \in Nat
    PROVE  x + 256 * (y + 256 * z) \in Nat
<1>1. y + 256 * z \in Nat
  OBVIOUS
<1> DEFINE t == y + 256 * z
<1> HIDE DEF t
<1>2. x + 256 * t \in Nat
  BY <1>1 DEF t
<1> QED
  BY <1>2 DEF t

LEMMA BytesRead ==
    ASSUME NEW b \in Seq(Byte), NEW at \in Nat \ {0}
    PROVE  /\ at + 2 <= Len(b) => Uint24(b, at) \in Nat
           /\ at + 3 <= Len(b) => Uint32(b, at) \in Nat
<1>1. Len(b) \in Nat
  BY TextFacts
<1>2. ASSUME at + 2 <= Len(b) PROVE Uint24(b, at) \in Nat
  <2>1. at \in 1..Len(b) /\ at + 1 \in 1..Len(b) /\ at + 2 \in 1..Len(b)
    BY <1>1, <1>2
  <2>2. b[at] \in Nat /\ b[at + 1] \in Nat /\ b[at + 2] \in Nat
    BY <2>1, TextFacts, ByteIsNatural
  <2>3. b[at] + 256 * (b[at + 1] + 256 * b[at + 2]) \in Nat
    BY ONLY <2>2, ThreeBytes, SMTT(30)
  <2> QED
    BY ONLY <2>3 DEF Uint24
<1>3. ASSUME at + 3 <= Len(b) PROVE Uint32(b, at) \in Nat
  <2>1. at + 3 \in 1..Len(b) /\ at + 2 <= Len(b)
    BY <1>1, <1>3
  <2>2. b[at + 3] \in Nat /\ Uint24(b, at) \in Nat
    BY <1>2, <2>1, TextFacts, ByteIsNatural
  <2> QED
    BY <2>2 DEF Uint32
<1> QED
  BY <1>2, <1>3

LEMMA TagsTyped ==
    ASSUME NEW w \in Written, w.format \in {"text", "binary"}
    PROVE  TagOK(BinaryTag(w)) /\ TagOK(TextTag(w))
<1> DEFINE b == Rest(w)
<1>1. b \in Seq(Byte) /\ Len(b) \in Nat /\ Len(b) >= 40
  BY RestTyped
<1>2. NullPaddedString(w.title) \in Seq(Byte) /\ Len(NullPaddedString(w.title)) <= 32
  <2>1. w.title \in Seq(Byte) /\ Len(w.title) \in Nat /\ Len(w.title) <= 32
    BY WrittenTyped, TextFacts
  <2>2. /\ NullPaddedString(w.title) \in Seq(Byte)
        /\ Len(NullPaddedString(w.title)) <= Len(w.title)
    BY <2>1, UpToNullType
  <2>3. Len(NullPaddedString(w.title)) \in Nat
    BY <2>2, TextFacts
  <2> QED
    BY <2>1, <2>2, <2>3
<1> HIDE DEF b
<1>3. ASSUME NEW i \in 1..9, NEW j \in 0..Len(b), i <= j + 1, j < i + 32
      PROVE  /\ SubSeq(b, i, j) \in Seq(Byte)
             /\ NullPaddedString(SubSeq(b, i, j)) \in Seq(Byte)
             /\ Len(NullPaddedString(SubSeq(b, i, j))) <= 32
  <2> DEFINE s == SubSeq(b, i, j)
             t == NullPaddedString(s)
  <2>1. Part(b, i, j, s)
    BY <1>1, <1>3, SubSeqIsPart
  <2> HIDE DEF s
  <2>2. s \in Seq(Byte) /\ Len(s) = j + 1 - i
    BY <2>1 DEF Part
  <2>3. t \in Seq(Byte) /\ Len(t) <= Len(s)
    BY <2>2, UpToNullType
  <2> HIDE DEF t
  <2>4. Len(t) \in Nat
    BY <2>3, TextFacts
  <2>5. Len(t) <= 32
    BY <1>3, <2>2, <2>3, <2>4
  <2> QED
    BY <2>2, <2>3, <2>5 DEF s, t
<1>4. TagOK(BinaryTag(w))
  <2> DEFINE a == BinaryArtist(b)
             play == Uint24(b, 1)
             fade == Uint32(b, 4)
  <2>1. /\ 9 \in 1..9 /\ 40 \in 0..Len(b) /\ 9 <= 40 + 1 /\ 40 < 9 + 32
        /\ 8 \in 1..9 /\ 39 \in 0..Len(b) /\ 8 <= 39 + 1 /\ 39 < 8 + 32
    BY <1>1
  <2>2. play \in Nat /\ fade \in Nat
    <3>1. 1 \in Nat \ {0} /\ 1 + 2 <= Len(b) /\ 4 \in Nat \ {0} /\ 4 + 3 <= Len(b)
      BY <1>1
    <3> QED
      BY <1>1, <3>1, BytesRead
  <2>3. BinaryTag(w) = [title |-> NullPaddedString(w.title),
                        artist |-> NullPaddedString(a),
                        playMs |-> IF play <= MaxBinaryPlaySec THEN 1000 * play ELSE 0,
                        fadeMs |-> IF fade <= MaxBinaryFadeMs THEN fade ELSE 0]
    BY DEF BinaryTag, b
  <2> HIDE DEF play, fade
  <2>4. NullPaddedString(a) \in Seq(Byte) /\ Len(NullPaddedString(a)) <= 32
    <3>1. CASE b[8] <= 32
      BY <1>3, <2>1, <3>1 DEF BinaryArtist
    <3>2. CASE ~(b[8] <= 32)
      BY <1>3, <2>1, <3>2 DEF BinaryArtist
    <3> QED
      BY <3>1, <3>2
  <2> HIDE DEF a
  <2> QED
    BY <1>2, <2>2, <2>3, <2>4 DEF TagOK
<1>5. TagOK(TextTag(w))
  <2>1. /\ 9 \in 1..9 /\ 40 \in 0..Len(b) /\ 9 <= 40 + 1
        /\ 40 < 9 + 32
        /\ 1 \in 1..9 /\ 3 \in 0..Len(b) /\ 1 <= 3 + 1 /\ 3 < 1 + 32
        /\ 4 \in 1..9 /\ 8 \in 0..Len(b) /\ 4 <= 8 + 1 /\ 8 < 4 + 32
    BY <1>1
  <2>2. /\ NullPaddedString(SubSeq(b, 9, 40)) \in Seq(Byte)
        /\ Len(NullPaddedString(SubSeq(b, 9, 40))) <= 32
    BY <1>3, <2>1
  <2>3. SubSeq(b, 1, 3) \in Seq(Byte) /\ SubSeq(b, 4, 8) \in Seq(Byte)
    BY <1>3, <2>1
  <2> DEFINE play == ParseASCIIInt(SubSeq(b, 1, 3))
             fade == ParseASCIIInt(SubSeq(b, 4, 8))
  <2>4. play \in Int /\ fade \in Int
    BY <2>3, NumberRead
  <2>5. TextTag(w) = [title |-> NullPaddedString(w.title),
                      artist |-> NullPaddedString(SubSeq(b, 9, 40)),
                      playMs |-> 1000 * play, fadeMs |-> fade]
    BY DEF TextTag, b
  <2> HIDE DEF play, fade
  <2> QED
    BY <1>2, <2>2, <2>4, <2>5 DEF TagOK
<1> QED
  BY <1>4, <1>5

(* As in Unambiguous and ReadsBack, of a file w and a tag t.               *)
Clear(w) ==
    \/ /\ w.format = "text"
       /\ w.dated \/ w.play > 0 \/ w.fade = 0
    \/ /\ w.format = "binary"
       /\ ~w.dated /\ w.play % 256 \notin 48..57
       /\ w.artist # <<>> =>
             \/ w.artist[1] > 32
             \/ w.artist[1] \in Spaces /\ (Len(w.artist) < 32 \/ w.channels = 0)

AsWritten(w, t) ==
    LET known(n, limit) == IF w.format = "binary" /\ n > limit THEN 0 ELSE n
    IN  /\ t.playMs = 1000 * known(w.play, MaxBinaryPlaySec)
        /\ t.fadeMs = known(w.fade, MaxBinaryFadeMs)
        /\ CleanTag(t.artist) = CleanTag(NullPaddedString(w.artist))

LEMMA ReadsBackIs ==
    (tag # Nil /\ Clear(written) => AsWritten(written, tag)) => ReadsBack
BY DEF ReadsBack, Unambiguous, Clear, AsWritten

(* Read as it was written, a text tag gives what it holds.                 *)
LEMMA TextAsText ==
    ASSUME NEW w \in Written, w.format = "text"
    PROVE  AsWritten(w, TextTag(w))
<1> DEFINE b == Rest(w)
<1>1. PICK x, play, fade : Fields8(w, x, play, fade) /\ Ended(x, w.artist, w.channels, b)
  BY TextRest
<1>2. /\ DecimalText(w.play, Digits(w.play)) /\ Len(Digits(w.play)) <= 3
      /\ DecimalText(w.fade, Digits(w.fade)) /\ Len(Digits(w.fade)) <= 5
      /\ w.play \in Nat /\ w.fade \in Nat /\ w.pad \in {0, 32} /\ w.artist \in Seq(Byte)
  BY TextRest, WrittenTyped
<1>3. /\ x \in Seq(Byte) /\ Len(x) = 8
      /\ Field(Digits(w.play), 3, w.pad, play) /\ Field(Digits(w.fade), 5, w.pad, fade)
      /\ \A i \in 1..3 : x[i] = play[i]
      /\ \A i \in 1..5 : x[i + 3] = fade[i]
  BY <1>1 DEF Fields8
<1>4. play \in Seq(Byte) /\ Len(play) = 3 /\ fade \in Seq(Byte) /\ Len(fade) = 5
  BY <1>3 DEF Field
<1>5. b \in Seq(Byte) /\ Len(b) \in Nat /\ Len(b) >= 40
  BY RestTyped
<1> HIDE DEF b
<1>6. \A i \in 1..8 : b[i] = x[i]
  BY <1>1, <1>3 DEF Ended
<1>7. SubSeq(b, 1, 3) = play
  <2> DEFINE s == SubSeq(b, 1, 3)
  <2>1. Part(b, 1, 3, s)
    <3>1. 1 \in Nat \ {0} /\ 3 \in 0..Len(b) /\ 1 <= 3 + 1
      BY <1>5
    <3> QED
      BY <1>5, <3>1, SubSeqIsPart
  <2>2. Part(b, 1, 3, play)
    <3>1. ASSUME NEW i \in 1..3 PROVE play[i] = b[i + (1 - 1)]
      <4>1. i + (1 - 1) = i /\ i \in 1..8
        OBVIOUS
      <4> QED
        BY <1>3, <1>6, <4>1
    <3> QED
      BY <1>4, <3>1 DEF Part
  <2>3. 1 \in Int /\ 3 \in Int
    OBVIOUS
  <2> HIDE DEF s
  <2>4. s = play
    BY <2>1, <2>2, <2>3, PartIs
  <2> QED
    BY <2>4 DEF s
<1>8. SubSeq(b, 4, 8) = fade
  <2> DEFINE s == SubSeq(b, 4, 8)
  <2>1. Part(b, 4, 8, s)
    <3>1. 4 \in Nat \ {0} /\ 8 \in 0..Len(b) /\ 4 <= 8 + 1
      BY <1>5
    <3> QED
      BY <1>5, <3>1, SubSeqIsPart
  <2>2. Part(b, 4, 8, fade)
    <3>1. ASSUME NEW i \in 1..5 PROVE fade[i] = b[i + (4 - 1)]
      <4>1. i + (4 - 1) = i + 3 /\ i + 3 \in 1..8
        OBVIOUS
      <4> QED
        BY <1>3, <1>6, <4>1
    <3> QED
      BY <1>4, <3>1 DEF Part
  <2>3. 4 \in Int /\ 8 \in Int
    OBVIOUS
  <2> HIDE DEF s
  <2>4. s = fade
    BY <2>1, <2>2, <2>3, PartIs
  <2> QED
    BY <2>4 DEF s
<1>9. ParseASCIIInt(play) = w.play /\ ParseASCIIInt(fade) = w.fade
  <2>1. 3 \in Nat /\ 5 \in Nat
    OBVIOUS
  <2>2. ParseASCIIInt(play) = w.play
    BY <1>2, <1>3, <2>1, FieldReadsBack
  <2>3. ParseASCIIInt(fade) = w.fade
    BY <1>2, <1>3, <2>1, FieldReadsBack
  <2> QED
    BY <2>2, <2>3
<1>10. NullPaddedString(SubSeq(b, 9, 40)) = NullPaddedString(w.artist)
  <2>1. NullPaddedString(SubSeq(b, Len(x) + 1, Len(x) + 32)) = NullPaddedString(w.artist)
    <3>1. /\ x \in Seq(Byte) /\ w.artist \in Seq(Byte) /\ Len(w.artist) <= 32
          /\ Ended(x, w.artist, w.channels, b)
      BY <1>1, <1>2, <1>3, WrittenTyped
    <3> QED
      BY ONLY <3>1, ArtistFound
  <2>2. Len(x) + 1 = 9 /\ Len(x) + 32 = 40
    BY <1>3
  <2> QED
    BY <2>1, <2>2
<1>11. /\ TextTag(w).playMs = 1000 * w.play /\ TextTag(w).fadeMs = w.fade
       /\ TextTag(w).artist = NullPaddedString(w.artist)
  <2>1. TextTag(w).playMs = 1000 * ParseASCIIInt(SubSeq(b, 1, 3))
    BY ONLY DEF TextTag, b
  <2>2. TextTag(w).fadeMs = ParseASCIIInt(SubSeq(b, 4, 8))
    BY ONLY DEF TextTag, b
  <2>3. TextTag(w).artist = NullPaddedString(SubSeq(b, 9, 40))
    BY ONLY DEF TextTag, b
  <2>4. TextTag(w).playMs = 1000 * w.play
    <3>1. ParseASCIIInt(SubSeq(b, 1, 3)) = w.play /\ w.play \in Nat
      BY ONLY <1>2, <1>7, <1>9
    <3> QED
      BY ONLY <2>1, <3>1
  <2>5. TextTag(w).fadeMs = w.fade
    BY ONLY <1>8, <1>9, <2>2
  <2>6. TextTag(w).artist = NullPaddedString(w.artist)
    BY ONLY <1>10, <2>3
  <2> QED
    BY ONLY <2>4, <2>5, <2>6
<1> QED
  BY <1>11 DEF AsWritten

(* A text tag that is read as a binary one has no durations: its blank     *)
(* fields, of spaces or nulls, are not taken for any.                      *)
LEMMA TextAsBinary ==
    ASSUME NEW w \in Written, w.format = "text", Clear(w), ~w.dated, Rest(w)[1] \notin 48..57
    PROVE  AsWritten(w, BinaryTag(w))
<1> DEFINE b == Rest(w)
<1>1. PICK x, play, fade : Fields8(w, x, play, fade) /\ Ended(x, w.artist, w.channels, b)
  BY TextRest
<1>2. /\ DecimalText(w.play, Digits(w.play)) /\ DecimalText(w.fade, Digits(w.fade))
      /\ w.play \in Nat /\ w.fade \in Nat /\ w.pad \in {0, 32} /\ w.artist \in Seq(Byte)
  BY TextRest, WrittenTyped
<1>3. /\ x \in Seq(Byte) /\ Len(x) = 8
      /\ Field(Digits(w.play), 3, w.pad, play) /\ Field(Digits(w.fade), 5, w.pad, fade)
      /\ \A i \in 1..3 : x[i] = play[i]
      /\ \A i \in 1..5 : x[i + 3] = fade[i]
  BY <1>1 DEF Fields8
<1>4. b[1] \notin 48..57
  OBVIOUS
<1> HIDE DEF b
<1>5. \A i \in 1..8 : b[i] = x[i]
  BY <1>1, <1>3 DEF Ended
<1>6. w.play = 0 /\ w.fade = 0
  <2>1. w.play = 0
    <3>1. SUFFICES ASSUME w.play # 0 PROVE FALSE
      OBVIOUS
    <3> DEFINE d == Digits(w.play)
    <3>2. d \in Seq(Byte) /\ d # <<>> /\ \A i \in 1..Len(d) : d[i] \in 48..57
      BY <1>2, <3>1 DEF DecimalText
    <3>3. 1 \in 1..Len(d)
      BY <3>2, TextFacts
    <3>4. \A i \in 1..Len(d) : play[i] = d[i]
      BY <1>3 DEF Field
    <3> HIDE DEF d
    <3>5. b[1] = x[1] /\ x[1] = play[1] /\ play[1] = d[1] /\ d[1] \in 48..57
      <4>1. 1 \in 1..8 /\ 1 \in 1..3
        OBVIOUS
      <4> QED
        BY <1>3, <1>5, <3>2, <3>3, <3>4, <4>1
    <3> QED
      BY <1>4, <3>5
  <2> QED
    BY <2>1 DEF Clear
<1>7. \A i \in 1..8 : b[i] = w.pad
  <2>1. Digits(w.play) = <<>> /\ Digits(w.fade) = <<>>
    BY <1>2, <1>6 DEF DecimalText
  <2>2. Len(Digits(w.play)) = 0 /\ Len(Digits(w.fade)) = 0
    BY <2>1
  <2>3. (\A i \in 1..3 : play[i] = w.pad) /\ (\A i \in 1..5 : fade[i] = w.pad)
    BY <1>3, <2>2, SMTT(30) DEF Field
  <2> TAKE i \in 1..8
  <2>4. CASE i <= 3
    BY <1>3, <1>5, <2>3, <2>4, SMTT(30)
  <2>5. CASE ~(i <= 3)
    <3> DEFINE j == i - 3
    <3>1. j \in 1..5 /\ j + 3 = i
      BY <2>5
    <3> HIDE DEF j
    <3>2. x[j + 3] = fade[j] /\ fade[j] = w.pad
      BY <1>3, <2>3, <3>1
    <3> QED
      BY <1>5, <3>1, <3>2
  <2> QED
    BY <2>4, <2>5
<1> DEFINE p == Uint24(b, 1)
           q == Uint32(b, 4)
           c == w.pad
<1>8. /\ c \in {0, 32} /\ b[1] = c /\ b[1 + 1] = c /\ b[1 + 2] = c /\ b[8] = c
      /\ b[4] = c /\ b[4 + 1] = c /\ b[4 + 2] = c /\ b[4 + 3] = c
  BY <1>2, <1>7
<1> HIDE DEF c
<1>9. p = c + 256 * (c + 256 * c) /\ q = c + 256 * (c + 256 * c) + 256 * 256 * 256 * c
  BY <1>8 DEF Uint24, Uint32
<1> HIDE DEF p, q
<1>10. (IF p <= MaxBinaryPlaySec THEN 1000 * p ELSE 0) = 0
  <2>1. CASE c = 0
    BY <1>9, <2>1
  <2>2. CASE c = 32
    <3>1. p = 32 * (1 + 256 * (1 + 256))
      BY <1>9, <2>2
    <3>2. ~(p <= MaxBinaryPlaySec)
      BY <3>1, NumberAssumption
    <3> QED
      BY <3>2
  <2> QED
    BY <1>8, <2>1, <2>2
<1>11. (IF q <= MaxBinaryFadeMs THEN q ELSE 0) = 0
  <2>1. CASE c = 0
    BY <1>9, <2>1
  <2>2. CASE c = 32
    <3>1. q = 32 * (1 + 256 * (1 + 256 * (1 + 256)))
      BY <1>9, <2>2
    <3>2. ~(q <= MaxBinaryFadeMs)
      BY <3>1, NumberAssumption
    <3> QED
      BY <3>2
  <2> QED
    BY <1>8, <2>1, <2>2
<1>12. NullPaddedString(SubSeq(b, 9, 40)) = NullPaddedString(w.artist)
  <2>1. NullPaddedString(SubSeq(b, Len(x) + 1, Len(x) + 32)) = NullPaddedString(w.artist)
    <3>1. /\ x \in Seq(Byte) /\ w.artist \in Seq(Byte) /\ Len(w.artist) <= 32
          /\ Ended(x, w.artist, w.channels, b)
      BY <1>1, <1>2, <1>3, WrittenTyped
    <3> QED
      BY ONLY <3>1, ArtistFound
  <2>2. Len(x) + 1 = 9 /\ Len(x) + 32 = 40
    BY <1>3
  <2> QED
    BY <2>1, <2>2
<1>13. BinaryArtist(b) = SubSeq(b, 9, 40)
  BY <1>8 DEF BinaryArtist
<1>14. /\ BinaryTag(w).playMs = 0 /\ BinaryTag(w).fadeMs = 0
       /\ BinaryTag(w).artist = NullPaddedString(w.artist)
  BY <1>10, <1>11, <1>12, <1>13 DEF BinaryTag, b, p, q
<1> QED
  BY <1>6, <1>14 DEF AsWritten

(* The numbers that a binary tag holds are read back.                      *)
LEMMA NumbersFound ==
    ASSUME NEW w \in Written, w.format = "binary", NEW x, Durations7(w, x),
           NEW b, \A i \in 1..7 : b[i] = x[i]
    PROVE  Uint24(b, 1) = w.play /\ Uint32(b, 4) = w.fade
<1>1. /\ w.play \in Nat /\ w.fade \in Nat
      /\ w.play \div (256 * 256) < 256 /\ w.fade \div (256 * 256 * 256) < 256
  BY WrittenTyped
<1>2. /\ b[1] = w.play % 256 /\ b[1 + 1] = (w.play \div 256) % 256
      /\ b[1 + 2] = (w.play \div (256 * 256)) % 256
      /\ b[4] = w.fade % 256 /\ b[4 + 1] = (w.fade \div 256) % 256
      /\ b[4 + 2] = (w.fade \div (256 * 256)) % 256
      /\ b[4 + 3] = (w.fade \div (256 * 256 * 256)) % 256
  BY DEF Durations7
<1>3. Uint24(b, 1) = w.play
  <2> DEFINE n == w.play
             p == n \div (256 * 256)
             q == n \div (256 * 256 * 256)
  <2>1. /\ p \in Nat /\ q \in Nat /\ n = (n % 256) + 256 * (((n \div 256) % 256) + 256 * p)
        /\ p = (p % 256) + 256 * q
        /\ n % 256 \in Byte /\ (n \div 256) % 256 \in Byte /\ p % 256 \in Byte
    BY <1>1, BytesOfNumber
  <2>2. p % 256 = p
    <3>1. p \in Nat /\ p < 256
      BY <1>1, <2>1
    <3> HIDE DEF p
    <3> QED
      BY <3>1
  <2>3. Uint24(b, 1) = (n % 256) + 256 * (((n \div 256) % 256) + 256 * (p % 256))
    BY <1>2 DEF Uint24
  <2> QED
    BY <2>1, <2>2, <2>3
<1>4. Uint32(b, 4) = w.fade
  <2> DEFINE n == w.fade
             p == n \div (256 * 256)
             q == n \div (256 * 256 * 256)
  <2>1. /\ p \in Nat /\ q \in Nat /\ n = (n % 256) + 256 * (((n \div 256) % 256) + 256 * p)
        /\ p = (p % 256) + 256 * q
        /\ n % 256 \in Byte /\ (n \div 256) % 256 \in Byte /\ p % 256 \in Byte
    BY <1>1, BytesOfNumber
  <2>2. q % 256 = q
    <3>1. q \in Nat /\ q < 256
      BY <1>1, <2>1
    <3> HIDE DEF q
    <3> QED
      BY <3>1
  <2>3. Uint32(b, 4) = (n % 256) + 256 * (((n \div 256) % 256) + 256 * (p % 256))
                       + 256 * 256 * 256 * (q % 256)
    BY <1>2 DEF Uint24, Uint32
  <2> DEFINE d == n % 256
             e == (n \div 256) % 256
             f == p % 256
  <2> HIDE DEF d, e, f
  <2>4. d \in Nat /\ e \in Nat /\ f \in Nat
    BY <2>1, ByteIsNatural DEF d, e, f
  <2>5. n = d + 256 * (e + 256 * p) /\ p = f + 256 * q
    BY <2>1 DEF d, e, f
  <2>6. Uint32(b, 4) = d + 256 * (e + 256 * f) + 256 * 256 * 256 * q
    BY <2>2, <2>3 DEF d, e, f
  <2> HIDE DEF n, p, q
  <2>7. n = d + 256 * (e + 256 * f) + 256 * 256 * 256 * q
    BY <2>1, <2>4, <2>5
  <2> QED
    BY <2>6, <2>7 DEF n
<1> QED
  BY <1>3, <1>4

(* The artist of a binary tag, whose first byte must not be taken for one  *)
(* of the duration unless it is a space.                                   *)
LEMMA BinaryArtistFound ==
    ASSUME NEW x \in Seq(Byte), Len(x) = 7, NEW a \in Seq(Byte), Len(a) <= 32, NEW c, NEW b,
           Ended(x, a, c, b),
           a # <<>> => a[1] > 32 \/ (a[1] \in Spaces /\ (Len(a) < 32 \/ c = 0))
    PROVE  CleanTag(NullPaddedString(BinaryArtist(b))) = CleanTag(NullPaddedString(a))
<1>1. /\ b \in Seq(Byte) /\ Len(b) = 40
      /\ \A i \in 1..Len(a) : b[i + 7] = a[i]
      /\ \A i \in 1..32 : i > Len(a) => b[i + 7] = 0
      /\ b[40] = c
  <2>1. Len(x) + 33 = 40 /\ 33 + Len(x) = 40
    OBVIOUS
  <2> QED
    BY <2>1 DEF Ended
<1>2. Len(a) \in Nat
  BY TextFacts
<1> DEFINE r == SubSeq(b, 9, 40)
<1>3. /\ r \in Seq(Byte) /\ Len(r) = 32
      /\ \A i \in 1..32 : r[i] = b[i + 8]
  <2>1. 9 \in Nat \ {0} /\ 40 \in 0..Len(b) /\ 9 <= 40 + 1
    BY <1>1
  <2>2. Part(b, 9, 40, r)
    BY <1>1, <2>1, SubSeqIsPart
  <2> HIDE DEF r
  <2>3. /\ r \in Seq(Byte) /\ Len(r) = 40 + 1 - 9
        /\ \A i \in 1..Len(r) : r[i] = b[i + (9 - 1)]
    BY <2>2 DEF Part
  <2>4. Len(r) = 32 /\ \A i \in 1..32 : i + (9 - 1) = i + 8
    BY <2>3
  <2> QED
    BY <2>3, <2>4
<1>4. CASE a = <<>>
  <2>1. Len(a) = 0
    BY <1>4, TextFacts
  <2>2. b[8] = 0 /\ b[9] = 0
    <3>1. 1 \in 1..32 /\ 2 \in 1..32 /\ 1 > 0 /\ 2 > 0 /\ 1 + 7 = 8 /\ 2 + 7 = 9
      OBVIOUS
    <3> QED
      BY <1>1, <2>1, <3>1
  <2>3. BinaryArtist(b) = r
    BY <2>2 DEF BinaryArtist
  <2> HIDE DEF r
  <2>4. r[Len(a) + 1] = 0
    <3>1. 1 \in 1..32 /\ 1 + 8 = 9 /\ Len(a) + 1 = 1
      BY <2>1
    <3> QED
      BY <1>3, <2>2, <3>1
  <2>5. Len(a) < Len(r) /\ \A i \in 1..Len(a) : r[i] = a[i]
    BY <1>3, <2>1
  <2>6. NullPaddedString(r) = NullPaddedString(a)
    BY <1>3, <2>4, <2>5, NullEnds
  <2> QED
    BY <2>3, <2>6
<1>5. CASE a # <<>> /\ a[1] > 32
  <2>1. 1 \in 1..Len(a) /\ 1 + 7 = 8
    BY <1>2, <1>5, TextFacts
  <2>2. b[8] = a[1] /\ a[1] \in Nat
    BY <1>1, <2>1, TextFacts, ByteIsNatural
  <2>3. BinaryArtist(b) = SubSeq(b, 8, 39)
    <3>1. ~(a[1] <= 32)
      BY <1>5, <2>2
    <3> QED
      BY <2>2, <3>1 DEF BinaryArtist
  <2>4. NullPaddedString(SubSeq(b, Len(x) + 1, Len(x) + 32)) = NullPaddedString(a)
    BY ArtistFound
  <2>5. Len(x) + 1 = 8 /\ Len(x) + 32 = 39
    OBVIOUS
  <2> QED
    BY <2>3, <2>4, <2>5
<1>6. CASE a # <<>> /\ a[1] \in Spaces /\ (Len(a) < 32 \/ c = 0)
  <2> DEFINE t == SubSeq(a, 2, Len(a))
  <2>1. 1 \in 1..Len(a) /\ 1 + 7 = 8
    BY <1>2, <1>6, TextFacts
  <2>2. b[8] = a[1]
    BY <1>1, <2>1
  <2>3. BinaryArtist(b) = r
    <3>1. a[1] <= 32
      BY <1>6 DEF Spaces
    <3> QED
      BY <2>2, <3>1 DEF BinaryArtist
  <2>4. Part(a, 2, Len(a), t)
    <3>1. 2 \in Nat \ {0} /\ Len(a) \in 0..Len(a) /\ 2 <= Len(a) + 1
      BY <1>2, <2>1
    <3> QED
      BY <3>1, SubSeqIsPart
  <2> HIDE DEF t, r
  <2>5. /\ t \in Seq(Byte) /\ Len(t) = Len(a) + 1 - 2
        /\ \A i \in 1..Len(t) : t[i] = a[i + (2 - 1)]
    BY <2>4 DEF Part
  <2>6. Len(t) \in Nat /\ Len(a) = Len(t) + 1 /\ Len(t) < 32
    BY <1>2, <2>5, TextFacts
  <2>7. \A i \in 1..Len(t) : r[i] = t[i]
    <3> TAKE i \in 1..Len(t)
    <3>1. i \in 1..32 /\ i + 1 \in 1..Len(a) /\ i + (2 - 1) = i + 1 /\ (i + 1) + 7 = i + 8
      BY <2>6
    <3>2. r[i] = b[i + 8] /\ b[(i + 1) + 7] = a[i + 1] /\ t[i] = a[i + 1]
      BY <1>1, <1>3, <2>5, <3>1
    <3> QED
      BY <3>1, <3>2
  <2>8. r[Len(t) + 1] = 0
    <3> DEFINE n == Len(a)
    <3>1. n \in Nat /\ n <= 32 /\ n >= 1
      BY <1>2, <2>6
    <3>4. n = Len(a) /\ Len(t) + 1 = n
      BY <2>6
    <3> HIDE DEF n
    <3>2. b[n + 8] = 0
      <4>1. CASE n < 32
        <5>1. n + 1 \in 1..32 /\ n + 1 > n /\ (n + 1) + 7 = n + 8
          BY ONLY <3>1, <4>1
        <5>2. \A i \in 1..32 : i > n => b[i + 7] = 0
          BY <1>1, <3>4
        <5> DEFINE m == n + 1
        <5>3. m \in 1..32 /\ m > n /\ m + 7 = n + 8
          BY <5>1
        <5> HIDE DEF m
        <5>4. b[m + 7] = 0
          BY <5>2, <5>3
        <5> QED
          BY <5>3, <5>4
      <4>2. CASE ~(n < 32)
        <5>1. n + 8 = 40
          BY ONLY <3>1, <4>2
        <5> QED
          BY <1>1, <1>6, <3>4, <4>2, <5>1
      <4> QED
        BY <4>1, <4>2
    <3>3. n \in 1..32
      BY ONLY <3>1
    <3> QED
      BY <1>3, <3>2, <3>3, <3>4
  <2>9. NullPaddedString(r) = NullPaddedString(t)
    BY <1>3, <2>5, <2>6, <2>7, <2>8, NullEnds
  <2>10. TrimSpace(NullPaddedString(t)) = TrimSpace(NullPaddedString(a))
    BY <1>6, <2>4, SpaceSkipped
  <2>11. CleanTag(NullPaddedString(r)) = CleanTag(NullPaddedString(a))
    BY <2>9, <2>10 DEF CleanTag
  <2> QED
    BY <2>3, <2>11
<1> QED
  BY <1>4, <1>5, <1>6

LEMMA BinaryAsBinary ==
    ASSUME NEW w \in Written, w.format = "binary", Clear(w)
    PROVE  AsWritten(w, BinaryTag(w))
<1> DEFINE b == Rest(w)
<1>1. PICK x : Durations7(w, x) /\ Ended(x, w.artist, w.channels, b)
  BY BinaryRest
<1>2. x \in Seq(Byte) /\ Len(x) = 7 /\ w.artist \in Seq(Byte) /\ Len(w.artist) <= 32
  <2>1. w.artist \in Seq(Byte) /\ Len(w.artist) <= 32
    BY WrittenTyped
  <2> QED
    BY <1>1, <2>1 DEF Durations7
<1>3. w.artist # <<>> =>
          \/ w.artist[1] > 32
          \/ w.artist[1] \in Spaces /\ (Len(w.artist) < 32 \/ w.channels = 0)
  BY DEF Clear
<1> HIDE DEF b
<1>4. \A i \in 1..7 : b[i] = x[i]
  BY <1>1, <1>2 DEF Ended
<1>5. Uint24(b, 1) = w.play /\ Uint32(b, 4) = w.fade
  BY <1>1, <1>4, NumbersFound
<1>6. CleanTag(NullPaddedString(BinaryArtist(b))) = CleanTag(NullPaddedString(w.artist))
  BY <1>1, <1>2, <1>3, BinaryArtistFound
<1>7. /\ BinaryTag(w).playMs = IF w.play <= MaxBinaryPlaySec THEN 1000 * w.play ELSE 0
      /\ BinaryTag(w).fadeMs = IF w.fade <= MaxBinaryFadeMs THEN w.fade ELSE 0
      /\ BinaryTag(w).artist = NullPaddedString(BinaryArtist(b))
  BY <1>5 DEF BinaryTag, b
<1>8. CleanTag(BinaryTag(w).artist) = CleanTag(NullPaddedString(w.artist))
  BY <1>6, <1>7
<1>9. /\ w.play \in Nat /\ w.fade \in Nat /\ MaxBinaryPlaySec \in Nat /\ MaxBinaryFadeMs \in Nat
  BY WrittenTyped, NumberAssumption
<1> DEFINE p == w.play
           q == w.fade
           t == BinaryTag(w)
<1> HIDE DEF p, q, t
<1>10. /\ t.playMs = 1000 * (IF p > MaxBinaryPlaySec THEN 0 ELSE p)
       /\ t.fadeMs = IF q > MaxBinaryFadeMs THEN 0 ELSE q
  BY <1>7, <1>9 DEF p, q, t
<1> QED
  BY <1>8, <1>10 DEF AsWritten, p, q, t

(* A clear binary tag is not read as a text one.                           *)
LEMMA ClearBinary ==
    ASSUME NEW w \in Written, w.format = "binary", Clear(w)
    PROVE  ~w.dated /\ Rest(w)[1] \notin 48..57
<1>1. PICK x : Durations7(w, x) /\ Ended(x, w.artist, w.channels, Rest(w))
  BY BinaryRest
<1>2. Len(x) = 7 /\ x[1] = w.play % 256
  BY <1>1 DEF Durations7
<1>3. Rest(w)[1] = x[1]
  <2>1. 1 \in 1..Len(x)
    BY <1>2
  <2> QED
    BY <1>1, <2>1 DEF Ended
<1> QED
  BY <1>2, <1>3 DEF Clear

-----------------------------------------------------------------------------
(* The header of the WAV file that Encode makes can be read back by the    *)
(* sizes it declares, as long as the ID3v2 tag stays below 256 MiB, the    *)
(* largest size of four bytes of seven bits.                               *)
Limit == 128 * 128 * 128 * 128

-----------------------------------------------------------------------------
(* Numbers.                                                                *)

(* The pad byte makes a size even, and is the one a reader skips.          *)
LEMMA PaddedEven ==
    ASSUME NEW n \in Nat
    PROVE  Padded(n) \in Nat /\ Padded(n) % 2 = 0 /\ Padded(n) = n + (n % 2)
BY DEF Padded

LEMMA SevenBits ==
    ASSUME NEW n \in Nat
    PROVE  n = 128 * (n \div 128) + (n % 128) /\ n \div 128 \in Nat /\ n % 128 \in 0..127
OBVIOUS

LEMMA DivisionsNest ==
    ASSUME NEW n \in Nat
    PROVE  /\ n \div (128 * 128) = (n \div 128) \div 128
           /\ n \div (128 * 128 * 128) = ((n \div 128) \div 128) \div 128
<1> DEFINE a == n \div 128
           b == a \div 128
           c == b \div 128
<1>1. n = 128 * a + (n % 128) /\ a \in Nat /\ n % 128 \in 0..127  BY SevenBits
<1>2. a = 128 * b + (a % 128) /\ b \in Nat /\ a % 128 \in 0..127  BY <1>1, SevenBits
<1>3. b = 128 * c + (b % 128) /\ c \in Nat /\ b % 128 \in 0..127  BY <1>2, SevenBits
<1> HIDE DEF a, b, c
<1>4. n \div (128 * 128) = b
  BY <1>1, <1>2, SMT
<1>5. n \div (128 * 128 * 128) = c
  BY <1>1, <1>2, <1>3, SMT
<1> QED  BY <1>4, <1>5 DEF a, b, c

(* Four bytes of seven bits hold every number below the limit.             *)
THEOREM SyncsafeReadsBack ==
    ASSUME NEW n \in Nat, n < Limit
    PROVE  Unsync(Syncsafe(n)) = n
<1> DEFINE a == n \div 128
           b == n \div (128 * 128)
           c == n \div (128 * 128 * 128)
<1>1. n = 128 * a + (n % 128) /\ a \in Nat  BY SevenBits
<1>2. a = 128 * b + (a % 128) /\ b \in Nat  BY <1>1, SevenBits, DivisionsNest
<1>3. b = 128 * c + (b % 128) /\ c \in Nat  BY <1>2, SevenBits, DivisionsNest
<1>4. c < 128 /\ c % 128 = c  BY <1>1, <1>2, <1>3 DEF Limit
<1>5. Syncsafe(n) = <<c % 128, b % 128, a % 128, n % 128>>  BY DEF Syncsafe
<1>6. Unsync(Syncsafe(n)) = ((c * 128 + (b % 128)) * 128 + (a % 128)) * 128 + (n % 128)
  BY <1>4, <1>5 DEF Unsync
<1> HIDE DEF a, b, c
<1> QED  BY <1>1, <1>2, <1>3, <1>6

-----------------------------------------------------------------------------
(* Lengths.                                                                *)

LEMMA TextFrameLength ==
    ASSUME NEW len \in Nat
    PROVE  TextFrame(len) \in Nat /\ (len # 0 => 1 + len <= TextFrame(len))
BY DEF TextFrame

LEMMA SumOfFive ==
    ASSUME NEW a \in Nat, NEW b \in Nat, NEW c \in Nat, NEW d \in Nat, NEW e \in Nat
    PROVE  LET sum == a + b + c + d + e
           IN  sum \in Nat /\ \A x \in {a, b, c, d, e} : x <= sum
OBVIOUS

LEMMA FramesLength ==
    ASSUME NEW meta \in Tags
    PROVE  /\ FramesLen(meta) \in Nat
           /\ \A len \in {meta.title, meta.artist, meta.album, meta.albumArtist, meta.track} \ {0} :
                  len \in Nat /\ 1 + len <= FramesLen(meta)
<1> DEFINE lens == {meta.title, meta.artist, meta.album, meta.albumArtist, meta.track}
<1>1. \A len \in lens : len \in Nat  BY DEF Tags
<1>2. \A len \in lens : TextFrame(len) \in Nat  BY <1>1, TextFrameLength
<1>3. FramesLen(meta) \in Nat /\ \A len \in lens : TextFrame(len) <= FramesLen(meta)
  BY <1>2, SumOfFive DEF FramesLen
<1> HIDE DEF lens
<1>4. ASSUME NEW len \in lens \ {0}
      PROVE  len \in Nat /\ 1 + len <= FramesLen(meta)
  BY <1>1, <1>2, <1>3, TextFrameLength
<1> QED  BY <1>3, <1>4 DEF lens

LEMMA InfoSubchunkEven ==
    ASSUME NEW len \in Nat
    PROVE  InfoSubchunk(len) \in Nat /\ InfoSubchunk(len) % 2 = 0
BY PaddedEven DEF InfoSubchunk

LEMMA InfoEven ==
    ASSUME NEW meta \in Tags
    PROVE  InfoLen(meta) \in Nat /\ InfoLen(meta) % 2 = 0
<1>1. meta.title \in Nat /\ meta.artist \in Nat /\ meta.album \in Nat  BY DEF Tags
<1>2. /\ InfoSubchunk(meta.title) \in Nat /\ InfoSubchunk(meta.title) % 2 = 0
      /\ InfoSubchunk(meta.artist) \in Nat /\ InfoSubchunk(meta.artist) % 2 = 0
      /\ InfoSubchunk(meta.album) \in Nat /\ InfoSubchunk(meta.album) % 2 = 0
  BY <1>1, InfoSubchunkEven
<1>3. InfoLen(meta) = InfoSubchunk(meta.title) + InfoSubchunk(meta.artist) + InfoSubchunk(meta.album)
  BY DEF InfoLen
<1> QED  BY <1>2, <1>3

(* Samples of 16 bits take an even number of bytes.                        *)
LEMMA PcmEven ==
    ASSUME NEW ms \in Nat, NEW rate \in Nat, NEW channels \in Nat
    PROVE  PcmBytes(ms, rate, channels) \in Nat /\ PcmBytes(ms, rate, channels) % 2 = 0
<1>1. ms * rate \in Nat  OBVIOUS
<1>2. (ms * rate) \div 1000 \in Nat  BY <1>1
<1>3. ((ms * rate) \div 1000) * channels \in Nat  BY <1>2
<1>4. \A k \in Nat : k * 2 \in Nat /\ (k * 2) % 2 = 0  OBVIOUS
<1>5. PcmBytes(ms, rate, channels) = (((ms * rate) \div 1000) * channels) * 2  BY DEF PcmBytes
<1> QED  BY <1>3, <1>4, <1>5

-----------------------------------------------------------------------------
(* Places.                                                                 *)

LEMMA ThreeFollow ==
    ASSUME NEW h, NEW a, NEW b, NEW c, NEW fileSize, h.chunks = <<a, b, c>>,
           a.at = 12, b.at = After(a.at, a.size), c.at = After(b.at, b.size),
           After(c.at, c.size) = fileSize,
           h.samplesAt = c.at + 8, h.riffSize = fileSize - 8
    PROVE  ChunksFollow(h, fileSize)
<1>1. Len(h.chunks) = 3 /\ h.chunks[1] = a /\ h.chunks[2] = b /\ h.chunks[3] = c
  OBVIOUS
<1>2. \A i \in 1..(3 - 1) : i = 1 \/ i = 2  OBVIOUS
<1>3. \A i \in 1..(3 - 1) : h.chunks[i + 1].at = After(h.chunks[i].at, h.chunks[i].size)
  BY <1>1, <1>2
<1> QED  BY <1>1, <1>3 DEF ChunksFollow

LEMMA FourFollow ==
    ASSUME NEW h, NEW a, NEW b, NEW c, NEW d, NEW fileSize, h.chunks = <<a, b, c, d>>,
           a.at = 12, b.at = After(a.at, a.size), c.at = After(b.at, b.size),
           d.at = After(c.at, c.size), After(d.at, d.size) = fileSize,
           h.samplesAt = d.at + 8, h.riffSize = fileSize - 8
    PROVE  ChunksFollow(h, fileSize)
<1>1. /\ Len(h.chunks) = 4 /\ h.chunks[1] = a /\ h.chunks[2] = b
      /\ h.chunks[3] = c /\ h.chunks[4] = d
  OBVIOUS
<1>2. \A i \in 1..(4 - 1) : i = 1 \/ i = 2 \/ i = 3  OBVIOUS
<1>3. \A i \in 1..(4 - 1) : h.chunks[i + 1].at = After(h.chunks[i].at, h.chunks[i].size)
  BY <1>1, <1>2
<1> QED  BY <1>1, <1>3 DEF ChunksFollow

(* Every chunk is where a reader of the sizes before it looks for it, and  *)
(* the sizes add up to the file's, however long the texts are and whether  *)
(* or not there is a LIST chunk.                                           *)
THEOREM ChunksLineUp ==
    ASSUME NEW meta \in Tags, NEW bytes \in Nat, bytes % 2 = 0
    PROVE  ChunksFollow(Header(meta, bytes), Header(meta, bytes).samplesAt + bytes)
<1> DEFINE listAt == 44 + Padded(ID3v2Len(meta))
           dataAt == listAt + ListInfo(meta)
           fmt  == Chunk("fmt ", 12, 16)
           id3  == Chunk("id3 ", 36, ID3v2Len(meta))
           list == Chunk("LIST", listAt, 4 + InfoLen(meta))
           data == Chunk("data", dataAt, bytes)
           h == Header(meta, bytes)
<1>1. ID3v2Len(meta) \in Nat /\ InfoLen(meta) \in Nat /\ InfoLen(meta) % 2 = 0
  BY FramesLength, InfoEven DEF ID3v2Len
<1>2. /\ listAt \in Nat /\ dataAt \in Nat
      /\ ListInfo(meta) = IF InfoLen(meta) = 0 THEN 0 ELSE 12 + InfoLen(meta)
  BY <1>1, PaddedEven DEF ListInfo
<1>3. After(12, 16) = 36 /\ After(36, ID3v2Len(meta)) = listAt  BY <1>1, PaddedEven DEF After
<1>4. After(dataAt, bytes) = dataAt + 8 + bytes  BY <1>2 DEF After
<1>5. /\ h.chunks = IF ListInfo(meta) = 0 THEN <<fmt, id3, data>> ELSE <<fmt, id3, list, data>>
      /\ h.samplesAt = data.at + 8 /\ h.riffSize = data.at + bytes
  BY DEF Header
<1>6. /\ fmt.at = 12 /\ fmt.size = 16 /\ id3.at = 36 /\ id3.size = ID3v2Len(meta)
      /\ list.at = listAt /\ list.size = 4 + InfoLen(meta)
      /\ data.at = dataAt /\ data.size = bytes
  BY DEF Chunk
<1> HIDE DEF listAt, dataAt, fmt, id3, list, data, h
<1>7. h.samplesAt + bytes = After(dataAt, bytes) /\ h.riffSize = (h.samplesAt + bytes) - 8
  BY <1>2, <1>4, <1>5, <1>6
<1>8. ChunksFollow(h, h.samplesAt + bytes)
  <2>1. CASE ListInfo(meta) = 0
    <3>1. h.chunks = <<fmt, id3, data>>  BY <1>5, <2>1
    <3>2. dataAt = listAt  BY <1>2, <2>1 DEF dataAt
    <3> QED  BY <1>3, <1>5, <1>6, <1>7, <3>1, <3>2, ThreeFollow
  <2>2. CASE ListInfo(meta) # 0
    <3>1. h.chunks = <<fmt, id3, list, data>>  BY <1>5, <2>2
    <3>2. After(listAt, 4 + InfoLen(meta)) = dataAt  BY <1>1, <1>2, <2>2 DEF After, dataAt
    <3> QED  BY <1>3, <1>5, <1>6, <1>7, <3>1, <3>2, FourFollow
  <2> QED  BY <2>1, <2>2
<1> QED  BY <1>8 DEF h

(* The LIST chunk and the ID3v2 meta are read back in the same way.         *)
THEOREM TextsLineUp ==
    ASSUME NEW meta \in Tags, FramesLen(meta) < Limit
    PROVE  SubchunksFollow(meta) /\ FramesFollow(meta)
<1>1. ASSUME NEW len \in {meta.title, meta.artist, meta.album} \ {0}
      PROVE  After(0, len + 1) = InfoSubchunk(len)
  <2>1. len \in Nat \ {0}  BY DEF Tags
  <2> QED  BY <2>1, PaddedEven DEF After, InfoSubchunk
<1>2. ASSUME NEW len \in {meta.title, meta.artist, meta.album, meta.albumArtist, meta.track} \ {0}
      PROVE  10 + Unsync(Syncsafe(1 + len)) = TextFrame(len)
  <2>1. len \in Nat \ {0} /\ 1 + len \in Nat /\ 1 + len < Limit
    BY FramesLength DEF Limit
  <2>2. Unsync(Syncsafe(1 + len)) = 1 + len  BY <2>1, SyncsafeReadsBack
  <2> QED  BY <2>1, <2>2 DEF TextFrame
<1>3. 10 + Unsync(Syncsafe(FramesLen(meta))) = ID3v2Len(meta)
  BY FramesLength, SyncsafeReadsBack DEF ID3v2Len
<1> QED  BY <1>1, <1>2, <1>3 DEF SubchunksFollow, FramesFollow

-----------------------------------------------------------------------------
(* A file of any duration, sample rate and number of channels is read back *)
(* from the sizes it declares, and is as long as EstimatedSize says.       *)
THEOREM EncodedFileReadable ==
    ASSUME NEW meta \in Tags, NEW ms \in Nat, NEW rate \in Nat, NEW channels \in Nat
    PROVE  LET bytes == PcmBytes(ms, rate, channels)
               h     == Header(meta, bytes)
           IN  ChunksFollow(h, h.samplesAt + bytes)
BY PcmEven, ChunksLineUp

-----------------------------------------------------------------------------
(* The entry that is built of a tag.                                       *)

(* f replaces bytes of s by others.                                        *)
LEMMA ReplacedType ==
    ASSUME NEW s \in Seq(Byte), NEW f, f \in [DOMAIN s -> Byte]
    PROVE  f \in Seq(Byte) /\ Len(f) = Len(s)
<1>1. Len(s) \in Nat /\ DOMAIN s = 1..Len(s)
  BY TextFacts
<1>2. f \in [1..Len(s) -> Byte]
  BY <1>1
<1>3. f \in Seq(Byte)
  BY <1>1, <1>2, SeqDef
<1>4. Len(f) = Len(s)
  BY <1>1, <1>2, <1>3, TextFacts
<1> QED
  BY <1>3, <1>4

LEMMA CleanTagType ==
    ASSUME NEW s \in Seq(Byte)
    PROVE  /\ CleanTag(s) \in Seq(Byte) /\ Len(CleanTag(s)) <= Len(s)
           /\ CleanTag(s) # <<>> => CleanTag(s)[1] \notin Spaces
<1> DEFINE t == TrimSpace(s)
<1>1. t \in Seq(Byte) /\ Len(t) <= Len(s) /\ (t # <<>> => t[1] \notin Spaces)
  BY TrimTrims DEF Trimmed
<1>2. CleanTag(s) = <<>> \/ CleanTag(s) = t
  BY DEF CleanTag
<1> HIDE DEF t
<1>3. <<>> \in Seq(Byte) /\ Len(<<>>) = 0 /\ 0 <= Len(s)
  BY TextFacts, EmptySeq
<1> QED
  BY <1>1, <1>2, <1>3

(* A title that begins with a character that is not a space has a legal    *)
(* file name, of printable characters.                                     *)
Legal(name) ==
    /\ name \notin {<<>>, <<46>>, <<46, 46>>}
    /\ Range(name) \cap ({47, 58, 127} \cup 0..31) = {}
    /\ name[1] # 32 /\ name[Len(name)] # 32

LEMMA SanitizedLegal ==
    ASSUME NEW s \in Seq(Byte), s # <<>>, s[1] \notin Spaces
    PROVE  Legal(SanitizeFilename(s))
<1> DEFINE bad == {47, 58, 127} \cup 0..31
           f == [i \in DOMAIN s |-> IF s[i] \in bad THEN 95 ELSE s[i]]
           t == TrimSpace(f)
<1>1. Len(s) \in Nat /\ DOMAIN s = 1..Len(s) /\ 1 \in 1..Len(s) /\ \A i \in 1..Len(s) : s[i] \in Byte
  BY TextFacts
<1>2. 95 \in Byte /\ 95 \notin bad /\ 95 \notin Spaces /\ 32 \in Spaces
  BY DEF Byte, Spaces
<1>3. f \in [DOMAIN s -> Byte]
  <2> HIDE DEF bad
  <2> QED
    BY <1>1, <1>2
<1>4. \A i \in 1..Len(s) : f[i] = IF s[i] \in bad THEN 95 ELSE s[i]
  BY <1>1
<1>5. SanitizeFilename(s) = IF t \in {<<46>>, <<46, 46>>} THEN <<95>> ELSE t
  BY DEF SanitizeFilename
<1> HIDE DEF f, bad
<1>6. f \in Seq(Byte) /\ Len(f) = Len(s)
  BY <1>3, ReplacedType
<1>7. Trimmed(f, t)
  BY <1>6, TrimTrims
<1> HIDE DEF t
<1>8. /\ t \in Seq(Byte)
      /\ t = <<>> <=> \A i \in 1..Len(f) : f[i] \in Spaces
      /\ t # <<>> => t[1] \notin Spaces /\ t[Len(t)] \notin Spaces
      /\ \A i \in 1..Len(t) : \E j \in 1..Len(f) : t[i] = f[j]
  BY <1>7 DEF Trimmed
<1>9. t # <<>>
  <2>1. f[1] \notin Spaces
    BY <1>1, <1>2, <1>4
  <2> QED
    BY <1>1, <1>6, <1>8, <2>1
<1>10. \A i \in 1..Len(t) : t[i] \notin bad
  <2> TAKE i \in 1..Len(t)
  <2>1. PICK j \in 1..Len(s) : t[i] = f[j]
    BY <1>6, <1>8
  <2>2. f[j] \notin bad
    BY <1>2, <1>4
  <2> QED
    BY <2>1, <2>2
<1>11. Range(t) \cap bad = {}
  BY <1>8, <1>10, TextFacts DEF Range
<1>12. t[1] # 32 /\ t[Len(t)] # 32
  BY <1>2, <1>8, <1>9
<1>13. CASE t \in {<<46>>, <<46, 46>>}
  <2> DEFINE u == <<95>>
  <2>1. u # <<>> /\ u # <<46>> /\ u # <<46, 46>> /\ Len(u) = 1 /\ u[1] = 95 /\ DOMAIN u = {1}
    OBVIOUS
  <2>2. Range(u) = {95}
    BY <2>1 DEF Range
  <2>3. SanitizeFilename(s) = u
    BY <1>5, <1>13
  <2> HIDE DEF u
  <2>4. Legal(u)
    BY <1>2, <2>1, <2>2 DEF Legal, bad
  <2> QED
    BY <2>3, <2>4
<1>14. CASE t \notin {<<46>>, <<46, 46>>}
  <2>1. SanitizeFilename(s) = t
    BY <1>5, <1>14
  <2>2. Legal(t)
    BY <1>9, <1>11, <1>12, <1>14 DEF Legal, bad
  <2> QED
    BY <2>1, <2>2
<1> QED
  BY <1>13, <1>14

(* What of an entry the rest relies on.                                    *)
EntryOK(e) ==
    /\ Legal(e.filename)
    /\ e.title \in Seq(Byte) /\ Len(e.title) <= 32
    /\ e.artist \in Seq(Byte) /\ Len(e.artist) <= 32
    /\ e.album \in Seq(Byte) /\ Len(e.album) <= 255
    /\ e.albumArtist \in Seq(Byte) /\ Len(e.albumArtist) <= 32
    /\ e.playMs \in Nat /\ e.fadeMs \in Nat

LEMMA ClampMsType ==
    ASSUME NEW ms \in Int, NEW default \in Nat, NEW max \in Nat
    PROVE  ClampMs(ms, default, max) \in Nat
BY DEF ClampMs

LEMMA TitleOfTag ==
    ASSUME TagOK(tag)
    PROVE  /\ Title \in Seq(Byte) /\ Len(Title) <= 32
           /\ Title # <<>> /\ Title[1] \notin Spaces
<1> DEFINE c == CleanTag(tag.title)
<1>1. tag.title \in Seq(Byte) /\ Len(tag.title) \in Nat /\ Len(tag.title) <= 32
  BY TextFacts DEF TagOK
<1>2. c \in Seq(Byte) /\ Len(c) <= Len(tag.title) /\ (c # <<>> => c[1] \notin Spaces)
  BY <1>1, CleanTagType
<1>3. Title = IF c = <<>> THEN Track1 ELSE c
  BY DEF Title
<1> HIDE DEF c
<1>4. CASE c = <<>>
  <2>1. Track1 \in Seq(Byte) /\ Len(Track1) = 7 /\ Track1[1] = 84 /\ Track1 # <<>>
    <3>1. /\ 84 \in Byte /\ 114 \in Byte /\ 97 \in Byte /\ 99 \in Byte
          /\ 107 \in Byte /\ 32 \in Byte /\ 49 \in Byte
      BY DEF Byte
    <3> QED
      BY <3>1 DEF Track1
  <2>2. 84 \notin Spaces
    BY DEF Spaces
  <2>3. Title = Track1
    BY <1>3, <1>4
  <2>4. Len(Track1) <= 32 /\ Track1[1] \notin Spaces
    BY <2>1, <2>2
  <2> HIDE DEF Track1
  <2> QED
    BY <2>1, <2>3, <2>4
<1>5. CASE c # <<>>
  <2>1. Len(c) \in Nat
    BY <1>2, TextFacts
  <2>2. Len(c) <= 32
    BY <1>1, <1>2, <2>1
  <2> QED
    BY <1>2, <1>3, <1>5, <2>2
<1> QED
  BY <1>4, <1>5

LEMMA EntryBuilt ==
    ASSUME TagOK(tag), Build
    PROVE  EntryOK(entry')
<1>1. PICK albumArtist \in AlbumArtists :
          entry' = [filename |-> SanitizeFilename(Title),
                    title |-> Title, artist |-> CleanTag(tag.artist), album |-> CleanTag(Album),
                    albumArtist |-> albumArtist,
                    playMs |-> ClampMs(tag.playMs, DefaultPlayMs, MaxPlayMs),
                    fadeMs |-> ClampMs(tag.fadeMs, DefaultFadeMs, MaxFadeMs)]
  BY DEF Build
<1>2. /\ Title \in Seq(Byte) /\ Len(Title) <= 32
      /\ Title # <<>> /\ Title[1] \notin Spaces
  BY TitleOfTag
<1>3. Legal(SanitizeFilename(Title))
  BY <1>2, SanitizedLegal
<1>4. CleanTag(tag.artist) \in Seq(Byte) /\ Len(CleanTag(tag.artist)) <= 32
  <2>1. tag.artist \in Seq(Byte) /\ Len(tag.artist) \in Nat /\ Len(tag.artist) <= 32
    BY TextFacts DEF TagOK
  <2>2. CleanTag(tag.artist) \in Seq(Byte) /\ Len(CleanTag(tag.artist)) <= Len(tag.artist)
    BY <2>1, CleanTagType
  <2>3. Len(CleanTag(tag.artist)) \in Nat
    BY <2>2, TextFacts
  <2> QED
    BY <2>1, <2>2, <2>3
<1>5. CleanTag(Album) \in Seq(Byte) /\ Len(CleanTag(Album)) <= 255
  <2>1. Album \in Seq(Byte) /\ Len(Album) \in Nat /\ Len(Album) <= 255
    BY TextAssumption, TextIsBytes, TextFacts
  <2>2. CleanTag(Album) \in Seq(Byte) /\ Len(CleanTag(Album)) <= Len(Album)
    BY <2>1, CleanTagType
  <2>3. Len(CleanTag(Album)) \in Nat
    BY <2>2, TextFacts
  <2> QED
    BY <2>1, <2>2, <2>3
<1>6. albumArtist \in Seq(Byte) /\ Len(albumArtist) <= 32
  BY TextAssumption, TextIsBytes
<1>7. /\ ClampMs(tag.playMs, DefaultPlayMs, MaxPlayMs) \in Nat
      /\ ClampMs(tag.fadeMs, DefaultFadeMs, MaxFadeMs) \in Nat
  <2>1. tag.playMs \in Int /\ tag.fadeMs \in Int
    BY DEF TagOK
  <2>2. DefaultPlayMs \in Nat /\ MaxPlayMs \in Nat /\ DefaultFadeMs \in Nat /\ MaxFadeMs \in Nat
    BY NumberAssumption
  <2> QED
    BY <2>1, <2>2, ClampMsType
<1> QED
  BY <1>1, <1>2, <1>3, <1>4, <1>5, <1>6, <1>7 DEF EntryOK

(* The header that is made for such an entry can be read.                  *)
LEMMA EntryReadable ==
    ASSUME EntryOK(entry)
    PROVE  /\ ChunksFollow(Header(Metadata, DataBytes), Header(Metadata, DataBytes).samplesAt + DataBytes)
           /\ SubchunksFollow(Metadata) /\ FramesFollow(Metadata)
<1>1. /\ Len(entry.title) \in Nat /\ Len(entry.title) <= 32
      /\ Len(entry.artist) \in Nat /\ Len(entry.artist) <= 32
      /\ Len(entry.album) \in Nat /\ Len(entry.album) <= 255
      /\ Len(entry.albumArtist) \in Nat /\ Len(entry.albumArtist) <= 32
      /\ entry.playMs \in Nat /\ entry.fadeMs \in Nat
  BY TextFacts DEF EntryOK
<1>2. Metadata \in Tags
  BY <1>1 DEF Metadata, Tags
<1>3. FramesLen(Metadata) < Limit
  <2> DEFINE a == Len(entry.title)
             b == Len(entry.artist)
             c == Len(entry.album)
             d == Len(entry.albumArtist)
  <2>1. FramesLen(Metadata) = TextFrame(a) + TextFrame(b) + TextFrame(c) + TextFrame(d) + TextFrame(1)
    BY DEF FramesLen, Metadata
  <2>2. a \in Nat /\ a <= 32 /\ b \in Nat /\ b <= 32 /\ c \in Nat /\ c <= 255 /\ d \in Nat /\ d <= 32
    BY <1>1
  <2> HIDE DEF a, b, c, d
  <2>3. /\ TextFrame(a) \in Nat /\ TextFrame(a) <= 43 /\ TextFrame(b) \in Nat /\ TextFrame(b) <= 43
        /\ TextFrame(c) \in Nat /\ TextFrame(c) <= 266 /\ TextFrame(d) \in Nat /\ TextFrame(d) <= 43
        /\ TextFrame(1) = 12
    BY <2>2 DEF TextFrame
  <2> QED
    BY <2>1, <2>3 DEF Limit
<1>4. DataBytes \in Nat /\ DataBytes % 2 = 0
  <2>1. entry.playMs + entry.fadeMs \in Nat /\ SampleRate \in Nat /\ Channels \in Nat
    BY <1>1, NumberAssumption, SMTT(30)
  <2> QED
    BY <2>1, PcmEven DEF DataBytes
<1>5. ChunksFollow(Header(Metadata, DataBytes), Header(Metadata, DataBytes).samplesAt + DataBytes)
  BY <1>2, <1>4, ChunksLineUp
<1> QED
  BY <1>2, <1>3, <1>5, TextsLineUp

-----------------------------------------------------------------------------
(* The inductive invariant: the tag is read back and is typed, and from it *)
(* the entry, and from the entry the header.                               *)

IInv ==
    /\ written \in Written
    /\ pc = "parse" => tag = Nil
    /\ pc = "build" \/ tag # Nil => TagOK(tag)
    /\ tag # Nil /\ Clear(written) => AsWritten(written, tag)
    /\ pc = "header" \/ entry # Nil => EntryOK(entry)
    /\ wav # Nil => pc = "done" /\ EntryOK(entry) /\ wav = Header(Metadata, DataBytes)

LEMMA InitIInv == Init => IInv
BY DEF Init, IInv

LEMMA ParseIInv ==
    ASSUME IInv, ParseBinary \/ ParseText
    PROVE  /\ TagOK(tag') /\ (Clear(written) => AsWritten(written, tag'))
           /\ pc = "parse" /\ pc' = "build" /\ UNCHANGED <<written, entry, wav>>
<1>1. /\ written \in Written /\ written.format \in {"text", "binary"}
      /\ pc = "parse" /\ pc' = "build" /\ UNCHANGED <<written, entry, wav>>
  BY DEF IInv, ParseBinary, ParseText, HasTag, Tagged, Goto
<1>2. TagOK(BinaryTag(written)) /\ TagOK(TextTag(written))
  BY <1>1, TagsTyped
<1>3. CASE ParseBinary
  <2>1. tag' = BinaryTag(written) /\ ~written.dated /\ Rest(written)[1] \notin 48..57
    BY <1>3 DEF ParseBinary, Tagged, BinaryTag, IsBinaryFormat
  <2>2. Clear(written) => AsWritten(written, BinaryTag(written))
    BY <1>1, <2>1, TextAsBinary, BinaryAsBinary
  <2> QED
    BY <1>1, <1>2, <2>1, <2>2
<1>4. CASE ParseText
  <2>1. tag' = TextTag(written) /\ ~(~written.dated /\ Rest(written)[1] \notin 48..57)
    BY <1>4 DEF ParseText, Tagged, TextTag, IsBinaryFormat
  <2>2. Clear(written) => AsWritten(written, TextTag(written))
    BY <1>1, <2>1, TextAsText, ClearBinary
  <2> QED
    BY <1>1, <1>2, <2>1, <2>2
<1> QED
  BY <1>3, <1>4

LEMMA NextIInv == IInv /\ [Next]_vars => IInv'
<1> SUFFICES ASSUME IInv, [Next]_vars PROVE IInv'
  OBVIOUS
<1>1. CASE Reject
  BY <1>1 DEF Reject, Goto, IInv, Metadata, DataBytes
<1>2. CASE NoID666
  <2>1. TagOK(tag')
    <3>1. <<>> \in Seq(Byte) /\ Len(<<>>) = 0
      BY EmptySeq
    <3> QED
      BY <1>2, <3>1 DEF NoID666, TagOK
  <2>2. ~Clear(written)
    BY <1>2 DEF NoID666, Clear
  <2> QED
    BY <1>2, <2>1, <2>2 DEF NoID666, Goto, IInv, Metadata, DataBytes
<1>3. CASE ParseBinary \/ ParseText
  <2>1. /\ TagOK(tag') /\ (Clear(written) => AsWritten(written, tag'))
        /\ pc = "parse" /\ pc' = "build" /\ UNCHANGED <<written, entry, wav>>
    BY <1>3, ParseIInv
  <2> QED
    BY <2>1 DEF IInv, Metadata, DataBytes
<1>4. CASE Build
  <2>1. TagOK(tag)
    BY <1>4 DEF Build, IInv
  <2>2. EntryOK(entry')
    BY <1>4, <2>1, EntryBuilt
  <2> QED
    BY <1>4, <2>1, <2>2 DEF Build, Goto, IInv
<1>5. CASE NewTrackFile
  BY <1>5 DEF NewTrackFile, Goto, IInv, Metadata, DataBytes
<1>6. CASE UNCHANGED vars
  BY <1>6 DEF vars, IInv, Metadata, DataBytes
<1> QED
  BY <1>1, <1>2, <1>3, <1>4, <1>5, <1>6 DEF Next

(* Every reachable state satisfies the inductive invariant: what is read   *)
(* of a tag is typed and bounded, and so is what is made of it (spc.go,    *)
(* Parse; vfs.go, buildTrackList and newTrackFile).                        *)
THEOREM IInvInvariant == Spec => []IInv
BY InitIInv, NextIInv, PTL DEF Spec

(* A tag that its encoding makes clear is read back as it was written, of  *)
(* whatever numbers that fit, texts and padding (spc.go, Parse).           *)
THEOREM TagsReadBack == Spec => []ReadsBack
<1>1. IInv => ReadsBack
  BY ReadsBackIs DEF IInv
<1> QED
  BY <1>1, IInvInvariant, PTL

(* Whatever ASCII title there is, the track's file name is legal (vfs.go,  *)
(* sanitizeFilename).                                                      *)
THEOREM NamesLegal == Spec => []NameLegal
<1>1. IInv => NameLegal
  BY DEF IInv, EntryOK, Legal, NameLegal
<1> QED
  BY <1>1, IInvInvariant, PTL

(* Of whatever texts and durations, the file's header is read back from    *)
(* the sizes it declares (muxer.go, header).                               *)
THEOREM HeadersReadable == Spec => []WavReadable
<1>1. IInv => WavReadable
  BY EntryReadable DEF IInv, WavReadable
<1> QED
  BY <1>1, IInvInvariant, PTL

=============================================================================
