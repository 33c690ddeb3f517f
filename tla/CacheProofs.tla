---------------------------- MODULE CacheProofs ----------------------------
(***************************************************************************)
(* The cache's safety, and that it is an LRU store, for every set of keys, *)
(* data and callers, every size function and every capacity.               *)
(*                                                                         *)
(* Both of the list's updates, taking an element out and pushing one to    *)
(* the front, are characterised by position (IsRemoval, IsPush); that the  *)
(* map agrees with the list, and that a number is the total of the list,   *)
(* are each shown to survive one removal and one push.  Every action is a  *)
(* composition of those two.                                               *)
(*                                                                         *)
(* For the refinement the keys up to a key, which the abstract recency is  *)
(* computed from, are followed through the same two updates.  Between      *)
(* calls everything listed is kept; while a Set evicts, its last entry     *)
(* never is, because the byte counter is the sum of what is listed.        *)
(***************************************************************************)
EXTENDS CacheRefinement, SequenceTheorems, FoldFacts

(* r is s without its i-th element.                                        *)
IsRemoval(s, i, r) ==
    /\ r \in Seq(Entry)
    /\ Len(r) = Len(s) - 1
    /\ \A j \in 1..Len(r) : r[j] = IF j < i THEN s[j] ELSE s[j + 1]

(* r is s with e before its first element.                                 *)
IsPush(s, e, r) ==
    /\ r \in Seq(Entry)
    /\ Len(r) = Len(s) + 1
    /\ r[1] = e
    /\ \A j \in 1..Len(s) : r[j + 1] = s[j]

(* The elements of a list of entries.                                      *)
LEMMA EntriesOfList ==
    ASSUME NEW s \in Seq(Entry)
    PROVE  \A j \in DOMAIN s : /\ s[j] \in Entry
                               /\ s[j].k \in Keys
                               /\ s[j].data \in Data
                               /\ Size[s[j].data] \in Nat
<1>1. \A j \in DOMAIN s : s[j] \in Entry
  BY LenProperties
<1> QED
  BY <1>1, SizeAssumption DEF Entry

(* RemoveAt(s, i) drops the i-th element and keeps the order of the rest.  *)
LEMMA RemoveAtIsRemoval ==
    ASSUME NEW s \in Seq(Entry), NEW i \in 1..Len(s)
    PROVE  IsRemoval(s, i, RemoveAt(s, i))
<1> DEFINE a == SubSeq(s, 1, i - 1)
           b == SubSeq(s, i + 1, Len(s))
<1>1. Len(s) \in Nat /\ i \in Nat /\ 1 <= i /\ i <= Len(s)
  BY LenProperties
<1>2. /\ a \in Seq(Entry)
      /\ Len(a) = i - 1
      /\ \A j \in 1..(i - 1) : a[j] = s[j]
  BY <1>1, SubSeqProperties
<1>3. /\ b \in Seq(Entry)
      /\ Len(b) = Len(s) - i
      /\ \A j \in 1..(Len(s) - i) : b[j] = s[i + j]
  BY <1>1, SubSeqProperties
<1> HIDE DEF a, b
<1>4. /\ a \o b \in Seq(Entry)
      /\ Len(a \o b) = Len(a) + Len(b)
      /\ \A j \in 1..(Len(a) + Len(b)) :
            (a \o b)[j] = IF j <= Len(a) THEN a[j] ELSE b[j - Len(a)]
  BY <1>2, <1>3, ConcatProperties
<1>5. ASSUME NEW j \in 1..(Len(s) - 1)
      PROVE  (a \o b)[j] = IF j < i THEN s[j] ELSE s[j + 1]
  <2>1. CASE j < i
    <3>1. (a \o b)[j] = a[j]
      BY <2>1, <1>1, <1>2, <1>3, <1>4
    <3> QED
      BY <3>1, <2>1, <1>1, <1>2
  <2>2. CASE j >= i
    <3>1. (a \o b)[j] = b[j - (i - 1)]
      BY <2>2, <1>1, <1>2, <1>3, <1>4
    <3>2. j - (i - 1) \in 1..(Len(s) - i) /\ i + (j - (i - 1)) = j + 1
      BY <2>2, <1>1
    <3> QED
      BY <3>1, <3>2, <2>2, <1>1, <1>3
  <2>3. j < i \/ j >= i
    BY <1>1
  <2> QED
    BY <2>1, <2>2, <2>3
<1>6. RemoveAt(s, i) = a \o b
  BY DEF RemoveAt, a, b
<1>7. Len(a \o b) = Len(s) - 1
  BY <1>1, <1>2, <1>3, <1>4
<1> QED
  BY <1>4, <1>5, <1>6, <1>7 DEF IsRemoval

(* Taking the last entry off the list (list.Back, list.Remove) is a        *)
(* removal at the last position.                                           *)
LEMMA FrontIsRemoval ==
    ASSUME NEW s \in Seq(Entry), Len(s) > 0
    PROVE  IsRemoval(s, Len(s), Front(s))
<1>1. Len(s) \in Nat
  BY LenProperties
<1> DEFINE n == Len(s) - 1
<1>2. n \in Nat /\ \A j \in 1..n : s[j] \in Entry
  BY <1>1, LenProperties
<1> HIDE DEF n
<1>3. /\ SubSeq(s, 1, n) \in Seq(Entry)
      /\ Len(SubSeq(s, 1, n)) = n
      /\ \A j \in 1..n : SubSeq(s, 1, n)[j] = s[j]
  BY <1>2, SubSeqProperties
<1> QED
  BY <1>1, <1>3 DEF IsRemoval, Front, n

(* list.PushFront.                                                         *)
LEMMA ConsIsPush ==
    ASSUME NEW s \in Seq(Entry), NEW e \in Entry
    PROVE  IsPush(s, e, Cons(e, s))
<1>1. <<e>> \in Seq(Entry) /\ Len(<<e>>) = 1 /\ <<e>>[1] = e
  OBVIOUS
<1>2. /\ <<e>> \o s \in Seq(Entry)
      /\ Len(<<e>> \o s) = 1 + Len(s)
      /\ \A j \in 1..(1 + Len(s)) :
            (<<e>> \o s)[j] = IF j <= 1 THEN <<e>>[j] ELSE s[j - 1]
  BY <1>1, ConcatProperties, LenProperties
<1>3. Len(s) \in Nat
  BY LenProperties
<1> QED
  BY <1>1, <1>2, <1>3 DEF IsPush, Cons

-----------------------------------------------------------------------------
(* The map m and the list s describe the same entries.                     *)
Agrees(m, s) ==
    /\ \A k \in Keys : m[k] # Nil => m[k].k = k /\ \E i \in DOMAIN s : s[i] = m[k]
    /\ \A i \in DOMAIN s : m[s[i].k] = s[i]
    /\ \A i, j \in DOMAIN s : s[i].k = s[j].k => i = j

(* Taking one element out of the list and its key out of the map keeps     *)
(* the two in agreement.                                                   *)
LEMMA AgreesRemoval ==
    ASSUME NEW m \in [Keys -> Entry \cup {Nil}], NEW s \in Seq(Entry),
           NEW i \in 1..Len(s), NEW r,
           Agrees(m, s), IsRemoval(s, i, r)
    PROVE  Agrees([m EXCEPT ![s[i].k] = Nil], r)
<1> DEFINE n == [m EXCEPT ![s[i].k] = Nil]
           old(j) == IF j < i THEN j ELSE j + 1
<1>1. /\ DOMAIN s = 1..Len(s) /\ Len(s) \in Nat
      /\ DOMAIN r = 1..Len(r) /\ Len(r) = Len(s) - 1
  BY LenProperties DEF IsRemoval
<1>2. \A j \in DOMAIN s : s[j] \in Entry /\ s[j].k \in Keys
  BY EntriesOfList
<1>3. \A j \in DOMAIN r : old(j) \in DOMAIN s /\ old(j) # i /\ r[j] = s[old(j)]
  BY <1>1 DEF IsRemoval
<1>4. \A j \in DOMAIN r : r[j].k # s[i].k
  BY <1>1, <1>3 DEF Agrees
<1>5. ASSUME NEW k \in Keys, n[k] # Nil
      PROVE  n[k].k = k /\ \E j \in DOMAIN r : r[j] = n[k]
  <2>1. k # s[i].k /\ n[k] = m[k]
    BY <1>5
  <2>2. m[k].k = k
    BY <1>5, <2>1 DEF Agrees
  <2>3. PICK j \in DOMAIN s : s[j] = m[k]
    BY <1>5, <2>1 DEF Agrees
  <2>4. j # i
    BY <2>1, <2>2, <2>3
  <2>5. CASE j < i
    <3>1. j \in DOMAIN r /\ r[j] = s[j]
      BY <2>5, <1>1 DEF IsRemoval
    <3> QED
      BY <3>1, <2>1, <2>2, <2>3
  <2>6. CASE j > i
    <3>1. j - 1 \in DOMAIN r /\ r[j - 1] = s[j]
      BY <2>6, <1>1 DEF IsRemoval
    <3> QED
      BY <3>1, <2>1, <2>2, <2>3
  <2> QED
    BY <2>4, <2>5, <2>6, <1>1
<1>6. \A j \in DOMAIN r : n[r[j].k] = r[j]
  BY <1>2, <1>3, <1>4 DEF Agrees
<1>7. ASSUME NEW j \in DOMAIN r, NEW l \in DOMAIN r, r[j].k = r[l].k
      PROVE  j = l
  <2>1. old(j) = old(l)
    BY <1>3, <1>7 DEF Agrees
  <2> QED
    BY <2>1, <1>1
<1> QED
  BY <1>5, <1>6, <1>7 DEF Agrees

(* Pushing an entry whose key the map does not hold, and entering it in    *)
(* the map, keeps the two in agreement.                                    *)
LEMMA AgreesPush ==
    ASSUME NEW m \in [Keys -> Entry \cup {Nil}], NEW s \in Seq(Entry),
           NEW e \in Entry, NEW r,
           Agrees(m, s), m[e.k] = Nil, IsPush(s, e, r)
    PROVE  Agrees([m EXCEPT ![e.k] = e], r)
<1> DEFINE n == [m EXCEPT ![e.k] = e]
<1>1. /\ DOMAIN s = 1..Len(s) /\ Len(s) \in Nat
      /\ DOMAIN r = 1..Len(r) /\ Len(r) = Len(s) + 1
  BY LenProperties DEF IsPush
<1>2. \A j \in DOMAIN s : s[j] \in Entry /\ s[j].k \in Keys
  BY EntriesOfList
<1>3. e.k \in Keys
  BY DEF Entry
<1>4. \A j \in DOMAIN r : j # 1 => j - 1 \in DOMAIN s /\ r[j] = s[j - 1]
  BY <1>1 DEF IsPush
<1>5. r[1] = e /\ 1 \in DOMAIN r
  BY <1>1 DEF IsPush
<1>6. \A j \in DOMAIN s : s[j].k # e.k
  BY <1>2, NilAssumption DEF Agrees
<1>7. ASSUME NEW k \in Keys, n[k] # Nil
      PROVE  n[k].k = k /\ \E j \in DOMAIN r : r[j] = n[k]
  <2>1. CASE k = e.k
    BY <2>1, <1>5, <1>3
  <2>2. CASE k # e.k
    <3>1. n[k] = m[k] /\ m[k].k = k
      BY <2>2, <1>7 DEF Agrees
    <3>2. PICK j \in DOMAIN s : s[j] = m[k]
      BY <3>1, <1>7 DEF Agrees
    <3>3. j + 1 \in DOMAIN r /\ r[j + 1] = s[j]
      BY <1>1 DEF IsPush
    <3> QED
      BY <3>1, <3>2, <3>3
  <2> QED
    BY <2>1, <2>2
<1>8. ASSUME NEW j \in DOMAIN r PROVE n[r[j].k] = r[j]
  <2>1. CASE j = 1
    BY <2>1, <1>3, <1>5
  <2>2. CASE j # 1
    BY <2>2, <1>2, <1>4, <1>6 DEF Agrees
  <2> QED
    BY <2>1, <2>2
<1>9. ASSUME NEW j \in DOMAIN r, NEW l \in DOMAIN r, r[j].k = r[l].k
      PROVE  j = l
  <2>1. CASE j = 1 \/ l = 1
    BY <2>1, <1>9, <1>4, <1>5, <1>6
  <2>2. CASE j # 1 /\ l # 1
    <3>1. j - 1 = l - 1
      BY <2>2, <1>9, <1>4 DEF Agrees
    <3> QED
      BY <3>1, <1>1
  <2> QED
    BY <2>1, <2>2
<1> QED
  BY <1>7, <1>8, <1>9 DEF Agrees

-----------------------------------------------------------------------------
(* t is the total of the list s; that the partial sums never decrease      *)
(* follows from their steps, but only by induction, so it is carried along.*)
Total(s, t) ==
    \E p \in [0..Len(s) -> Nat] :
        /\ PartialSums(s, t, p)
        /\ \A i, j \in 0..Len(s) : i <= j => p[i] <= p[j]

(* Taking an element out takes its size off the total, which covered it.   *)
LEMMA TotalRemoval ==
    ASSUME NEW s \in Seq(Entry), NEW t \in Nat, NEW i \in 1..Len(s), NEW r,
           Total(s, t), IsRemoval(s, i, r)
    PROVE  /\ t - Size[s[i].data] \in Nat
           /\ Total(r, t - Size[s[i].data])
<1> DEFINE z == Size[s[i].data]
<1>1. /\ Len(s) \in Int /\ Len(r) = Len(s) - 1
      /\ i \in Int /\ 1 <= i /\ i <= Len(s)
  BY LenProperties DEF IsRemoval
<1>2. /\ \A j \in 1..Len(s) : Size[s[j].data] \in Nat
      /\ z \in Nat
  BY EntriesOfList, LenProperties
<1>3. PICK p \in [0..Len(s) -> Nat] :
        /\ PartialSums(s, t, p)
        /\ \A m, n \in 0..Len(s) : m <= n => p[m] <= p[n]
  BY DEF Total
<1>4. /\ p[0] = 0 /\ p[Len(s)] = t
      /\ \A m \in 1..Len(s) : p[m] = p[m - 1] + Size[s[m].data]
  BY <1>3 DEF PartialSums
<1>5. p[i] = p[i - 1] + z /\ p[i - 1] \in Nat /\ p[i] \in Nat
  BY <1>1, <1>4
<1> HIDE DEF z
<1> DEFINE q == [j \in 0..Len(r) |-> IF j < i THEN p[j] ELSE p[j + 1] - z]
<1>6. \A j \in 0..Len(r) : j >= i => p[j + 1] \in Nat /\ p[i] <= p[j + 1]
  BY <1>1, <1>3
<1>7. \A j \in 0..Len(r) : j < i => p[j] \in Nat /\ p[j] <= p[i - 1]
  BY <1>1, <1>3
<1>8. ASSUME NEW j \in 0..Len(r) PROVE q[j] \in Nat
  <2>1. CASE j < i
    BY <2>1, <1>7
  <2>2. CASE j >= i
    BY <2>2, <1>1, <1>2, <1>5, <1>6
  <2> QED
    BY <2>1, <2>2, <1>1
<1>9. q \in [0..Len(r) -> Nat]
  BY <1>8
<1>10. q[0] = 0
  BY <1>1, <1>4
<1>15. /\ \A j \in 0..Len(r) : j < i => q[j] = p[j]
       /\ \A j \in 0..Len(r) : j >= i => q[j] = p[j + 1] - z
  BY <1>1
<1> HIDE DEF q
<1>11. q[Len(r)] = t - z
  <2>1. CASE i = Len(s)
    <3>1. q[Len(r)] = p[i - 1]
      BY <2>1, <1>1, <1>15
    <3>2. t = p[i - 1] + z
      BY <2>1, <1>4, <1>5
    <3> QED
      BY <3>1, <3>2, <1>2, <1>5
  <2>2. CASE i < Len(s)
    <3>1. q[Len(r)] = p[Len(r) + 1] - z
      BY <2>2, <1>1, <1>15
    <3> QED
      BY <3>1, <1>1, <1>4
  <2> QED
    <3>1. i = Len(s) \/ i < Len(s)
      BY <1>1
    <3> QED
      BY <3>1, <2>1, <2>2
<1>12. ASSUME NEW j \in 1..Len(r) PROVE q[j] = q[j - 1] + Size[r[j].data]
  <2>1. CASE j < i
    <3>1. r[j] = s[j] /\ q[j] = p[j] /\ q[j - 1] = p[j - 1]
      BY <2>1, <1>1, <1>15 DEF IsRemoval
    <3> QED
      BY <3>1, <1>1, <1>4
  <2>2. CASE j >= i
    <3>1. r[j] = s[j + 1] /\ q[j] = p[j + 1] - z
      BY <2>2, <1>1, <1>15 DEF IsRemoval
    <3>2. p[j + 1] = p[j] + Size[s[j + 1].data] /\ p[j] \in Nat
      <4>1. j + 1 \in 1..Len(s) /\ (j + 1) - 1 = j /\ j \in 0..Len(s)
        BY <1>1
      <4> QED
        BY <4>1, <1>3, <1>4
    <3>3. q[j - 1] = p[j] - z
      <4>1. CASE j = i
        BY <4>1, <1>1, <1>2, <1>5, <1>15
      <4>2. CASE j > i
        BY <4>2, <1>1, <1>15
      <4> QED
        BY <2>2, <4>1, <4>2, <1>1
    <3> QED
      BY <3>1, <3>2, <3>3, <1>1, <1>2
  <2> QED
    BY <2>1, <2>2, <1>1
<1>13. ASSUME NEW m \in 0..Len(r), NEW n \in 0..Len(r), m <= n
       PROVE  q[m] <= q[n]
  <2>1. CASE n < i
    BY <2>1, <1>13, <1>1, <1>3, <1>15
  <2>2. CASE m >= i
    <3>1. m + 1 \in 0..Len(s) /\ n + 1 \in 0..Len(s) /\ m + 1 <= n + 1 /\ n >= i
      BY <2>2, <1>13, <1>1
    <3>2. p[m + 1] <= p[n + 1] /\ p[m + 1] \in Nat /\ p[n + 1] \in Nat
      BY <3>1, <1>3
    <3> QED
      BY <2>2, <3>1, <3>2, <1>2, <1>15
  <2>3. CASE m < i /\ n >= i
    <3>1. q[m] = p[m] /\ p[m] <= p[i - 1] /\ p[m] \in Nat
      BY <2>3, <1>7, <1>15
    <3>2. q[n] = p[n + 1] - z /\ p[i] <= p[n + 1] /\ p[n + 1] \in Nat
      BY <2>3, <1>1, <1>6, <1>15
    <3> QED
      BY <3>1, <3>2, <1>2, <1>5
  <2> QED
    BY <2>1, <2>2, <2>3, <1>1
<1>14. t - z \in Nat
  BY <1>8, <1>11, <1>1
<1> QED
  BY <1>9, <1>10, <1>11, <1>12, <1>13, <1>14 DEF Total, PartialSums, z

(* Pushing an entry adds its size to the total.                            *)
LEMMA TotalPush ==
    ASSUME NEW s \in Seq(Entry), NEW t \in Nat, NEW e \in Entry, NEW r,
           Total(s, t), IsPush(s, e, r)
    PROVE  Total(r, t + Size[e.data])
<1> DEFINE z == Size[e.data]
<1>1. Len(s) \in Nat /\ Len(r) = Len(s) + 1
  BY LenProperties DEF IsPush
<1>2. z \in Nat
  BY SizeAssumption DEF Entry
<1>3. PICK p \in [0..Len(s) -> Nat] :
        /\ PartialSums(s, t, p)
        /\ \A m, n \in 0..Len(s) : m <= n => p[m] <= p[n]
  BY DEF Total
<1>4. /\ p[0] = 0 /\ p[Len(s)] = t
      /\ \A m \in 1..Len(s) : p[m] = p[m - 1] + Size[s[m].data]
  BY <1>3 DEF PartialSums
<1> DEFINE q == [j \in 0..Len(r) |-> IF j = 0 THEN 0 ELSE p[j - 1] + z]
<1>5. r[1].data = e.data /\ \A j \in 2..Len(r) : r[j] = s[j - 1]
  <2>1. \A j \in 2..Len(r) : j - 1 \in 1..Len(s) /\ (j - 1) + 1 = j
    BY <1>1
  <2> QED
    BY <2>1 DEF IsPush
<1> HIDE DEF z
<1>6. q \in [0..Len(r) -> Nat]
  BY <1>1, <1>2
<1>7. q[0] = 0 /\ q[Len(r)] = t + z
  BY <1>1, <1>4
<1>8. ASSUME NEW j \in 1..Len(r) PROVE q[j] = q[j - 1] + Size[r[j].data]
  <2>1. CASE j = 1
    BY <2>1, <1>1, <1>2, <1>4, <1>5 DEF z
  <2>2. CASE j > 1
    <3>1. /\ r[j] = s[j - 1] /\ j - 1 \in 1..Len(s)
          /\ q[j] = p[j - 1] + z /\ q[j - 1] = p[j - 2] + z
      BY <2>2, <1>1, <1>5
    <3>2. /\ p[j - 1] = p[j - 2] + Size[s[j - 1].data]
          /\ p[j - 2] \in Nat /\ p[j - 1] \in Nat
      <4>1. (j - 1) - 1 = j - 2 /\ j - 2 \in 0..Len(s) /\ j - 1 \in 0..Len(s)
        BY <3>1, <1>1
      <4> QED
        BY <4>1, <3>1, <1>4
    <3>3. Size[s[j - 1].data] \in Nat
      BY <3>1, EntriesOfList, LenProperties
    <3> HIDE DEF q
    <3>4. Size[r[j].data] = Size[s[j - 1].data]
      BY <3>1
    <3> QED
      BY <3>1, <3>2, <3>3, <3>4, <1>2
  <2> QED
    BY <2>1, <2>2, <1>1
<1>9. ASSUME NEW m \in 0..Len(r), NEW n \in 0..Len(r), m <= n
      PROVE  q[m] <= q[n]
  <2>1. CASE m = 0
    BY <2>1, <1>1, <1>2, <1>6
  <2>2. CASE m # 0
    <3>1. m - 1 \in 0..Len(s) /\ n - 1 \in 0..Len(s) /\ m - 1 <= n - 1 /\ n # 0
      BY <2>2, <1>9, <1>1
    <3>2. p[m - 1] <= p[n - 1] /\ p[m - 1] \in Nat /\ p[n - 1] \in Nat
      BY <3>1, <1>3
    <3>3. q[m] = p[m - 1] + z /\ q[n] = p[n - 1] + z
      BY <2>2, <3>1
    <3> QED
      BY <3>2, <3>3, <1>2
  <2> QED
    BY <2>1, <2>2
<1> QED
  BY <1>6, <1>7, <1>8, <1>9 DEF Total, PartialSums, z

-----------------------------------------------------------------------------
(* The inductive invariant: TypeOK and MapListAgree are what the updates   *)
(* of the list need, and the total is stated with its monotone partial     *)
(* sums, without which taking an entry's size off could go below zero.     *)
IInv == TypeOK /\ MapListAgree /\ Total(lru, used) /\ WithinCapacity

(* An element that the map holds is found by list.Remove.                  *)
LEMMA WithoutIsRemoval ==
    ASSUME NEW k \in Keys, TypeOK, MapListAgree, items[k] # Nil
    PROVE  \E i \in 1..Len(lru) :
              lru[i] = items[k] /\ IsRemoval(lru, i, Without(lru, items[k]))
<1> DEFINE i == CHOOSE i \in DOMAIN lru : lru[i] = items[k]
<1>1. i \in DOMAIN lru /\ lru[i] = items[k]
  BY DEF MapListAgree
<1>2. i \in 1..Len(lru)
  BY <1>1, LenProperties DEF TypeOK
<1>3. Without(lru, items[k]) = RemoveAt(lru, i)
  BY DEF Without
<1> HIDE DEF i
<1>4. IsRemoval(lru, i, RemoveAt(lru, i))
  BY <1>2, RemoveAtIsRemoval DEF TypeOK
<1> QED
  BY <1>1, <1>2, <1>3, <1>4

LEMMA InitIInv == Init => IInv
<1> SUFFICES ASSUME Init PROVE IInv
  OBVIOUS
<1>1. TypeOK /\ WithinCapacity
  BY DEF Init, TypeOK, WithinCapacity
<1>2. MapListAgree
  BY DEF Init, MapListAgree
<1>3. Total(lru, used)
  <2> DEFINE p == [j \in 0..0 |-> 0]
  <2>1. p \in [0..Len(lru) -> Nat] /\ PartialSums(lru, used, p)
    BY DEF Init, PartialSums
  <2>2. \A i, j \in 0..Len(lru) : p[i] <= p[j]
    BY DEF Init
  <2> QED
    BY <2>1, <2>2 DEF Total
<1> QED
  BY <1>1, <1>2, <1>3 DEF IInv

(* A hit takes the element out and pushes it again: the map, the counter   *)
(* and the length of the list come out as they were.                       *)
LEMMA GetIInv ==
    ASSUME IInv, NEW k \in Keys, Get(k)
    PROVE  IInv'
<1> USE DEF IInv
<1>1. CASE items[k] = Nil
  <2>1. UNCHANGED vars
    BY <1>1 DEF Get, vars
  <2> QED
    BY <2>1 DEF vars, TypeOK, MapListAgree, Total, PartialSums, WithinCapacity
<1>2. CASE items[k] # Nil
  <2> DEFINE e == items[k]
             r == Without(lru, e)
  <2>1. PICK i \in 1..Len(lru) : lru[i] = e /\ IsRemoval(lru, i, r)
    BY <1>2, WithoutIsRemoval
  <2>2. e \in Entry /\ e.k = k /\ r \in Seq(Entry) /\ Size[e.data] \in Nat
    BY <1>2, <2>1, SizeAssumption DEF TypeOK, MapListAgree, IsRemoval, Entry
  <2> HIDE DEF e, r
  <2>3. IsPush(r, e, lru')
    BY <1>2, <2>2, ConsIsPush DEF Get, e, r
  <2>4. TypeOK'
    BY <2>3 DEF Get, TypeOK, IsPush
  <2>5. MapListAgree'
    <3> DEFINE m == [items EXCEPT ![k] = Nil]
    <3>1. Agrees(items, lru)
      BY DEF Agrees, MapListAgree
    <3>2. Agrees(m, r) /\ m \in [Keys -> Entry \cup {Nil}] /\ m[e.k] = Nil
      BY <2>1, <2>2, <3>1, AgreesRemoval DEF TypeOK
    <3>3. [m EXCEPT ![e.k] = e] = items
      BY <2>2 DEF TypeOK, e
    <3> HIDE DEF m
    <3>4. Agrees([m EXCEPT ![e.k] = e], lru')
      BY <2>2, <2>3, <3>2, AgreesPush
    <3>5. Agrees(items', lru')
      BY <3>3, <3>4 DEF Get
    <3> QED
      BY <3>5 DEF Agrees, MapListAgree
  <2>6. Total(lru, used)'
    <3>1. used - Size[e.data] \in Nat /\ Total(r, used - Size[e.data])
      BY <2>1, TotalRemoval DEF TypeOK
    <3>2. Total(lru', (used - Size[e.data]) + Size[e.data])
      BY <2>2, <2>3, <3>1, TotalPush
    <3>3. (used - Size[e.data]) + Size[e.data] = used /\ used' = used
      BY <2>2 DEF TypeOK, Get
    <3> QED
      BY <3>2, <3>3
  <2>7. WithinCapacity'
    <3>1. Len(lru') = Len(lru)
      BY <2>1, <2>3, LenProperties DEF IsRemoval, IsPush, TypeOK
    <3> QED
      BY <3>1 DEF Get, WithinCapacity
  <2> QED
    BY <2>4, <2>5, <2>6, <2>7
<1> QED
  BY <1>1, <1>2

(* A Set takes an old element out, if there is one, and pushes the new.    *)
LEMMA SetIInv ==
    ASSUME IInv, NEW c \in Callers, NEW k \in Keys, NEW d \in Data, Set(c, k, d)
    PROVE  IInv'
<1> USE DEF IInv
<1> DEFINE e == [k |-> k, data |-> d]
           r == IF items[k] = Nil THEN lru ELSE Without(lru, items[k])
           m == [items EXCEPT ![k] = Nil]
           t == IF items[k] = Nil THEN used ELSE used - Size[items[k].data]
<1>1. e \in Entry /\ e.k = k /\ e.data = d /\ Size[d] \in Nat
  BY SizeAssumption DEF Entry
<1>2. Agrees(items, lru)
  BY DEF Agrees, MapListAgree
<1>3. r \in Seq(Entry) /\ Agrees(m, r) /\ t \in Nat /\ Total(r, t)
  <2>1. CASE items[k] = Nil
    <3>1. m = items
      BY <2>1 DEF TypeOK
    <3> QED
      BY <2>1, <3>1, <1>2 DEF TypeOK
  <2>2. CASE items[k] # Nil
    <3> HIDE DEF r, m, t
    <3>1. PICK i \in 1..Len(lru) :
             lru[i] = items[k] /\ IsRemoval(lru, i, Without(lru, items[k]))
      BY <2>2, WithoutIsRemoval
    <3>2. IsRemoval(lru, i, r)
      BY <2>2, <3>1 DEF r
    <3>3. Agrees([items EXCEPT ![lru[i].k] = Nil], r)
      BY <3>2, <1>2, AgreesRemoval DEF TypeOK
    <3>4. lru[i].k = k
      BY <2>2, <3>1 DEF MapListAgree
    <3>5. used - Size[lru[i].data] \in Nat /\ Total(r, used - Size[lru[i].data])
      BY <3>2, TotalRemoval DEF TypeOK
    <3> QED
      BY <2>2, <3>1, <3>2, <3>3, <3>4, <3>5 DEF m, t, IsRemoval
  <2> QED
    BY <2>1, <2>2
<1>4. m \in [Keys -> Entry \cup {Nil}] /\ m[e.k] = Nil
  BY <1>1 DEF TypeOK
<1>5. /\ mu' = c /\ lru' = Cons(e, r) /\ used' = t + Size[e.data]
      /\ items' = [m EXCEPT ![e.k] = e]
  BY <1>1 DEF Set, TypeOK
<1> HIDE DEF e, r, m, t
<1>6. IsPush(r, e, lru')
  BY <1>1, <1>3, <1>5, ConsIsPush
<1>7. TypeOK'
  BY <1>1, <1>3, <1>4, <1>5, <1>6 DEF TypeOK, IsPush
<1>8. MapListAgree'
  <2>1. Agrees(items', lru')
    BY <1>1, <1>3, <1>4, <1>5, <1>6, AgreesPush
  <2> QED
    BY <2>1 DEF Agrees, MapListAgree
<1>9. Total(lru, used)'
  BY <1>1, <1>3, <1>5, <1>6, TotalPush
<1>10. WithinCapacity'
  BY <1>5, FreeAssumption DEF WithinCapacity
<1> QED
  BY <1>7, <1>8, <1>9, <1>10

(* An eviction is a removal at the last position.                          *)
LEMMA EvictBackIInv ==
    ASSUME IInv, NEW c \in Callers, EvictBack(c)
    PROVE  IInv'
<1> USE DEF IInv
<1> DEFINE n == Len(lru)
           e == Last(lru)
<1>1. n \in 1..Len(lru) /\ e = lru[n] /\ n > 0 /\ lru \in Seq(Entry)
  BY LenProperties DEF EvictBack, OverCapacity, Last, TypeOK
<1>2. IsRemoval(lru, n, lru')
  BY <1>1, FrontIsRemoval DEF EvictBack
<1>3. /\ used' = used - Size[lru[n].data] /\ mu' = c
      /\ items' = [items EXCEPT ![lru[n].k] = Nil]
  BY <1>1 DEF EvictBack
<1> HIDE DEF n, e
<1>4. used' \in Nat /\ Total(lru', used')
  BY <1>1, <1>2, <1>3, TotalRemoval DEF TypeOK
<1>5. Agrees(items', lru')
  <2>1. Agrees(items, lru)
    BY DEF Agrees, MapListAgree
  <2> QED
    BY <1>1, <1>2, <1>3, <2>1, AgreesRemoval DEF TypeOK
<1>6. TypeOK'
  BY <1>2, <1>3, <1>4 DEF TypeOK, IsRemoval
<1>7. MapListAgree'
  BY <1>5 DEF Agrees, MapListAgree
<1>8. WithinCapacity'
  BY <1>3, FreeAssumption DEF WithinCapacity
<1> QED
  BY <1>4, <1>6, <1>7, <1>8

(* Returning from Set is where the loop's condition becomes the capacity.  *)
LEMMA SetReturnIInv ==
    ASSUME IInv, NEW c \in Callers, SetReturn(c)
    PROVE  IInv'
<1>1. used \in Int /\ Len(lru) \in Int
  BY LenProperties DEF IInv, TypeOK
<1>2. WithinCapacity'
  BY <1>1, MaxBytesAssumption DEF SetReturn, OverCapacity, WithinCapacity
<1>3. (TypeOK /\ MapListAgree /\ Total(lru, used))'
  BY DEF IInv, SetReturn, TypeOK, MapListAgree, Total, PartialSums
<1> QED
  BY <1>2, <1>3 DEF IInv

LEMMA NextIInv == IInv /\ [Next]_vars => IInv'
<1> SUFFICES ASSUME IInv, [Next]_vars PROVE IInv'
  OBVIOUS
<1>1. ASSUME NEW k \in Keys, Get(k) PROVE IInv'
  BY <1>1, GetIInv
<1>2. ASSUME NEW c \in Callers, NEW k \in Keys, NEW d \in Data, Set(c, k, d)
      PROVE  IInv'
  BY <1>2, SetIInv
<1>3. ASSUME NEW c \in Callers, EvictBack(c) PROVE IInv'
  BY <1>3, EvictBackIInv
<1>4. ASSUME NEW c \in Callers, SetReturn(c) PROVE IInv'
  BY <1>4, SetReturnIInv
<1>5. CASE UNCHANGED vars
  BY <1>5 DEF vars, IInv, TypeOK, MapListAgree, Total, PartialSums, WithinCapacity
<1> QED
  BY <1>1, <1>2, <1>3, <1>4, <1>5 DEF Next

THEOREM IInvInvariant == Spec => []IInv
<1> QED
  BY InitIInv, NextIInv, PTL DEF Spec

(* The cache stays within its types; in particular its counter of bytes    *)
(* never goes below zero, however often entries are replaced and evicted.  *)
THEOREM TypeCorrect == Spec => []TypeOK
<1>1. IInv => TypeOK
  BY DEF IInv
<1> QED
  BY <1>1, IInvInvariant, PTL

(* The map and the recency list always describe the same entries.          *)
THEOREM MapAndListAgree == Spec => []MapListAgree
<1>1. IInv => MapListAgree
  BY DEF IInv
<1> QED
  BY <1>1, IInvInvariant, PTL

(* The counter is always the total of the sizes of the listed entries.     *)
THEOREM CounterIsTotal == Spec => []UsedIsTotal
<1>1. ASSUME IInv PROVE UsedIsTotal
  <2>1. PICK p \in [0..Len(lru) -> Nat] :
          /\ PartialSums(lru, used, p)
          /\ \A i, j \in 0..Len(lru) : i <= j => p[i] <= p[j]
    BY <1>1 DEF IInv, Total
  <2>2. Len(lru) \in Nat /\ p[Len(lru)] = used /\ used \in Nat
    BY <1>1, <2>1, LenProperties DEF IInv, TypeOK, PartialSums
  <2>3. \A i \in 0..Len(lru) : p[i] \in 0..used
    BY <2>1, <2>2
  <2>4. p \in [0..Len(lru) -> 0..used]
    BY <2>3
  <2> QED
    BY <2>1, <2>4 DEF UsedIsTotal
<1> QED
  BY <1>1, IInvInvariant, PTL

(* Between calls the store fits its capacity or holds one entry only.      *)
THEOREM CapacityRespected == Spec => []WithinCapacity
<1>1. IInv => WithinCapacity
  BY DEF IInv
<1> QED
  BY <1>1, IInvInvariant, PTL

-----------------------------------------------------------------------------
(* The refinement.  First, how the two updates move positions.             *)
Listed(s) == {s[i].k : i \in DOMAIN s}

DistinctKeys(s) == \A i, j \in DOMAIN s : s[i].k = s[j].k => i = j

LEMMA RemovalPositions ==
    ASSUME NEW s \in Seq(Entry), NEW i \in 1..Len(s), NEW r, IsRemoval(s, i, r)
    PROVE  /\ \A j \in DOMAIN r : \E a \in DOMAIN s :
                 /\ a # i
                 /\ r[j] = s[a]
                 /\ a = IF j < i THEN j ELSE j + 1
           /\ \A a \in DOMAIN s : a # i => \E j \in DOMAIN r :
                 /\ r[j] = s[a]
                 /\ j = IF a < i THEN a ELSE a - 1
<1>1. /\ DOMAIN s = 1..Len(s) /\ Len(s) \in Nat /\ i \in Nat
      /\ DOMAIN r = 1..Len(r) /\ Len(r) = Len(s) - 1
      /\ \A j \in 1..Len(r) : r[j] = IF j < i THEN s[j] ELSE s[j + 1]
  BY LenProperties DEF IsRemoval
<1>2. ASSUME NEW j \in DOMAIN r
      PROVE  \E a \in DOMAIN s : a # i /\ r[j] = s[a] /\ a = IF j < i THEN j ELSE j + 1
  BY <1>1
<1>3. ASSUME NEW a \in DOMAIN s, a # i
      PROVE  \E j \in DOMAIN r : r[j] = s[a] /\ j = IF a < i THEN a ELSE a - 1
  <2>1. CASE a < i
    BY <2>1, <1>1
  <2>2. CASE a > i
    <3>1. a - 1 \in DOMAIN r /\ ~(a - 1 < i) /\ (a - 1) + 1 = a
      BY <2>2, <1>1
    <3> QED
      BY <3>1, <2>2, <1>1
  <2> QED
    BY <2>1, <2>2, <1>1, <1>3
<1> QED
  BY <1>2, <1>3

LEMMA PushPositions ==
    ASSUME NEW s \in Seq(Entry), NEW e, NEW r, IsPush(s, e, r)
    PROVE  /\ 1 \in DOMAIN r /\ r[1] = e
           /\ \A j \in DOMAIN r : j # 1 => j - 1 \in DOMAIN s /\ r[j] = s[j - 1]
           /\ \A a \in DOMAIN s : a + 1 \in DOMAIN r /\ a + 1 # 1 /\ r[a + 1] = s[a]
           /\ DOMAIN r \subseteq Nat \ {0} /\ DOMAIN s \subseteq Nat \ {0}
<1>1. /\ DOMAIN s = 1..Len(s) /\ Len(s) \in Nat
      /\ DOMAIN r = 1..Len(r) /\ Len(r) = Len(s) + 1
      /\ r[1] = e /\ \A j \in 1..Len(s) : r[j + 1] = s[j]
  BY LenProperties DEF IsPush
<1>2. ASSUME NEW j \in DOMAIN r, j # 1
      PROVE  j - 1 \in DOMAIN s /\ r[j] = s[j - 1]
  <2>1. j - 1 \in 1..Len(s) /\ (j - 1) + 1 = j
    BY <1>1, <1>2
  <2> QED
    BY <2>1, <1>1
<1> QED
  BY <1>1, <1>2

-----------------------------------------------------------------------------
LEMMA UpToMember ==
    ASSUME NEW s, NEW k, NEW x
    PROVE  x \in UpTo(s, k) <=> \E i, j \in DOMAIN s : i <= j /\ s[i].k = x /\ s[j].k = k
BY DEF UpTo

(* Taking an element out takes its key out of the keys up to any other.    *)
LEMMA UpToRemoval ==
    ASSUME NEW s \in Seq(Entry), DistinctKeys(s), NEW i \in 1..Len(s),
           NEW r, IsRemoval(s, i, r), NEW k, k # s[i].k
    PROVE  UpTo(r, k) = UpTo(s, k) \ {s[i].k}
<1>1. i \in DOMAIN s /\ DOMAIN s \subseteq Int /\ DOMAIN r \subseteq Int
  BY LenProperties DEF IsRemoval
<1> DEFINE old(j) == IF j < i THEN j ELSE j + 1
           new(a) == IF a < i THEN a ELSE a - 1
<1>4. \A j \in DOMAIN r : \E a \in DOMAIN s : a # i /\ r[j] = s[a] /\ a = old(j)
  BY RemovalPositions
<1>5. \A a \in DOMAIN s : a # i => \E j \in DOMAIN r : r[j] = s[a] /\ j = new(a)
  BY RemovalPositions
<1>6. \A a, b \in DOMAIN r : a <= b => old(a) <= old(b)
  BY <1>1
<1>7. \A a, b \in DOMAIN s : a <= b /\ a # i /\ b # i => new(a) <= new(b)
  BY <1>1
<1> HIDE DEF old, new
<1>2. ASSUME NEW x \in UpTo(r, k) PROVE x \in UpTo(s, k) /\ x # s[i].k
  <2>1. PICK a \in DOMAIN r, b \in DOMAIN r : a <= b /\ r[a].k = x /\ r[b].k = k
    BY <1>2, UpToMember
  <2>2. PICK c \in DOMAIN s : c # i /\ r[a] = s[c] /\ c = old(a)
    BY <1>4
  <2>3. PICK d \in DOMAIN s : d # i /\ r[b] = s[d] /\ d = old(b)
    BY <1>4
  <2>4. c <= d
    BY <2>1, <2>2, <2>3, <1>6
  <2>5. x \in UpTo(s, k)
    BY <2>1, <2>2, <2>3, <2>4, UpToMember
  <2>6. x # s[i].k
    BY <2>1, <2>2, <1>1 DEF DistinctKeys
  <2> QED
    BY <2>5, <2>6
<1>3. ASSUME NEW x \in UpTo(s, k), x # s[i].k PROVE x \in UpTo(r, k)
  <2>1. PICK c \in DOMAIN s, d \in DOMAIN s : c <= d /\ s[c].k = x /\ s[d].k = k
    BY UpToMember
  <2>2. c # i /\ d # i
    BY <2>1, <1>3
  <2>3. PICK a \in DOMAIN r : r[a] = s[c] /\ a = new(c)
    BY <2>2, <1>5
  <2>4. PICK b \in DOMAIN r : r[b] = s[d] /\ b = new(d)
    BY <2>2, <1>5
  <2>5. a <= b
    BY <2>1, <2>2, <2>3, <2>4, <1>7
  <2> QED
    BY <2>1, <2>3, <2>4, <2>5, UpToMember
<1> QED
  BY <1>2, <1>3

(* The key x comes before those listed in s in r.                          *)
KeyAhead(s, x, r) ==
    /\ UpTo(r, x) = {x}
    /\ \A k \in Listed(s) : UpTo(r, k) = {x} \cup UpTo(s, k)

(* Pushing an element puts its key before those up to any other.           *)
LEMMA UpToPush ==
    ASSUME NEW s \in Seq(Entry), NEW e, e.k \notin Listed(s),
           NEW r, IsPush(s, e, r)
    PROVE  KeyAhead(s, e.k, r)
<1>1. /\ 1 \in DOMAIN r /\ r[1] = e
      /\ \A j \in DOMAIN r : j # 1 => j - 1 \in DOMAIN s /\ r[j] = s[j - 1]
      /\ \A a \in DOMAIN s : a + 1 \in DOMAIN r /\ a + 1 # 1 /\ r[a + 1] = s[a]
      /\ DOMAIN r \subseteq Nat \ {0} /\ DOMAIN s \subseteq Nat \ {0}
  BY PushPositions
<1>2. \A j \in DOMAIN r : j # 1 => r[j].k # e.k
  BY <1>1 DEF Listed
<1>3. ASSUME NEW x PROVE x \in UpTo(r, e.k) <=> x = e.k
  <2>1. ASSUME x \in UpTo(r, e.k) PROVE x = e.k
    <3>1. PICK a \in DOMAIN r, b \in DOMAIN r : a <= b /\ r[a].k = x /\ r[b].k = e.k
      BY <2>1, UpToMember
    <3>2. b = 1 /\ a = 1
      BY <3>1, <1>1, <1>2
    <3> QED
      BY <3>1, <3>2, <1>1
  <2>2. e.k \in UpTo(r, e.k)
    <3>1. 1 <= 1 /\ r[1].k = e.k
      BY <1>1
    <3> QED
      BY <3>1, <1>1, UpToMember
  <2> QED
    BY <2>1, <2>2
<1>4. ASSUME NEW k \in Listed(s), NEW x
      PROVE  x \in UpTo(r, k) <=> x = e.k \/ x \in UpTo(s, k)
  <2>1. ASSUME x \in UpTo(r, k) PROVE x = e.k \/ x \in UpTo(s, k)
    <3>1. PICK a \in DOMAIN r, b \in DOMAIN r : a <= b /\ r[a].k = x /\ r[b].k = k
      BY <2>1, UpToMember
    <3>2. b # 1
      BY <3>1, <1>1, <1>4
    <3>3. CASE a = 1
      BY <3>1, <3>3, <1>1
    <3>4. CASE a # 1
      <4>1. a - 1 \in DOMAIN s /\ b - 1 \in DOMAIN s /\ s[a - 1].k = x /\ s[b - 1].k = k
        BY <3>1, <3>2, <3>4, <1>1
      <4>2. a - 1 <= b - 1
        BY <3>1, <1>1
      <4> QED
        BY <4>1, <4>2, UpToMember
    <3> QED
      BY <3>3, <3>4
  <2>2. e.k \in UpTo(r, k)
    <3>1. PICK b \in DOMAIN s : s[b].k = k
      BY DEF Listed
    <3>2. 1 <= b + 1 /\ b + 1 \in DOMAIN r /\ r[b + 1].k = k /\ r[1].k = e.k
      BY <3>1, <1>1
    <3> QED
      BY <3>2, <1>1, UpToMember
  <2>3. ASSUME x \in UpTo(s, k) PROVE x \in UpTo(r, k)
    <3>1. PICK a \in DOMAIN s, b \in DOMAIN s : a <= b /\ s[a].k = x /\ s[b].k = k
      BY <2>3, UpToMember
    <3>2. /\ a + 1 \in DOMAIN r /\ b + 1 \in DOMAIN r
          /\ r[a + 1].k = x /\ r[b + 1].k = k
      BY <3>1, <1>1
    <3>3. a + 1 <= b + 1
      BY <3>1, <1>1
    <3> QED
      BY <3>2, <3>3, UpToMember
  <2> QED
    BY <2>1, <2>2, <2>3
<1> QED
  BY <1>3, <1>4 DEF KeyAhead

-----------------------------------------------------------------------------
(* The bytes of the keys in S, as the map m has them.                      *)
BytesIn(m, S) == SumFunction([k \in S |-> Size[m[k].data]])

LEMMA ListedFinite ==
    ASSUME NEW s \in Seq(Entry)
    PROVE  IsFiniteSet(Listed(s))
<1> DEFINE f == [i \in 1..Len(s) |-> s[i].k]
<1>1. DOMAIN s = 1..Len(s) /\ Len(s) \in Nat
  BY LenProperties
<1>2. f \in Surjection(1..Len(s), Listed(s))
  BY <1>1 DEF Surjection, Listed
<1>3. IsFiniteSet(1..Len(s))
  BY <1>1, FS_Interval
<1> QED
  BY <1>2, <1>3, FS_Surjection

(* What the map holds is what the list lists, each key with its element.   *)
LEMMA ListedByMap ==
    ASSUME NEW m \in [Keys -> Entry \cup {Nil}], NEW s \in Seq(Entry), Agrees(m, s)
    PROVE  /\ DistinctKeys(s)
           /\ Listed(s) = {k \in Keys : m[k] # Nil}
           /\ \A k \in Listed(s) : /\ k \in Keys
                                   /\ m[k] \in Entry
                                   /\ m[k].data \in Data
                                   /\ Size[m[k].data] \in Nat
<1>1. \A j \in DOMAIN s : s[j] \in Entry /\ s[j].k \in Keys /\ m[s[j].k] = s[j]
  BY EntriesOfList DEF Agrees
<1>2. Listed(s) \subseteq {k \in Keys : m[k] # Nil}
  BY <1>1, NilAssumption DEF Listed
<1>3. ASSUME NEW k \in Keys, m[k] # Nil PROVE k \in Listed(s)
  BY <1>3 DEF Agrees, Listed
<1>4. \A k \in Keys : m[k] # Nil => m[k] \in Entry
  OBVIOUS
<1>5. \A e \in Entry : e.data \in Data /\ Size[e.data] \in Nat
  BY SizeAssumption DEF Entry
<1> QED
  BY <1>2, <1>3, <1>4, <1>5 DEF Agrees, DistinctKeys

LEMMA UpToListed ==
    ASSUME NEW s, NEW k
    PROVE  UpTo(s, k) \subseteq Listed(s)
BY DEF UpTo, Listed

(* The keys up to the last one are all of them.                            *)
LEMMA UpToLast ==
    ASSUME NEW s \in Seq(Entry), Len(s) > 0
    PROVE  UpTo(s, s[Len(s)].k) = Listed(s)
<1>1. DOMAIN s = 1..Len(s) /\ Len(s) \in Nat /\ Len(s) \in DOMAIN s
  BY LenProperties
<1>2. \A i \in DOMAIN s : i <= Len(s)
  BY <1>1
<1> QED
  BY <1>1, <1>2 DEF UpTo, Listed

(* Taking an element out takes its key out of the listed keys.             *)
LEMMA ListedRemoval ==
    ASSUME NEW s \in Seq(Entry), DistinctKeys(s), NEW i \in 1..Len(s),
           NEW r, IsRemoval(s, i, r)
    PROVE  Listed(r) = Listed(s) \ {s[i].k}
<1>1. \A j \in DOMAIN r : \E a \in DOMAIN s : a # i /\ r[j] = s[a]
  BY RemovalPositions
<1>2. \A a \in DOMAIN s : a # i => \E j \in DOMAIN r : r[j] = s[a]
  BY RemovalPositions
<1>3. i \in DOMAIN s
  BY LenProperties
<1> QED
  BY <1>1, <1>2, <1>3 DEF Listed, DistinctKeys

LEMMA ListedPush ==
    ASSUME NEW s \in Seq(Entry), NEW e, NEW r, IsPush(s, e, r)
    PROVE  Listed(r) = {e.k} \cup Listed(s)
<1>1. 1 \in DOMAIN r /\ r[1] = e
  BY PushPositions
<1>2. \A j \in DOMAIN r : j # 1 => j - 1 \in DOMAIN s /\ r[j] = s[j - 1]
  BY PushPositions
<1>3. \A a \in DOMAIN s : a + 1 \in DOMAIN r /\ r[a + 1] = s[a]
  BY PushPositions
<1> QED
  BY <1>1, <1>2, <1>3 DEF Listed

(* The total of the list is the sum of its keys' sizes.                    *)
LEMMA TotalIsBytes ==
    ASSUME NEW m \in [Keys -> Entry \cup {Nil}], NEW s \in Seq(Entry), Agrees(m, s),
           NEW t \in Nat, Total(s, t)
    PROVE  BytesIn(m, Listed(s)) = t
<1> DEFINE f == [k \in Listed(s) |-> Size[m[k].data]]
           first(i) == {s[b].k : b \in 1..i}
<1>1. DOMAIN s = 1..Len(s) /\ Len(s) \in Nat
  BY LenProperties
<1>2. /\ DistinctKeys(s) /\ IsFiniteSet(Listed(s))
      /\ \A k \in Listed(s) : f[k] \in Nat
      /\ \A b \in 1..Len(s) : s[b].k \in Listed(s) /\ f[s[b].k] = Size[s[b].data]
  <2>1. /\ DistinctKeys(s) /\ IsFiniteSet(Listed(s))
        /\ \A k \in Listed(s) : Size[m[k].data] \in Nat
    BY ListedByMap, ListedFinite
  <2>2. ASSUME NEW b \in 1..Len(s)
        PROVE  s[b].k \in Listed(s) /\ f[s[b].k] = Size[s[b].data]
    <3>1. s[b].k \in Listed(s) /\ m[s[b].k] = s[b]
      BY <1>1 DEF Agrees, Listed
    <3> QED
      BY <3>1
  <2> QED
    BY <2>1, <2>2
<1>3. PICK p \in [0..Len(s) -> Nat] : PartialSums(s, t, p)
  BY DEF Total
<1>4. /\ p[0] = 0 /\ p[Len(s)] = t
      /\ \A i \in 1..Len(s) : p[i] = p[i - 1] + Size[s[i].data]
  BY <1>3 DEF PartialSums
<1>5. first(Len(s)) = Listed(s)
  BY <1>1 DEF Listed
<1>6. BytesIn(m, Listed(s)) = SumFunctionOnSet(f, Listed(s))
  BY DEF BytesIn, SumFunction
<1> HIDE DEF f
<1> DEFINE B == {i \in 0..Len(s) : SumFunctionOnSet(f, first(i)) # p[i]}
<1>7. ASSUME B # {} PROVE FALSE
  <2>1. PICK n \in B : \A i \in B : n <= i
    <3>1. B \in SUBSET Nat
      BY <1>1
    <3> HIDE DEF B
    <3> QED
      BY <1>7, <3>1, LeastNatural
  <2>2. n \in 0..Len(s) /\ SumFunctionOnSet(f, first(n)) # p[n]
    OBVIOUS
  <2>3. n # 0
    <3>1. first(0) = {}
      OBVIOUS
    <3> QED
      BY <3>1, <2>2, <1>4, SumOfNothing
  <2>4. n \in 1..Len(s) /\ n - 1 \in 0..Len(s) /\ n - 1 \notin B
    BY <2>1, <2>2, <2>3, <1>1
  <2>5. SumFunctionOnSet(f, first(n - 1)) = p[n - 1]
    BY <2>4
  <2> DEFINE k == s[n].k
  <2>6. k \in first(n) /\ first(n) \in SUBSET Listed(s)
    <3>1. n \in 1..n /\ \A b \in 1..n : b \in DOMAIN s
      BY <2>4, <1>1
    <3>2. \A b \in 1..n : s[b].k \in Listed(s)
      BY <3>1 DEF Listed
    <3> QED
      BY <3>1, <3>2
  <2>7. first(n) \ {k} = first(n - 1)
    <3>1. \A b \in 1..n : s[b].k = k <=> b = n
      BY <2>4, <1>1, <1>2 DEF DistinctKeys
    <3>2. \A b : b \in 1..(n - 1) <=> b \in 1..n /\ b # n
      BY <2>4, <1>1
    <3> HIDE DEF k
    <3> QED
      BY <3>1, <3>2
  <2>8. IsFiniteSet(first(n)) /\ \A x \in first(n) : f[x] \in Nat
    BY <2>6, <1>2, FS_Subset
  <2> HIDE DEF k, first
  <2>9. SumFunctionOnSet(f, first(n)) = f[k] + SumFunctionOnSet(f, first(n) \ {k})
    BY <2>6, <2>8, SumWithout
  <2>10. p[n] = p[n - 1] + f[k] /\ f[k] \in Nat /\ p[n - 1] \in Nat
    BY <2>4, <1>2, <1>4 DEF k
  <2>11. SumFunctionOnSet(f, first(n)) = f[k] + p[n - 1]
    BY <2>5, <2>7, <2>9
  <2> HIDE DEF B
  <2>12. SumFunctionOnSet(f, first(n)) = p[n]
    BY <2>10, <2>11
  <2> QED
    BY <2>2, <2>12
<1>8. SumFunctionOnSet(f, first(Len(s))) = p[Len(s)]
  <2>1. Len(s) \in 0..Len(s)
    BY <1>1
  <2> HIDE DEF first
  <2> QED
    BY <2>1, <1>7
<1> QED
  BY <1>4, <1>5, <1>6, <1>8

(* Fewer keys have no more bytes.                                          *)
LEMMA BytesMonotone ==
    ASSUME NEW m, NEW S, IsFiniteSet(S), \A k \in S : Size[m[k].data] \in Nat,
           NEW T \in SUBSET S
    PROVE  BytesIn(m, T) <= BytesIn(m, S)
<1> DEFINE f == [k \in S |-> Size[m[k].data]]
           g == [k \in T |-> Size[m[k].data]]
<1>1. BytesIn(m, S) = SumFunctionOnSet(f, S) /\ BytesIn(m, T) = SumFunctionOnSet(g, T)
  BY DEF BytesIn, SumFunction
<1>2. /\ \A k \in S : f[k] \in Nat
      /\ \A k \in T : g[k] \in Nat /\ g[k] = f[k]
      /\ IsFiniteSet(T)
  BY FS_Subset
<1> HIDE DEF f, g
<1>3. SumFunctionOnSet(g, T) = SumFunctionOnSet(f, T)
  BY <1>2, SumSame
<1>4. SumFunctionOnSet(f, T) <= SumFunctionOnSet(f, S)
  BY <1>2, SumMonotone
<1> QED
  BY <1>1, <1>3, <1>4

-----------------------------------------------------------------------------
(* The map m, the list s and the counter t of a cache.                     *)
Consistent(m, s, t) ==
    /\ m \in [Keys -> Entry \cup {Nil}]
    /\ s \in Seq(Entry)
    /\ t \in Nat
    /\ Agrees(m, s)
    /\ Total(s, t)

LEMMA ConsistentFacts ==
    ASSUME NEW m, NEW s, NEW t, Consistent(m, s, t)
    PROVE  /\ m \in [Keys -> Entry \cup {Nil}]
           /\ s \in Seq(Entry)
           /\ t \in Nat
           /\ \A i \in DOMAIN s : m[s[i].k] = s[i]
           /\ DistinctKeys(s)
           /\ Listed(s) = {k \in Keys : m[k] # Nil}
           /\ \A k \in Listed(s) : /\ k \in Keys
                                   /\ m[k] \in Entry
                                   /\ m[k].k = k
                                   /\ m[k].data \in Data
                                   /\ Size[m[k].data] \in Nat
           /\ BytesIn(m, Listed(s)) = t
<1>1. /\ m \in [Keys -> Entry \cup {Nil}] /\ s \in Seq(Entry) /\ t \in Nat
      /\ Agrees(m, s) /\ Total(s, t)
  BY DEF Consistent
<1>2. \A k \in Listed(s) : m[k].k = k
  BY <1>1, ListedByMap DEF Agrees
<1>3. \A i \in DOMAIN s : m[s[i].k] = s[i]
  BY <1>1 DEF Agrees
<1> QED
  BY <1>1, <1>2, <1>3, ListedByMap, TotalIsBytes

LEMMA IInvIsConsistent ==
    /\ IInv => Consistent(items, lru, used)
    /\ IInv' => Consistent(items', lru', used')
BY DEF IInv, TypeOK, MapListAgree, Consistent, Agrees

(* The keys of the map m and the list s that are kept.                     *)
KeptOf(m, s) ==
    {k \in Keys : m[k] # Nil /\ (s[1].k = k \/ BytesIn(m, UpTo(s, k)) <= MaxBytes)}

LEMMA KeptIsKeptOf == Kept = KeptOf(items, lru) /\ Kept' = KeptOf(items', lru')
BY DEF Kept, KeptOf, BytesOf, BytesIn

(* Whatever fits is kept.                                                  *)
LEMMA AllKept ==
    ASSUME NEW m, NEW s, NEW t, Consistent(m, s, t), t <= MaxBytes \/ Len(s) <= 1
    PROVE  KeptOf(m, s) = Listed(s)
<1>1. /\ s \in Seq(Entry) /\ t \in Nat
      /\ Listed(s) = {k \in Keys : m[k] # Nil}
      /\ BytesIn(m, Listed(s)) = t
      /\ \A x \in Listed(s) : Size[m[x].data] \in Nat
  BY ConsistentFacts
<1>2. ASSUME NEW k \in Listed(s)
      PROVE  s[1].k = k \/ BytesIn(m, UpTo(s, k)) <= MaxBytes
  <2>1. CASE Len(s) <= 1
    <3>1. PICK i \in DOMAIN s : s[i].k = k
      BY DEF Listed
    <3>2. i = 1
      BY <3>1, <2>1, <1>1, LenProperties
    <3> QED
      BY <3>1, <3>2
  <2>2. CASE t <= MaxBytes
    <3>1. IsFiniteSet(Listed(s)) /\ UpTo(s, k) \in SUBSET Listed(s)
      BY <1>1, ListedFinite, UpToListed
    <3>2. BytesIn(m, UpTo(s, k)) <= t
      BY <3>1, <1>1, BytesMonotone
    <3>3. BytesIn(m, UpTo(s, k)) \in Nat
      <4>1. IsFiniteSet(UpTo(s, k))
        BY <3>1, FS_Subset
      <4> DEFINE f == [x \in UpTo(s, k) |-> Size[m[x].data]]
      <4>2. \A x \in UpTo(s, k) : f[x] \in Nat
        BY <3>1, <1>1
      <4>3. BytesIn(m, UpTo(s, k)) = SumFunctionOnSet(f, UpTo(s, k))
        BY DEF BytesIn, SumFunction
      <4> HIDE DEF f
      <4> QED
        BY <4>1, <4>2, <4>3, SumsOfSubsets
    <3> QED
      BY <3>2, <3>3, <2>2, <1>1, MaxBytesAssumption
  <2> QED
    BY <2>1, <2>2
<1> QED
  BY <1>1, <1>2 DEF KeptOf

(* What the eviction loop is about to take off the list is not kept: the   *)
(* last entry of a list that is over capacity.                             *)
LEMMA LastNotKept ==
    ASSUME NEW m, NEW s, NEW t, Consistent(m, s, t), t > MaxBytes, Len(s) > 1
    PROVE  s[Len(s)].k \notin KeptOf(m, s)
<1>1. /\ s \in Seq(Entry) /\ t \in Nat /\ DistinctKeys(s)
      /\ BytesIn(m, Listed(s)) = t
  BY ConsistentFacts
<1>2. 1 \in DOMAIN s /\ Len(s) \in DOMAIN s /\ Len(s) \in Nat
  BY <1>1, LenProperties
<1>3. s[1].k # s[Len(s)].k
  BY <1>1, <1>2 DEF DistinctKeys
<1>4. UpTo(s, s[Len(s)].k) = Listed(s)
  BY <1>1, <1>2, UpToLast
<1>5. ~(BytesIn(m, UpTo(s, s[Len(s)].k)) <= MaxBytes)
  BY <1>1, <1>4, MaxBytesAssumption
<1> QED
  BY <1>3, <1>5 DEF KeptOf

(* The map n and the list r keep what the map m and the list s keep.       *)
SameKept(m, s, n, r) ==
    /\ KeptOf(n, r) = KeptOf(m, s)
    /\ \A k \in KeptOf(m, s) : n[k] = m[k] /\ UpTo(r, k) = UpTo(s, k)

(* Taking the last entry off leaves what is kept, and the order of it, as  *)
(* it was.                                                                 *)
LEMMA EvictionKeeps ==
    ASSUME NEW m, NEW s, NEW t, Consistent(m, s, t), t > MaxBytes, Len(s) > 1,
           NEW r, IsRemoval(s, Len(s), r), NEW n, n = [m EXCEPT ![s[Len(s)].k] = Nil]
    PROVE  SameKept(m, s, n, r)
<1> DEFINE z == s[Len(s)].k
<1>1. /\ s \in Seq(Entry) /\ m \in [Keys -> Entry \cup {Nil}] /\ DistinctKeys(s)
      /\ Listed(s) = {k \in Keys : m[k] # Nil}
  BY ConsistentFacts
<1>2. Len(s) \in 1..Len(s) /\ DOMAIN s = 1..Len(s) /\ Len(s) \in Nat
  BY <1>1, LenProperties
<1>3. z \in Keys
  BY <1>1, <1>2 DEF Listed
<1>4. r[1] = s[1]
  BY <1>2 DEF IsRemoval
<1>5. z \notin KeptOf(m, s)
  BY LastNotKept
<1>6. n[z] = Nil /\ \A k \in Keys : k # z => n[k] = m[k]
  BY <1>1, <1>3
<1>7. ASSUME NEW k, k # z PROVE UpTo(r, k) = UpTo(s, k) /\ z \notin UpTo(s, k)
  <2>1. UpTo(r, k) = UpTo(s, k) \ {z}
    BY <1>1, <1>2, <1>7, UpToRemoval
  <2>2. ASSUME z \in UpTo(s, k) PROVE FALSE
    <3>1. PICK i \in DOMAIN s, j \in DOMAIN s : i <= j /\ s[i].k = z /\ s[j].k = k
      BY <2>2, UpToMember
    <3>2. i = Len(s)
      BY <3>1, <1>1, <1>2 DEF DistinctKeys
    <3>3. j = Len(s)
      BY <3>1, <3>2, <1>2
    <3> QED
      BY <3>1, <3>3, <1>7
  <2> QED
    BY <2>1, <2>2
<1> HIDE DEF z
<1>8. ASSUME NEW k \in Keys, k # z
      PROVE  k \in KeptOf(n, r) <=> k \in KeptOf(m, s)
  <2>1. n[k] = m[k] /\ UpTo(r, k) = UpTo(s, k) /\ z \notin UpTo(s, k)
    BY <1>6, <1>7, <1>8
  <2>2. \A x \in UpTo(s, k) : x \in Keys /\ x # z
    BY <1>1, <2>1, UpToListed
  <2>3. BytesIn(n, UpTo(r, k)) = BytesIn(m, UpTo(s, k))
    <3>1. \A x \in UpTo(s, k) : n[x] = m[x]
      BY <2>2, <1>6
    <3>2. [x \in UpTo(s, k) |-> Size[n[x].data]] = [x \in UpTo(s, k) |-> Size[m[x].data]]
      BY <3>1
    <3> QED
      BY <3>2, <2>1 DEF BytesIn
  <2> QED
    BY <2>1, <2>3, <1>4 DEF KeptOf
<1>9. KeptOf(n, r) \subseteq Keys /\ KeptOf(m, s) \subseteq Keys /\ z \notin KeptOf(n, r)
  BY <1>6 DEF KeptOf
<1>10. KeptOf(n, r) = KeptOf(m, s)
  <2>1. z \notin KeptOf(m, s)
    BY <1>5 DEF z
  <2>2. ASSUME NEW k PROVE k \in KeptOf(n, r) <=> k \in KeptOf(m, s)
    <3>1. CASE k \in Keys /\ k # z
      BY <3>1, <1>8
    <3>2. CASE k \notin Keys \/ k = z
      BY <3>2, <2>1, <1>9
    <3> QED
      BY <3>1, <3>2
  <2> QED
    BY <2>2
<1>11. \A k \in KeptOf(m, s) : n[k] = m[k] /\ UpTo(r, k) = UpTo(s, k)
  BY <1>5, <1>6, <1>7, <1>9 DEF z
<1> QED
  BY <1>10, <1>11 DEF SameKept

-----------------------------------------------------------------------------
(* The state of the abstract store.                                        *)
ContentOf(m, s) == [k \in Keys |-> IF k \in KeptOf(m, s) THEN m[k].data ELSE Nil]

NewerOf(m, s) == [k \in Keys |-> IF k \in KeptOf(m, s) THEN UpTo(s, k) \ {k} ELSE {}]

LEMMA MappedState ==
    /\ ContentKept = ContentOf(items, lru) /\ ContentKept' = ContentOf(items', lru')
    /\ NewerKept = NewerOf(items, lru) /\ NewerKept' = NewerOf(items', lru')
BY KeptIsKeptOf DEF ContentKept, NewerKept, ContentOf, NewerOf

(* A key has data for the abstract store exactly when it is kept.          *)
LEMMA StoredIsKept ==
    ASSUME Consistent(items, lru, used)
    PROVE  LRU!Stored = KeptOf(items, lru)
<1> DEFINE kept == KeptOf(items, lru)
<1>1. ASSUME NEW k \in Keys, k \in kept PROVE ContentKept[k] # Nil
  <2>1. k \in Listed(lru)
    BY <1>1, ConsistentFacts DEF KeptOf
  <2>2. items[k].data \in Data
    BY <2>1, ConsistentFacts
  <2> HIDE DEF kept
  <2>3. ContentKept[k] = items[k].data
    BY <1>1, MappedState DEF ContentOf, kept
  <2> QED
    BY <2>2, <2>3, NilDataAssumption
<1>2. kept \subseteq Keys
  BY DEF KeptOf
<1>3. ASSUME NEW k \in Keys, k \notin kept PROVE ContentKept[k] = Nil
  BY <1>3, MappedState DEF ContentOf
<1> HIDE DEF kept
<1>4. LRU!Stored = kept
  BY <1>1, <1>2, <1>3 DEF LRU!Stored
<1> QED
  BY <1>4 DEF kept

LEMMA InitRefines == InitAnswer => LRU!Init
<1> SUFFICES ASSUME InitAnswer PROVE LRU!Init
  OBVIOUS
<1>1. items = [k \in Keys |-> Nil] /\ lru = << >> /\ answer = Nil
  BY DEF InitAnswer, Init
<1>2. Kept = {}
  BY <1>1 DEF Kept
<1> QED
  BY <1>1, <1>2 DEF LRU!Init, ContentKept, NewerKept

(* Between calls all of the list is kept, before and after.                *)
LEMMA BetweenCalls ==
    /\ IInv /\ mu = Free => KeptOf(items, lru) = Listed(lru)
    /\ IInv' /\ mu' = Free => KeptOf(items', lru') = Listed(lru')
<1>1. IInv /\ mu = Free => Consistent(items, lru, used) /\ (used <= MaxBytes \/ Len(lru) <= 1)
  BY IInvIsConsistent DEF IInv, WithinCapacity
<1>2. IInv' /\ mu' = Free => Consistent(items', lru', used') /\ (used' <= MaxBytes \/ Len(lru') <= 1)
  BY IInvIsConsistent DEF IInv, WithinCapacity
<1>3. IInv /\ mu = Free => KeptOf(items, lru) = Listed(lru)
  BY <1>1, AllKept
<1>4. IInv' /\ mu' = Free => KeptOf(items', lru') = Listed(lru')
  BY <1>2, AllKept
<1> QED
  BY <1>3, <1>4

(* A Get is the abstract lookup: a hit makes its key newer than every      *)
(* other, a miss changes nothing, and what is found is what is stored.     *)
LEMMA GetRefines ==
    ASSUME IInv, IInv', NEW k \in Keys, GetAnswer(k)
    PROVE  LRU!Find(k)
<1>1. /\ mu = Free /\ mu' = Free /\ items' = items
      /\ Get(k)
      /\ answer' = [key |-> k, found |-> IF items[k] = Nil THEN Nil ELSE items[k].data]
  BY DEF GetAnswer, Get
<1>2. Consistent(items, lru, used) /\ Consistent(items', lru', used')
  BY IInvIsConsistent
<1>3. /\ items \in [Keys -> Entry \cup {Nil}] /\ lru \in Seq(Entry) /\ DistinctKeys(lru)
      /\ Listed(lru) = {j \in Keys : items[j] # Nil}
      /\ Listed(lru') = {j \in Keys : items[j] # Nil}
      /\ \A j \in Listed(lru) : j \in Keys /\ items[j] \in Entry /\ items[j].k = j
  BY <1>1, <1>2, ConsistentFacts
<1>4. KeptOf(items, lru) = Listed(lru) /\ KeptOf(items', lru') = Listed(lru)
  BY <1>1, <1>3, BetweenCalls
<1>5. LRU!Stored = Listed(lru)
  BY <1>2, <1>4, StoredIsKept
<1>6. ContentKept' = ContentKept
  BY <1>1, <1>4, MappedState DEF ContentOf
<1>7. answer' = [key |-> k, found |-> ContentKept[k]]
  BY <1>1, <1>3, <1>4, MappedState DEF ContentOf
<1>8. NewerKept = [j \in Keys |-> IF j \in Listed(lru) THEN UpTo(lru, j) \ {j} ELSE {}]
  BY <1>4, MappedState DEF NewerOf
<1>9. NewerKept' = [j \in Keys |-> IF j \in Listed(lru) THEN UpTo(lru', j) \ {j} ELSE {}]
  BY <1>4, MappedState DEF NewerOf
<1>10. CASE items[k] = Nil
  <2>1. lru' = lru /\ k \notin LRU!Stored
    BY <1>1, <1>3, <1>5, <1>10 DEF Get
  <2>2. NewerKept' = NewerKept
    BY <2>1, <1>8, <1>9
  <2> QED
    BY <2>1, <2>2, <1>6, <1>7 DEF LRU!Find
<1>11. CASE items[k] # Nil
  <2> DEFINE e == items[k]
             r == Without(lru, e)
  <2>1. k \in Listed(lru) /\ e \in Entry /\ e.k = k /\ lru' = Cons(e, r)
    BY <1>1, <1>3, <1>11 DEF Get
  <2>2. PICK i \in 1..Len(lru) : lru[i] = e /\ IsRemoval(lru, i, r)
    BY <1>11, WithoutIsRemoval DEF IInv
  <2> HIDE DEF e, r
  <2>3. r \in Seq(Entry) /\ IsPush(r, e, lru')
    BY <2>1, <2>2, ConsIsPush DEF IsRemoval
  <2>4. Listed(r) = Listed(lru) \ {k}
    BY <1>3, <2>1, <2>2, ListedRemoval
  <2>5. UpTo(lru', k) = {k} /\ \A j \in Listed(r) : UpTo(lru', j) = {k} \cup UpTo(r, j)
    <3>1. e.k = k /\ e.k \notin Listed(r)
      BY <2>1, <2>4
    <3>2. KeyAhead(r, e.k, lru')
      BY <3>1, <2>3, UpToPush
    <3> QED
      BY <3>1, <3>2 DEF KeyAhead
  <2>6. \A j : j # k => UpTo(r, j) = UpTo(lru, j) \ {k}
    BY <1>3, <2>1, <2>2, UpToRemoval
  <2>7. ASSUME NEW j \in Keys PROVE NewerKept'[j] = LRU!Touched(k)[j]
    <3>1. LRU!Touched(k)[j] = IF j = k \/ j \notin Listed(lru) THEN {} ELSE NewerKept[j] \cup {k}
      BY <1>5 DEF LRU!Touched
    <3>2. CASE j = k
      BY <3>1, <3>2, <2>5, <1>9
    <3>3. CASE j \notin Listed(lru)
      BY <3>1, <3>3, <1>9
    <3>4. CASE j # k /\ j \in Listed(lru)
      <4>1. UpTo(lru', j) = {k} \cup (UpTo(lru, j) \ {k})
        BY <3>4, <2>4, <2>5, <2>6
      <4>2. NewerKept'[j] = UpTo(lru', j) \ {j} /\ NewerKept[j] = UpTo(lru, j) \ {j}
        BY <3>4, <1>8, <1>9
      <4> QED
        BY <4>1, <4>2, <3>1, <3>4
    <3> QED
      BY <3>2, <3>3, <3>4
  <2>8. NewerKept' = LRU!Touched(k)
    <3>1. NewerKept' = [j \in Keys |-> NewerKept'[j]]
      BY <1>9
    <3>2. LRU!Touched(k) = [j \in Keys |-> LRU!Touched(k)[j]]
      BY DEF LRU!Touched
    <3> QED
      BY <3>1, <3>2, <2>7
  <2> QED
    BY <2>1, <2>8, <1>5, <1>6, <1>7 DEF LRU!Find
<1> QED
  BY <1>10, <1>11 DEF SameKept
(* The first step of a Set is the abstract Put: what its loop is still to  *)
(* evict is gone at once.                                                  *)
LEMMA SetRefines ==
    ASSUME IInv, IInv', NEW c \in Callers, NEW k \in Keys, NEW d \in Data,
           Set(c, k, d), UNCHANGED answer
    PROVE  LRU!Put(k, d)
<1> DEFINE e == [k |-> k, data |-> d]
           r == IF items[k] = Nil THEN lru ELSE Without(lru, items[k])
           listed == Listed(lru)
           content == [ContentKept EXCEPT ![k] = d]
           newer == LRU!Touched(k)
           keep == {k} \cup {j \in LRU!Stored : LRU!Bytes(content, newer[j] \cup {j}) <= MaxBytes}
<1>1. /\ mu = Free /\ lru' = Cons(e, r) /\ items' = [items EXCEPT ![k] = e]
      /\ e \in Entry /\ e.k = k /\ e.data = d
  BY DEF Set, Entry
<1>2. Consistent(items, lru, used) /\ Consistent(items', lru', used')
  BY IInvIsConsistent
<1>3. /\ items \in [Keys -> Entry \cup {Nil}] /\ lru \in Seq(Entry) /\ DistinctKeys(lru)
      /\ listed = {j \in Keys : items[j] # Nil}
      /\ \A j \in listed : j \in Keys /\ items[j] \in Entry /\ items[j].k = j
  BY <1>2, ConsistentFacts
<1>4. /\ Listed(lru') = {j \in Keys : items'[j] # Nil}
      /\ \A j \in Listed(lru') : j \in Keys /\ items'[j] \in Entry
  BY <1>2, ConsistentFacts
<1>5. KeptOf(items, lru) = listed /\ LRU!Stored = listed
  BY <1>1, <1>2, BetweenCalls, StoredIsKept
<1>6. /\ r \in Seq(Entry) /\ Listed(r) = listed \ {k}
      /\ \A j : j # k => UpTo(r, j) \cup {k} = UpTo(lru, j) \cup {k}
  <2>1. CASE items[k] = Nil
    <3>1. k \notin listed /\ r = lru
      BY <2>1, <1>3
    <3> QED
      BY <3>1, <1>3
  <2>2. CASE items[k] # Nil
    <3>1. PICK i \in 1..Len(lru) : lru[i] = items[k] /\ IsRemoval(lru, i, Without(lru, items[k]))
      BY <2>2, WithoutIsRemoval DEF IInv
    <3>2. lru[i].k = k /\ IsRemoval(lru, i, r)
      BY <2>2, <3>1, <1>3
    <3> HIDE DEF r
    <3>3. Listed(r) = listed \ {k}
      BY <3>2, <1>3, ListedRemoval
    <3>4. \A j : j # k => UpTo(r, j) = UpTo(lru, j) \ {k}
      BY <3>2, <1>3, UpToRemoval
    <3> QED
      BY <3>2, <3>3, <3>4 DEF IsRemoval
  <2> QED
    BY <2>1, <2>2
<1> HIDE DEF r, e, listed
<1>7. /\ IsPush(r, e, lru') /\ lru'[1].k = k
      /\ Listed(lru') = {k} \cup listed
      /\ UpTo(lru', k) = {k}
      /\ \A j \in listed : j # k => UpTo(lru', j) = UpTo(lru, j) \cup {k}
  <2>1. IsPush(r, e, lru')
    BY <1>1, <1>6, ConsIsPush
  <2>2. lru'[1].k = k
    BY <2>1, <1>1 DEF IsPush
  <2>3. Listed(lru') = {k} \cup listed
    <3>1. Listed(lru') = {e.k} \cup Listed(r)
      BY <2>1, <1>6, ListedPush
    <3> QED
      BY <3>1, <1>1, <1>6
  <2>4. e.k \notin Listed(r)
    BY <1>1, <1>6
  <2>7. KeyAhead(r, e.k, lru')
    BY <2>1, <2>4, <1>6, UpToPush
  <2>5. /\ UpTo(lru', e.k) = {e.k}
        /\ \A j \in Listed(r) : UpTo(lru', j) = {e.k} \cup UpTo(r, j)
    BY <2>7 DEF KeyAhead
  <2>6. ASSUME NEW j \in listed, j # k PROVE UpTo(lru', j) = UpTo(lru, j) \cup {k}
    <3>1. UpTo(lru', j) = {k} \cup UpTo(r, j)
      BY <2>5, <2>6, <1>1, <1>6
    <3>2. UpTo(r, j) \cup {k} = UpTo(lru, j) \cup {k}
      BY <2>6, <1>6
    <3> QED
      BY <3>1, <3>2
  <2> QED
    BY <2>1, <2>2, <2>3, <2>5, <2>6, <1>1
<1>8. NewerKept = [j \in Keys |-> IF j \in listed THEN UpTo(lru, j) \ {j} ELSE {}]
  BY <1>5, MappedState DEF NewerOf
<1>9. ASSUME NEW j \in Keys
      PROVE  newer[j] = IF j = k \/ j \notin listed THEN {} ELSE UpTo(lru', j) \ {j}
  <2>1. newer[j] = IF j = k \/ j \notin listed THEN {} ELSE NewerKept[j] \cup {k}
    BY <1>5 DEF LRU!Touched
  <2>2. CASE j = k \/ j \notin listed
    BY <2>1, <2>2
  <2>3. CASE j # k /\ j \in listed
    <3>1. NewerKept[j] = UpTo(lru, j) \ {j} /\ UpTo(lru', j) = UpTo(lru, j) \cup {k}
      BY <2>3, <1>7, <1>8
    <3> QED
      BY <2>1, <2>3, <3>1
  <2> QED
    BY <2>2, <2>3
<1>10. ASSUME NEW j \in Listed(lru') PROVE content[j] = items'[j].data /\ j \in Keys
  <2>1. ContentKept = [x \in Keys |-> IF x \in listed THEN items[x].data ELSE Nil]
    BY <1>5, MappedState DEF ContentOf
  <2>2. CASE j = k
    BY <2>1, <2>2, <1>1, <1>3
  <2>3. CASE j # k
    <3>1. j \in listed /\ j \in Keys
      BY <2>3, <1>3, <1>7
    <3> QED
      BY <2>1, <2>3, <3>1, <1>1, <1>3
  <2> QED
    BY <2>2, <2>3
<1> HIDE DEF content, newer
<1>11. ASSUME NEW j \in listed, j # k
       PROVE  /\ newer[j] \cup {j} = UpTo(lru', j)
              /\ LRU!Bytes(content, newer[j] \cup {j}) = BytesIn(items', UpTo(lru', j))
  <2>1. j \in Keys /\ newer[j] = UpTo(lru', j) \ {j}
    BY <1>3, <1>9, <1>11
  <2>2. j \in UpTo(lru', j)
    <3>1. PICK i \in DOMAIN lru' : lru'[i].k = j
      BY <1>7 DEF Listed
    <3>2. i <= i
      BY <1>7, LenProperties DEF IsPush
    <3> QED
      BY <3>1, <3>2, UpToMember
  <2>3. newer[j] \cup {j} = UpTo(lru', j)
    BY <2>1, <2>2
  <2>4. \A x \in UpTo(lru', j) : content[x] = items'[x].data
    BY <1>10, UpToListed
  <2>5. [x \in UpTo(lru', j) |-> Size[content[x]]] = [x \in UpTo(lru', j) |-> Size[items'[x].data]]
    BY <2>4
  <2>6. LRU!Bytes(content, UpTo(lru', j)) = BytesIn(items', UpTo(lru', j))
    <3>1. ASSUME NEW f PROVE LRU!SumFunction(f) = SumFunction(f)
      BY DEF LRU!SumFunction, LRU!SumFunctionOnSet, LRU!FoldFunctionOnSet,
             LRU!MapThenFoldSet, SumFunction, SumFunctionOnSet,
             FoldFunctionOnSet, MapThenFoldSet
    <3> QED
      BY <3>1, <2>5 DEF LRU!Bytes, BytesIn
  <2> QED
    BY <2>3, <2>6
<1>12. keep = KeptOf(items', lru')
  <2>1. ASSUME NEW j PROVE j \in keep <=> j \in KeptOf(items', lru')
    <3>1. CASE j = k
      BY <3>1, <1>4, <1>7 DEF KeptOf
    <3>2. CASE j # k /\ j \in listed
      <4>1. j \in keep <=> BytesIn(items', UpTo(lru', j)) <= MaxBytes
        BY <3>2, <1>5, <1>11
      <4>2. j \in Keys /\ items'[j] # Nil
        BY <3>2, <1>4, <1>7
      <4> QED
        BY <4>1, <4>2, <3>2, <1>7 DEF KeptOf
    <3>3. CASE j # k /\ j \notin listed
      BY <3>3, <1>4, <1>5, <1>7 DEF KeptOf
    <3> QED
      BY <3>1, <3>2, <3>3
  <2> QED
    BY <2>1
<1>13. \A j \in keep : j \in Listed(lru') /\ j \in Keys
  BY <1>4, <1>12 DEF KeptOf
<1> HIDE DEF keep
<1>14. ContentKept' = [j \in Keys |-> IF j \in keep THEN content[j] ELSE Nil]
  <2>1. ContentKept' = [j \in Keys |-> IF j \in keep THEN items'[j].data ELSE Nil]
    BY <1>12, MappedState DEF ContentOf
  <2> QED
    BY <2>1, <1>10, <1>13
<1>15. NewerKept' = [j \in Keys |-> IF j \in keep THEN newer[j] ELSE {}]
  <2>1. NewerKept' = [j \in Keys |-> IF j \in keep THEN UpTo(lru', j) \ {j} ELSE {}]
    BY <1>12, MappedState DEF NewerOf
  <2>2. ASSUME NEW j \in keep PROVE UpTo(lru', j) \ {j} = newer[j]
    BY <2>2, <1>7, <1>9, <1>13
  <2> QED
    BY <2>1, <2>2
<1> QED
  BY <1>14, <1>15 DEF LRU!Put, content, newer, keep

(* A turn of the loop changes nothing for the abstract store.              *)
LEMMA EvictBackStutters ==
    ASSUME IInv, NEW c \in Callers, EvictBack(c), UNCHANGED answer
    PROVE  UNCHANGED <<ContentKept, NewerKept, answer>>
<1> DEFINE last == Len(lru)
<1>1. Consistent(items, lru, used)
  BY IInvIsConsistent
<1>2. lru \in Seq(Entry) /\ used > MaxBytes /\ last > 1 /\ last \in Nat
  BY <1>1, LenProperties DEF EvictBack, OverCapacity, Consistent
<1>3. IsRemoval(lru, last, lru')
  BY <1>2, FrontIsRemoval DEF EvictBack
<1>4. items' = [items EXCEPT ![lru[last].k] = Nil]
  BY DEF EvictBack, Last
<1>5. SameKept(items, lru, items', lru')
  BY <1>1, <1>2, <1>3, <1>4, EvictionKeeps
<1>6. ContentOf(items', lru') = ContentOf(items, lru) /\ NewerOf(items', lru') = NewerOf(items, lru)
  BY <1>5 DEF SameKept, ContentOf, NewerOf
<1> QED
  BY <1>6, MappedState

(* Nor does the unlock.                                                    *)
LEMMA SetReturnStutters ==
    ASSUME NEW c \in Callers, SetReturn(c), UNCHANGED answer
    PROVE  UNCHANGED <<ContentKept, NewerKept, answer>>
<1>1. items' = items /\ lru' = lru
  BY DEF SetReturn
<1> QED
  BY <1>1, MappedState

LEMMA NextRefines ==
    ASSUME IInv, IInv', [NextAnswer]_<<vars, answer>>
    PROVE  [LRU!Next]_<<ContentKept, NewerKept, answer>>
<1>1. ASSUME NEW k \in Keys, GetAnswer(k) PROVE LRU!Next
  BY <1>1, GetRefines DEF LRU!Next
<1>2. ASSUME NEW c \in Callers, NEW k \in Keys, NEW d \in Data, Set(c, k, d),
             UNCHANGED answer
      PROVE  LRU!Next
  BY <1>2, SetRefines DEF LRU!Next
<1>3. ASSUME NEW c \in Callers, EvictBack(c) \/ SetReturn(c), UNCHANGED answer
      PROVE  UNCHANGED <<ContentKept, NewerKept, answer>>
  BY <1>3, EvictBackStutters, SetReturnStutters
<1>4. CASE UNCHANGED <<vars, answer>>
  <2>1. items' = items /\ lru' = lru /\ answer' = answer
    BY <1>4 DEF vars
  <2> QED
    BY <2>1, MappedState
<1> QED
  BY <1>1, <1>2, <1>3, <1>4 DEF NextAnswer

(* The history variable adds no behaviour to the cache.                    *)
LEMMA AnswerOnlyWatches == SpecAnswer => Spec
<1>1. InitAnswer => Init
  BY DEF InitAnswer
<1>2. [NextAnswer]_<<vars, answer>> => [Next]_vars
  BY DEF NextAnswer, GetAnswer, Next
<1> QED
  BY <1>1, <1>2, PTL DEF SpecAnswer, Spec

(* The cache is an LRU store: whatever sequence of lookups, overwrites and *)
(* evictions led here, only the least recently used entries have gone,     *)
(* only because they did not fit, never the newest, and a lookup finds     *)
(* what that store would find.                                             *)
THEOREM CacheIsLRU == SpecAnswer => ImplementsLRU
<1>1. InitAnswer => LRU!Init
  BY InitRefines
<1>2. IInv /\ IInv' /\ [NextAnswer]_<<vars, answer>> => [LRU!Next]_<<ContentKept, NewerKept, answer>>
  BY NextRefines
<1>3. SpecAnswer => []IInv
  BY AnswerOnlyWatches, IInvInvariant
<1> QED
  BY <1>1, <1>2, <1>3, PTL DEF SpecAnswer, ImplementsLRU, LRU!Spec
=============================================================================
