--------------------------- MODULE MakefileProofs ---------------------------
(***************************************************************************)
(* Proofs about modules MakeText and Makefile, for any lines of any        *)
(* tokens, any trees and builds.                                           *)
(*                                                                         *)
(* The first half is about lines: what the rewriting does to a text that   *)
(* is put together of parts, that a line rewritten twice is the line       *)
(* rewritten once, and that no beginning of a rewritten line is changed by *)
(* it (BeginningsStay).  The second is about files.                        *)
(***************************************************************************)
EXTENDS Makefile, SequenceTheorems, FiniteSetTheorems, WellFoundedInduction, TLAPS

(* Least elements. *)
LEMMA Least ==
    ASSUME NEW T, T \subseteq Nat, T # {}
    PROVE  \E m \in T : \A x \in T : m <= x
<1>1. PICK m \in T : \A x \in T : <<x, m>> \notin OpToRel(<, Nat)
  BY NatLessThanWellFounded, WFMin
<1>2. \A x \in T : ~(x < m)
  BY <1>1 DEF OpToRel
<1> QED
  BY <1>2

(* What holds at 0 and goes up to n. *)
LEMMA Climb ==
    ASSUME NEW n \in Nat, NEW S, 0 \in S, \A j \in 0..n-1 : j \in S => j + 1 \in S
    PROVE  n \in S /\ \A j \in 0..n : j \in S
<1> SUFFICES ASSUME NEW j \in 0..n, j \notin S
             PROVE  FALSE
  OBVIOUS
<1> DEFINE T == {k \in 0..n : k \notin S}
<1>1. PICK m \in T : \A x \in T : m <= x
  <2>1. T \subseteq Nat /\ T # {}
    OBVIOUS
  <2> HIDE DEF T
  <2> QED
    BY <2>1, Least
<1>2. m \in 1..n /\ m \notin S
  OBVIOUS
<1>3. m - 1 \in S
  <2>1. m - 1 \in 0..n-1 /\ ~(m <= m - 1)
    BY <1>2
  <2>2. m - 1 \in 0..n
    BY <2>1
  <2> QED
    BY <1>1, <2>1, <2>2
<1>4. m - 1 + 1 = m
  BY <1>2
<1> QED
  BY <1>2, <1>3, <1>4

(* A value and a step from each value to the next determine a sequence. *)
LEMMA Recursion ==
    ASSUME NEW V, NEW c \in V, NEW step \in [V -> V]
    PROVE  \E f \in [Nat -> V] : f[0] = c /\ \A k \in Nat : f[k + 1] = step[f[k]]
<1> DEFINE Steps(h, m) == h[0] = c /\ \A k \in 0..m-1 : h[k + 1] = step[h[k]]
<1>1. ASSUME NEW n \in Nat
      PROVE  \E h \in [0..n -> V] : Steps(h, n)
  <2> DEFINE S == {m \in 0..n : \E h \in [0..m -> V] : Steps(h, m)}
  <2>1. 0 \in S
    <3> DEFINE h == [k \in 0..0 |-> c]
    <3>1. h \in [0..0 -> V] /\ Steps(h, 0) /\ 0 \in 0..n
      OBVIOUS
    <3> QED
      BY <3>1
  <2>2. ASSUME NEW m \in 0..n-1, m \in S
        PROVE  m + 1 \in S
    <3>1. PICK h \in [0..m -> V] : Steps(h, m)
      BY <2>2
    <3> DEFINE v == step[h[m]]
               e == [k \in 0..m+1 |-> IF k = m + 1 THEN v ELSE h[k]]
    <3>2. v \in V
      OBVIOUS
    <3>3. e \in [0..m+1 -> V] /\ e[m + 1] = v /\ \A k \in 0..m : e[k] = h[k]
      BY <3>2
    <3> HIDE DEF e
    <3>4. ASSUME NEW k \in 0..m
          PROVE  e[k + 1] = step[e[k]]
      <4>1. CASE k = m
        <5>1. e[k] = h[m]
          BY <3>3, <4>1
        <5> QED
          BY <3>3, <4>1, <5>1
      <4>2. CASE k # m
        <5>1. k \in 0..m-1 /\ k + 1 \in 0..m
          BY <4>2
        <5>2. h[k + 1] = step[h[k]]
          BY <3>1, <5>1
        <5>3. e[k + 1] = h[k + 1] /\ e[k] = h[k]
          BY <3>3, <5>1
        <5> QED
          BY <5>2, <5>3
      <4> QED
        BY <4>1, <4>2
    <3>5. Steps(e, m + 1) /\ m + 1 \in 0..n
      <4>1. e[0] = c
        BY <3>1, <3>3
      <4>2. 0..(m + 1)-1 = 0..m
        OBVIOUS
      <4> QED
        BY <3>4, <4>1, <4>2
    <3> HIDE DEF Steps
    <3> QED
      BY <3>3, <3>5
  <2>3. n \in S
    <3> HIDE DEF S
    <3> QED
      BY <2>1, <2>2, Climb
  <2> QED
    BY <2>3
<1> DEFINE D(n) == CHOOSE h \in [0..n -> V] : Steps(h, n)
<1>2. ASSUME NEW n \in Nat
      PROVE  D(n) \in [0..n -> V] /\ Steps(D(n), n)
  <2> HIDE DEF Steps
  <2> QED
    BY <1>1
<1> HIDE DEF D
<1>3. ASSUME NEW n \in Nat
      PROVE  D(n + 1)[n] = D(n)[n]
  <2> DEFINE S == {k \in 0..n : D(n + 1)[k] = D(n)[k]}
  <2>1. 0 \in S
    BY <1>2
  <2>2. ASSUME NEW k \in 0..n-1, k \in S
        PROVE  k + 1 \in S
    <3>1. k \in 0..(n + 1)-1 /\ k + 1 \in 0..n
      OBVIOUS
    <3>2. D(n + 1)[k + 1] = step[D(n + 1)[k]]
      BY <1>2, <3>1
    <3>3. D(n)[k + 1] = step[D(n)[k]]
      BY <1>2
    <3> QED
      BY <2>2, <3>1, <3>2, <3>3
  <2>3. n \in S
    <3> HIDE DEF S
    <3> QED
      BY <2>1, <2>2, Climb
  <2> QED
    BY <2>3
<1> DEFINE f == [n \in Nat |-> D(n)[n]]
<1>4. f \in [Nat -> V]
  BY <1>2
<1>5. f[0] = c
  BY <1>2
<1>6. ASSUME NEW k \in Nat
      PROVE  f[k + 1] = step[f[k]]
  <2>1. k + 1 \in Nat /\ k \in 0..(k + 1)-1
    OBVIOUS
  <2>2. D(k + 1)[k + 1] = step[D(k + 1)[k]]
    BY <1>2, <2>1
  <2>3. f[k + 1] = D(k + 1)[k + 1] /\ f[k] = D(k)[k]
    BY <2>1
  <2> HIDE DEF f
  <2> QED
    BY <1>3, <2>2, <2>3
<1> HIDE DEF f
<1> QED
  BY <1>4, <1>5, <1>6

-----------------------------------------------------------------------------
(* Texts.  ++ is \o, of which the lemmas say all that is needed below. *)

s ++ t == s \o t

LEMMA TextIs ==
    ASSUME NEW s \in Texts
    PROVE  Len(s) \in Nat /\ DOMAIN s = 1..Len(s) /\ \A k \in 1..Len(s) : s[k] \in Tokens
  BY LenProperties, ElementOfSeq DEF Texts

LEMMA TextsEqual ==
    ASSUME NEW s \in Texts, NEW t \in Texts, Len(s) = Len(t), \A k \in 1..Len(s) : s[k] = t[k]
    PROVE  s = t
  BY SeqEqual DEF Texts

LEMMA ConcatIs ==
    ASSUME NEW s \in Texts, NEW t \in Texts
    PROVE  /\ s ++ t \in Texts /\ Len(s ++ t) = Len(s) + Len(t)
           /\ \A k \in 1..Len(s) : (s ++ t)[k] = s[k]
           /\ \A k \in 1..Len(t) : (s ++ t)[Len(s) + k] = t[k]
<1>1. Len(s) \in Nat /\ Len(t) \in Nat
  BY TextIs
<1>2. /\ s ++ t \in Texts /\ Len(s ++ t) = Len(s) + Len(t)
      /\ \A k \in 1..Len(s) + Len(t) : (s ++ t)[k] = IF k <= Len(s) THEN s[k] ELSE t[k - Len(s)]
  <2>1. /\ s \o t \in Seq(Tokens) /\ Len(s \o t) = Len(s) + Len(t)
        /\ \A k \in 1..Len(s) + Len(t) : (s \o t)[k] = IF k <= Len(s) THEN s[k] ELSE t[k - Len(s)]
    BY ConcatProperties DEF Texts
  <2> QED
    BY <2>1 DEF Texts, ++
<1> DEFINE r == s ++ t
<1> HIDE DEF r
<1>3. \A k \in 1..Len(s) : r[k] = s[k]
  BY <1>1, <1>2 DEF r
<1>4. ASSUME NEW k \in 1..Len(t)
      PROVE  r[Len(s) + k] = t[k]
  <2>1. Len(s) + k \in 1..Len(s) + Len(t) /\ ~(Len(s) + k <= Len(s)) /\ Len(s) + k - Len(s) = k
    BY <1>1
  <2> QED
    BY <1>2, <2>1 DEF r
<1> QED
  BY <1>2, <1>3, <1>4 DEF r

LEMMA SubIs ==
    ASSUME NEW s \in Texts, NEW a \in Nat, NEW b \in Nat, a >= 1, b <= Len(s), a <= b + 1
    PROVE  /\ SubSeq(s, a, b) \in Texts /\ Len(SubSeq(s, a, b)) = b + 1 - a
           /\ \A k \in 1..b + 1 - a : SubSeq(s, a, b)[k] = s[a - 1 + k]
<1>1. \A i \in a..b : s[i] \in Tokens
  BY TextIs
<1>2. /\ SubSeq(s, a, b) \in Seq(Tokens)
      /\ Len(SubSeq(s, a, b)) = IF a <= b THEN b - a + 1 ELSE 0
      /\ \A i \in 1..b - a + 1 : SubSeq(s, a, b)[i] = s[a + i - 1]
  BY <1>1, SubSeqProperties
<1> DEFINE r == SubSeq(s, a, b)
<1> HIDE DEF r
<1>3. r \in Texts
  BY <1>2 DEF Texts, r
<1>4. Len(r) = b + 1 - a
  BY <1>2 DEF r
<1>5. ASSUME NEW k \in 1..b + 1 - a
      PROVE  r[k] = s[a - 1 + k]
  <2>1. k \in 1..b - a + 1 /\ a + k - 1 = a - 1 + k
    OBVIOUS
  <2> QED
    BY <1>2, <2>1 DEF r
<1> QED
  BY <1>3, <1>4, <1>5 DEF r

LEMMA Joined ==
    ASSUME NEW s \in Texts, NEW t \in Texts
    PROVE  s ++ t \in Texts /\ Len(s ++ t) = Len(s) + Len(t)
  BY ConcatIs

LEMMA NothingIs ==
    <<>> \in Texts /\ Len(<<>>) = 0 /\ \A s \in Texts : Len(s) = 0 <=> s = <<>>
  BY EmptySeq DEF Texts

LEMMA OneIs ==
    ASSUME NEW t \in Tokens
    PROVE  <<t>> \in Texts /\ Len(<<t>>) = 1 /\ <<t>>[1] = t
  BY DEF Texts

LEMMA ConcatAgain ==
    ASSUME NEW r \in Texts, NEW s \in Texts, NEW t \in Texts
    PROVE  (r ++ s) ++ t = r ++ (s ++ t)
  BY DEF Texts, ++

LEMMA ConcatNothing ==
    ASSUME NEW s \in Texts
    PROVE  s ++ <<>> = s /\ <<>> ++ s = s
  BY DEF Texts, ++

(* A text is its beginning and its end. *)
LEMMA SplitAt ==
    ASSUME NEW s \in Texts, NEW k \in 0..Len(s)
    PROVE  s = SubSeq(s, 1, k) ++ SubSeq(s, k + 1, Len(s))
<1> DEFINE a == SubSeq(s, 1, k)
           b == SubSeq(s, k + 1, Len(s))
<1>1. Len(s) \in Nat /\ k \in Nat /\ k <= Len(s) /\ k + 1 \in Nat /\ k + 1 >= 1
  BY TextIs
<1>2. a \in Texts /\ Len(a) = k /\ \A i \in 1..k : a[i] = s[i]
  <2>1. /\ a \in Texts /\ Len(a) = k + 1 - 1
        /\ \A i \in 1..k + 1 - 1 : a[i] = s[1 - 1 + i]
    BY <1>1, SubIs
  <2> HIDE DEF a
  <2> QED
    BY <1>1, <2>1
<1>3. b \in Texts /\ Len(b) = Len(s) - k /\ \A i \in 1..Len(s) - k : b[i] = s[k + i]
  <2>1. /\ b \in Texts /\ Len(b) = Len(s) + 1 - (k + 1)
        /\ \A i \in 1..Len(s) + 1 - (k + 1) : b[i] = s[k + 1 - 1 + i]
    BY <1>1, SubIs
  <2> HIDE DEF b
  <2>2. Len(s) + 1 - (k + 1) = Len(s) - k /\ \A i \in Int : k + 1 - 1 + i = k + i
    BY <1>1
  <2> QED
    BY <2>1, <2>2
<1> HIDE DEF a, b
<1>4. /\ a ++ b \in Texts /\ Len(a ++ b) = Len(s)
      /\ \A i \in 1..k : (a ++ b)[i] = s[i]
      /\ \A i \in 1..Len(s) - k : (a ++ b)[k + i] = s[k + i]
  <2>1. /\ a ++ b \in Texts /\ Len(a ++ b) = Len(a) + Len(b)
        /\ \A i \in 1..Len(a) : (a ++ b)[i] = a[i]
        /\ \A i \in 1..Len(b) : (a ++ b)[Len(a) + i] = b[i]
    BY <1>2, <1>3, ConcatIs
  <2>2. Len(a) + Len(b) = Len(s)
    BY <1>1, <1>2, <1>3
  <2> QED
    BY <1>2, <1>3, <2>1, <2>2
<1> DEFINE r == a ++ b
<1> HIDE DEF r
<1>5. ASSUME NEW i \in 1..Len(s)
      PROVE  s[i] = r[i]
  <2>1. CASE i <= k
    BY <1>1, <1>4, <2>1 DEF r
  <2>2. CASE i > k
    <3>1. i - k \in 1..Len(s) - k /\ k + (i - k) = i
      BY <1>1, <2>2
    <3> QED
      BY <1>4, <3>1 DEF r
  <2> QED
    BY <1>1, <2>1, <2>2
<1>6. s = r
  BY <1>4, <1>5, TextsEqual DEF r
<1> QED
  BY <1>6 DEF r, a, b

-----------------------------------------------------------------------------
(* Expressions that are open at a place. *)

(* Least element of a set of positions. *)
LEMMA MinIs ==
    ASSUME NEW T, T \subseteq Nat, T # {}
    PROVE  Min(T) \in T /\ \A x \in T : Min(T) <= x
<1>1. \E m \in T : \A x \in T : m <= x
  BY Least
<1> QED
  BY <1>1 DEF Min

Ups(s) == {i \in Nat : s[i] = "$("}
Downs(s) == {i \in Nat : s[i] = ")"}
Count(Q, p, k) == Cardinality(Q \cap (p..k))
Weight(t) == IF t = "$(" THEN 1 ELSE IF t = ")" THEN -1 ELSE 0

(* Expressions opened in the first k tokens of s and not closed there. *)
Depth(s, k) == Count(Ups(s), 1, k) - Count(Downs(s), 1, k)

LEMMA CountSteps ==
    ASSUME NEW Q, NEW p \in Nat, NEW k \in Nat, p <= k + 1
    PROVE  /\ Count(Q, p, k) \in Nat /\ (k < p => Count(Q, p, k) = 0)
           /\ Count(Q, p, k + 1) = Count(Q, p, k) + (IF k + 1 \in Q THEN 1 ELSE 0)
<1> DEFINE A == Q \cap (p..k)
           B == Q \cap (p..k + 1)
<1>1. IsFiniteSet(A)
  <2>1. IsFiniteSet(p..k)
    BY FS_Interval
  <2>2. A \in SUBSET (p..k)
    OBVIOUS
  <2> QED
    BY <2>1, <2>2, FS_Subset
<1>2. Cardinality(A) \in Nat
  BY <1>1, FS_CardinalityType
<1>3. k < p => A = {}
  OBVIOUS
<1>4. k + 1 \notin A
  OBVIOUS
<1>5. Count(Q, p, k) = Cardinality(A) /\ Count(Q, p, k + 1) = Cardinality(B)
  BY DEF Count
<1>6. B = IF k + 1 \in Q THEN A \cup {k + 1} ELSE A
  OBVIOUS
<1> HIDE DEF A, B
<1>7. Cardinality(B) = Cardinality(A) + (IF k + 1 \in Q THEN 1 ELSE 0)
  BY <1>1, <1>2, <1>4, <1>6, FS_AddElement
<1>8. k < p => Cardinality(A) = 0
  BY <1>3, FS_EmptySet
<1> QED
  BY <1>2, <1>5, <1>7, <1>8

LEMMA DepthSteps ==
    ASSUME NEW s
    PROVE  /\ Depth(s, 0) = 0
           /\ \A k \in Nat : Depth(s, k) \in Int /\ Depth(s, k + 1) = Depth(s, k) + Weight(s[k + 1])
<1>1. ASSUME NEW k \in Nat
      PROVE  /\ Count(Ups(s), 1, k) \in Nat /\ (k < 1 => Count(Ups(s), 1, k) = 0)
             /\ Count(Ups(s), 1, k + 1) = Count(Ups(s), 1, k) + (IF k + 1 \in Ups(s) THEN 1 ELSE 0)
             /\ Count(Downs(s), 1, k) \in Nat /\ (k < 1 => Count(Downs(s), 1, k) = 0)
             /\ Count(Downs(s), 1, k + 1) = Count(Downs(s), 1, k) + (IF k + 1 \in Downs(s) THEN 1 ELSE 0)
  BY CountSteps
<1>2. \A k \in Nat : (k + 1 \in Ups(s) <=> s[k + 1] = "$(") /\ (k + 1 \in Downs(s) <=> s[k + 1] = ")")
  BY DEF Ups, Downs
<1>3. Depth(s, 0) = 0
  <2>1. Count(Ups(s), 1, 0) = 0 /\ Count(Downs(s), 1, 0) = 0
    BY <1>1
  <2> QED
    BY <2>1 DEF Depth
<1>4. ASSUME NEW k \in Nat
      PROVE  Depth(s, k) \in Int /\ Depth(s, k + 1) = Depth(s, k) + Weight(s[k + 1])
  <2> DEFINE u == Count(Ups(s), 1, k)
             d == Count(Downs(s), 1, k)
             up == IF k + 1 \in Ups(s) THEN 1 ELSE 0
             down == IF k + 1 \in Downs(s) THEN 1 ELSE 0
  <2>1. u \in Nat /\ d \in Nat /\ Depth(s, k) = u - d
    BY <1>1 DEF Depth
  <2>2. Depth(s, k + 1) = (u + up) - (d + down)
    BY <1>1 DEF Depth
  <2>3. Weight(s[k + 1]) = up - down /\ up \in Nat /\ down \in Nat
    BY <1>2 DEF Weight
  <2> HIDE DEF u, d, up, down
  <2> QED
    BY <2>1, <2>2, <2>3
<1> QED
  BY <1>3, <1>4

LEMMA WeightIs ==
    \A t : Weight(t) \in {-1, 0, 1} /\ (Weight(t) = 1 <=> t = "$(") /\ (Weight(t) = -1 <=> t = ")")
  BY DEF Weight

(* Equal tokens change the depth equally. *)
LEMMA DepthSame ==
    ASSUME NEW s, NEW t, NEW a \in Nat, NEW n \in Nat, \A k \in 1..n : s[a + k] = t[k]
    PROVE  \A k \in 0..n : Depth(s, a + k) = Depth(s, a) + Depth(t, k)
<1> DEFINE S == {k \in 0..n : Depth(s, a + k) = Depth(s, a) + Depth(t, k)}
<1>1. 0 \in S
  <2>1. Depth(s, a) \in Int
    BY DepthSteps
  <2>2. Depth(t, 0) = 0
    BY DepthSteps
  <2>3. a + 0 = a /\ 0 \in 0..n
    OBVIOUS
  <2> QED
    BY <2>1, <2>2, <2>3
<1>2. ASSUME NEW j \in 0..n-1, j \in S
      PROVE  j + 1 \in S
  <2>1. j \in Nat /\ a + j \in Nat /\ j + 1 \in 1..n /\ a + j + 1 = a + (j + 1)
    OBVIOUS
  <2>2. /\ Depth(s, a + j + 1) = Depth(s, a + j) + Weight(s[a + j + 1])
        /\ Depth(t, j + 1) = Depth(t, j) + Weight(t[j + 1])
        /\ Depth(s, a) \in Int /\ Depth(t, j) \in Int /\ Depth(s, a + j) \in Int
    BY <2>1, DepthSteps
  <2>3. s[a + j + 1] = t[j + 1]
    BY <2>1
  <2>4. Weight(t[j + 1]) \in Int
    BY WeightIs
  <2>5. Depth(s, a + j) = Depth(s, a) + Depth(t, j)
    BY <1>2
  <2>6. Depth(s, a + (j + 1)) = Depth(s, a) + Depth(t, j + 1)
    BY <2>1, <2>2, <2>3, <2>4, <2>5
  <2> QED
    BY <2>1, <2>6
<1>3. \A k \in 0..n : k \in S
  <2> HIDE DEF S
  <2> QED
    BY <1>1, <1>2, Climb
<1> QED
  BY <1>3

(* No expression opens or closes in between. *)
LEMMA DepthFlat ==
    ASSUME NEW s, NEW a \in Nat, NEW n \in Nat, \A k \in a+1..n : s[k] # "$(" /\ s[k] # ")"
    PROVE  \A k \in a..n : Depth(s, k) = Depth(s, a)
<1> DEFINE S == {k \in 0..n-a : Depth(s, a + k) = Depth(s, a)}
<1>0. CASE n < a
  BY <1>0
<1>1. CASE n >= a
  <2>1. 0 \in S
    BY <1>1
  <2>2. ASSUME NEW j \in 0..(n-a)-1, j \in S
        PROVE  j + 1 \in S
    <3>1. a + j \in Nat /\ a + j + 1 \in a+1..n /\ a + j + 1 = a + (j + 1) /\ j + 1 \in 0..n-a
      BY <1>1
    <3>2. Depth(s, a + j + 1) = Depth(s, a + j) + Weight(s[a + j + 1]) /\ Depth(s, a + j) \in Int
      BY <3>1, DepthSteps
    <3>3. Weight(s[a + j + 1]) = 0
      BY <3>1 DEF Weight
    <3>4. Depth(s, a + j) = Depth(s, a)
      BY <2>2
    <3>5. Depth(s, a + (j + 1)) = Depth(s, a)
      BY <3>1, <3>2, <3>3, <3>4
    <3> QED
      BY <3>1, <3>5
  <2>3. \A k \in 0..n-a : k \in S
    <3>1. n - a \in Nat
      BY <1>1
    <3> HIDE DEF S
    <3> QED
      BY <2>1, <2>2, <3>1, Climb
  <2>4. ASSUME NEW k \in a..n
        PROVE  Depth(s, k) = Depth(s, a)
    <3>1. k - a \in 0..n-a /\ a + (k - a) = k
      OBVIOUS
    <3> QED
      BY <2>3, <3>1
  <2> QED
    BY <2>4
<1> QED
  BY <1>0, <1>1
-----------------------------------------------------------------------------
(* What a text adds to the depth, and how deep it goes at least. *)

Net(s) == Depth(s, Len(s))
Above(s, d) == \A k \in 0..Len(s) : Depth(s, k) >= d

(* Inside, as much is closed as is opened, and nothing before it is opened. *)
Balanced(s) == Above(s, 0) /\ Net(s) = 0

LEMMA NetIs ==
    ASSUME NEW s \in Texts
    PROVE  Net(s) \in Int /\ \A k \in 0..Len(s) : Depth(s, k) \in Int
  BY TextIs, DepthSteps DEF Net

(* A beginning is as deep by itself as in what it begins. *)
LEMMA DepthConcat ==
    ASSUME NEW s \in Texts, NEW t \in Texts
    PROVE  /\ \A k \in 0..Len(s) : Depth(s ++ t, k) = Depth(s, k)
           /\ \A k \in 0..Len(t) : Depth(s ++ t, Len(s) + k) = Net(s) + Depth(t, k)
<1>0. PICK r : r = s ++ t
  OBVIOUS
<1>1. /\ Len(s) \in Nat /\ Len(t) \in Nat
      /\ \A k \in 1..Len(s) : r[k] = s[k]
      /\ \A k \in 1..Len(t) : r[Len(s) + k] = t[k]
  BY <1>0, ConcatIs, TextIs
<1>2. ASSUME NEW k \in 0..Len(s)
      PROVE  Depth(r, k) = Depth(s, k)
  <2>1. \A i \in 1..Len(s) : r[0 + i] = s[i]
    BY <1>1
  <2>2. Depth(r, 0 + k) = Depth(r, 0) + Depth(s, k)
    BY <1>1, <2>1, DepthSame
  <2>3. Depth(r, 0) = 0
    BY DepthSteps
  <2>4. Depth(s, k) \in Int /\ 0 + k = k
    BY NetIs
  <2> QED
    BY <2>2, <2>3, <2>4
<1>3. Depth(r, Len(s)) = Net(s)
  BY <1>1, <1>2 DEF Net
<1>4. \A k \in 0..Len(t) : Depth(r, Len(s) + k) = Depth(r, Len(s)) + Depth(t, k)
  <2>1. PICK a \in Nat, n \in Nat : n = Len(t) /\ a = Len(s)
    BY <1>1
  <2>2. \A k \in 1..n : r[a + k] = t[k]
    BY <1>1, <2>1
  <2>3. ASSUME NEW k \in 0..n
        PROVE  Depth(r, a + k) = Depth(r, a) + Depth(t, k)
    BY <2>2, DepthSame
  <2> QED
    BY <2>1, <2>3
<1> QED
  BY <1>0, <1>2, <1>3, <1>4

LEMMA NetConcat ==
    ASSUME NEW s \in Texts, NEW t \in Texts
    PROVE  s ++ t \in Texts /\ Net(s ++ t) = Net(s) + Net(t)
<1>1. Len(s ++ t) = Len(s) + Len(t) /\ s ++ t \in Texts /\ Len(t) \in 0..Len(t)
  BY ConcatIs, TextIs
<1> QED
  BY <1>1, DepthConcat DEF Net

LEMMA AboveConcat ==
    ASSUME NEW s \in Texts, NEW t \in Texts, NEW d \in Int
    PROVE  Above(s ++ t, d) <=> Above(s, d) /\ Above(t, d - Net(s))
<1> DEFINE r == s ++ t
<1>1. /\ Len(r) = Len(s) + Len(t) /\ Len(s) \in Nat /\ Len(t) \in Nat
      /\ \A k \in 0..Len(s) : Depth(r, k) = Depth(s, k)
      /\ \A k \in 0..Len(t) : Depth(r, Len(s) + k) = Net(s) + Depth(t, k)
  BY ConcatIs, TextIs, DepthConcat
<1>2. Net(s) \in Int /\ \A k \in 0..Len(t) : Depth(t, k) \in Int
  BY NetIs
<1> HIDE DEF r
<1>3. ASSUME Above(r, d)
      PROVE  Above(s, d) /\ Above(t, d - Net(s))
  <2>1. ASSUME NEW k \in 0..Len(s)
        PROVE  Depth(s, k) >= d
    <3>1. k \in 0..Len(r)
      BY <1>1
    <3> QED
      BY <1>1, <1>3, <3>1 DEF Above
  <2>2. ASSUME NEW k \in 0..Len(t)
        PROVE  Depth(t, k) >= d - Net(s)
    <3>1. Len(s) + k \in 0..Len(r)
      BY <1>1
    <3>2. Depth(r, Len(s) + k) >= d /\ Depth(r, Len(s) + k) = Net(s) + Depth(t, k)
      BY <1>1, <1>3, <3>1 DEF Above
    <3> QED
      BY <1>2, <3>2
  <2> QED
    BY <2>1, <2>2 DEF Above
<1>4. ASSUME Above(s, d), Above(t, d - Net(s))
      PROVE  Above(r, d)
  <2>1. ASSUME NEW k \in 0..Len(r)
        PROVE  Depth(r, k) >= d
    <3>1. CASE k <= Len(s)
      <4>1. k \in 0..Len(s)
        BY <3>1
      <4> QED
        BY <1>1, <1>4, <4>1 DEF Above
    <3>2. CASE k > Len(s)
      <4>1. k - Len(s) \in 0..Len(t) /\ Len(s) + (k - Len(s)) = k
        BY <1>1, <3>2
      <4>2. Depth(t, k - Len(s)) >= d - Net(s) /\ Depth(t, k - Len(s)) \in Int
        BY <1>2, <1>4, <4>1 DEF Above
      <4>3. Depth(r, k) = Net(s) + Depth(t, k - Len(s))
        BY <1>1, <4>1
      <4> QED
        BY <1>2, <4>2, <4>3
    <3> QED
      BY <1>1, <3>1, <3>2
  <2> QED
    BY <2>1 DEF Above
<1> QED
  BY <1>3, <1>4 DEF r

LEMMA AboveIs ==
    ASSUME NEW s \in Texts, NEW d \in Int
    PROVE  /\ Above(s, d) => d <= 0 /\ Net(s) >= d
           /\ \A e \in Int : Above(s, d) /\ e <= d => Above(s, e)
<1>1. 0 \in 0..Len(s) /\ Len(s) \in 0..Len(s)
  BY TextIs
<1>2. Depth(s, 0) = 0
  BY DepthSteps
<1>3. \A k \in 0..Len(s) : Depth(s, k) \in Int
  BY NetIs
<1> QED
  BY <1>1, <1>2, <1>3 DEF Above, Net

LEMMA NothingWeighs ==
    Balanced(<<>>)
<1> DEFINE s == <<>>
<1>1. Len(s) = 0
  OBVIOUS
<1> HIDE DEF s
<1>2. Depth(s, 0) = 0
  BY DepthSteps
<1>3. Net(s) = 0 /\ Above(s, 0)
  BY <1>1, <1>2 DEF Net, Above
<1> QED
  BY <1>3 DEF Balanced, s

LEMMA TokenWeighs ==
    ASSUME NEW t \in Tokens
    PROVE  Net(<<t>>) = Weight(t) /\ \A d \in Int : d <= 0 /\ d <= Weight(t) => Above(<<t>>, d)
<1> DEFINE s == <<t>>
<1>1. s \in Texts /\ Len(s) = 1 /\ s[1] = t
  BY OneIs
<1> HIDE DEF s
<1>2. Depth(s, 0) = 0
  BY DepthSteps
<1>3. Depth(s, 0 + 1) = Depth(s, 0) + Weight(s[0 + 1])
  BY DepthSteps
<1>4. Weight(t) \in Int
  BY WeightIs
<1>5. Depth(s, 1) = Weight(t)
  BY <1>1, <1>2, <1>3, <1>4
<1>6. Net(s) = Weight(t)
  BY <1>1, <1>5 DEF Net
<1>7. ASSUME NEW d \in Int, d <= 0, d <= Weight(t)
      PROVE  Above(s, d)
  <2>1. \A k \in 0..1 : k = 0 \/ k = 1
    OBVIOUS
  <2> QED
    BY <1>1, <1>2, <1>4, <1>5, <1>7, <2>1 DEF Above
<1> QED
  BY <1>6, <1>7 DEF s

(* Texts without expressions. *)
NoOpen(s) == \A k \in 1..Len(s) : s[k] # "$("
Plain(s) == \A k \in 1..Len(s) : s[k] # "$(" /\ s[k] # ")"

LEMMA PlainWeighs ==
    ASSUME NEW s \in Texts, Plain(s)
    PROVE  Balanced(s) /\ NoOpen(s)
<1>1. Len(s) \in Nat /\ \A k \in 0+1..Len(s) : s[k] # "$(" /\ s[k] # ")"
  BY TextIs DEF Plain
<1>2. \A k \in 0..Len(s) : Depth(s, k) = Depth(s, 0)
  BY <1>1, DepthFlat
<1>3. Depth(s, 0) = 0
  BY DepthSteps
<1> QED
  BY <1>1, <1>2, <1>3 DEF Balanced, Above, Net, NoOpen, Plain

LEMMA NoOpenConcat ==
    ASSUME NEW s \in Texts, NEW t \in Texts
    PROVE  /\ NoOpen(s ++ t) <=> NoOpen(s) /\ NoOpen(t)
           /\ Plain(s) /\ Plain(t) => Plain(s ++ t)
<1> DEFINE r == s ++ t
<1>1. /\ Len(r) = Len(s) + Len(t) /\ Len(s) \in Nat /\ Len(t) \in Nat
      /\ \A k \in 1..Len(s) : r[k] = s[k]
      /\ \A k \in 1..Len(t) : r[Len(s) + k] = t[k]
  BY ConcatIs, TextIs
<1> HIDE DEF r
<1>2. \A k \in 1..Len(r) : k \in 1..Len(s) \/ (k - Len(s) \in 1..Len(t) /\ Len(s) + (k - Len(s)) = k)
  BY <1>1
<1>3. \A k \in 1..Len(s) : k \in 1..Len(r)
  BY <1>1
<1>4. \A k \in 1..Len(t) : Len(s) + k \in 1..Len(r)
  BY <1>1
<1>5. NoOpen(r) => NoOpen(s) /\ NoOpen(t)
  BY <1>1, <1>3, <1>4 DEF NoOpen
<1>6. NoOpen(s) /\ NoOpen(t) => NoOpen(r)
  BY <1>1, <1>2 DEF NoOpen
<1>7. Plain(s) /\ Plain(t) => Plain(r)
  BY <1>1, <1>2 DEF Plain
<1> QED
  BY <1>5, <1>6, <1>7 DEF r

-----------------------------------------------------------------------------
(* A text written in two ways. *)

LEMMA FirstPart ==
    ASSUME NEW s \in Texts, NEW t \in Texts
    PROVE  SubSeq(s ++ t, 1, Len(s)) = s
<1> DEFINE r == s ++ t
           q == SubSeq(r, 1, Len(s))
<1>1. /\ r \in Texts /\ Len(r) = Len(s) + Len(t) /\ Len(s) \in Nat /\ Len(t) \in Nat
      /\ \A k \in 1..Len(s) : r[k] = s[k]
  BY ConcatIs, TextIs
<1> HIDE DEF r
<1>2. q \in Texts /\ Len(q) = Len(s) + 1 - 1 /\ \A k \in 1..Len(s) + 1 - 1 : q[k] = r[1 - 1 + k]
  <2>1. Len(s) <= Len(r) /\ 1 <= Len(s) + 1 /\ 1 \in Nat /\ 1 >= 1
    BY <1>1
  <2> QED
    BY <1>1, <2>1, SubIs
<1> HIDE DEF q
<1>3. Len(q) = Len(s) /\ \A k \in 1..Len(s) : q[k] = s[k]
  BY <1>1, <1>2
<1>4. q = s
  BY <1>2, <1>3, TextsEqual
<1> QED
  BY <1>4 DEF q, r

LEMMA SecondPart ==
    ASSUME NEW s \in Texts, NEW t \in Texts
    PROVE  SubSeq(s ++ t, Len(s) + 1, Len(s) + Len(t)) = t
<1> DEFINE r == s ++ t
           q == SubSeq(r, Len(s) + 1, Len(s) + Len(t))
<1>1. /\ r \in Texts /\ Len(r) = Len(s) + Len(t) /\ Len(s) \in Nat /\ Len(t) \in Nat
      /\ \A k \in 1..Len(t) : r[Len(s) + k] = t[k]
  BY ConcatIs, TextIs
<1> HIDE DEF r
<1>2. /\ q \in Texts /\ Len(q) = Len(s) + Len(t) + 1 - (Len(s) + 1)
      /\ \A k \in 1..Len(s) + Len(t) + 1 - (Len(s) + 1) : q[k] = r[Len(s) + 1 - 1 + k]
  <2>1. Len(s) + 1 >= 1 /\ Len(s) + 1 \in Nat /\ Len(s) + Len(t) \in Nat /\ Len(s) + Len(t) <= Len(r)
       /\ Len(s) + 1 <= Len(s) + Len(t) + 1
    BY <1>1
  <2> QED
    BY <1>1, <2>1, SubIs
<1> HIDE DEF q
<1>3. Len(q) = Len(t) /\ \A k \in 1..Len(t) : q[k] = t[k]
  <2>1. Len(s) + Len(t) + 1 - (Len(s) + 1) = Len(t) /\ \A k \in 1..Len(t) : Len(s) + 1 - 1 + k = Len(s) + k
    BY <1>1
  <2> QED
    BY <1>1, <1>2, <2>1
<1>4. q = t
  BY <1>2, <1>3, TextsEqual
<1> QED
  BY <1>4 DEF q, r

LEMMA SameStart ==
    ASSUME NEW s \in Texts, NEW t \in Texts, NEW u \in Texts, s ++ t = s ++ u
    PROVE  t = u
<1>1. Len(s ++ t) = Len(s) + Len(t) /\ Len(s ++ u) = Len(s) + Len(u)
  BY ConcatIs
<1>2. Len(s) \in Nat /\ Len(t) \in Nat /\ Len(u) \in Nat
  BY TextIs
<1>3. Len(t) = Len(u)
  BY <1>1, <1>2
<1> QED
  BY <1>3, SecondPart

LEMMA LongerStart ==
    ASSUME NEW q \in Texts, NEW z \in Texts, NEW u \in Texts, NEW v \in Texts, q ++ z = u ++ v,
           Len(q) <= Len(u)
    PROVE  \E w \in Texts : u = q ++ w /\ z = w ++ v
<1> DEFINE w == SubSeq(u, Len(q) + 1, Len(u))
<1>0. Len(q) \in Nat /\ Len(u) \in Nat
  BY TextIs
<1>1. Len(q) \in 0..Len(u)
  BY <1>0
<1>2. u = SubSeq(u, 1, Len(q)) ++ w
  BY <1>1, SplitAt
<1>3. SubSeq(u, 1, Len(q)) \in Texts /\ w \in Texts /\ Len(SubSeq(u, 1, Len(q))) = Len(q)
  <2>1. 1 >= 1 /\ 1 \in Nat /\ 1 <= Len(q) + 1 /\ Len(q) + 1 - 1 = Len(q)
    BY <1>0
  <2>2. Len(q) + 1 >= 1 /\ Len(q) + 1 \in Nat /\ Len(u) <= Len(u) /\ Len(q) + 1 <= Len(u) + 1
    BY <1>0
  <2> QED
    BY <1>0, <2>1, <2>2, SubIs
<1> HIDE DEF w
<1> DEFINE x == SubSeq(u, 1, Len(q))
<1>4. x \in Texts /\ Len(x) = Len(q) /\ u = x ++ w
  BY <1>2, <1>3
<1> HIDE DEF x
<1>5. u ++ v = x ++ (w ++ v) /\ w ++ v \in Texts
  BY <1>3, <1>4, ConcatAgain, ConcatIs
<1>6. x = q
  <2>1. SubSeq(q ++ z, 1, Len(q)) = q
    BY FirstPart
  <2>2. SubSeq(x ++ (w ++ v), 1, Len(x)) = x
    BY <1>4, <1>5, FirstPart
  <2> QED
    BY <1>4, <1>5, <2>1, <2>2
<1>7. z = w ++ v
  <2>1. q ++ z = q ++ (w ++ v)
    BY <1>5, <1>6
  <2> QED
    BY <1>5, <2>1, SameStart
<1>8. u = q ++ w
  BY <1>4, <1>6
<1> QED
  BY <1>3, <1>7, <1>8

Overlaps(q, z, u, v) ==
    \/ \E w \in Texts : u = q ++ w /\ z = w ++ v
    \/ \E w \in Texts : q = u ++ w /\ v = w ++ z

LEMMA Overlap ==
    ASSUME NEW q \in Texts, NEW z \in Texts, NEW u \in Texts, NEW v \in Texts, q ++ z = u ++ v
    PROVE  Overlaps(q, z, u, v)
<1>1. Len(q) \in Nat /\ Len(u) \in Nat
  BY TextIs
<1>2. CASE Len(q) <= Len(u)
  <2>1. \E w \in Texts : u = q ++ w /\ z = w ++ v
    BY <1>2, LongerStart
  <2> QED
    BY <2>1 DEF Overlaps
<1>3. CASE Len(u) <= Len(q)
  <2>1. u ++ v = q ++ z
    OBVIOUS
  <2>2. \E w \in Texts : q = u ++ w /\ v = w ++ z
    BY <1>3, <2>1, LongerStart
  <2> QED
    BY <2>2 DEF Overlaps
<1> QED
  BY <1>1, <1>2, <1>3

-----------------------------------------------------------------------------
(* Taking a text apart. *)

Opening == <<"$(">>
Shutting == <<")">>
Bracketed(s) == Opening ++ (s ++ Shutting)

LEMMA BracketsAre ==
    /\ Opening \in Texts /\ Len(Opening) = 1 /\ Opening[1] = "$(" /\ Net(Opening) = 1 /\ Above(Opening, 0)
    /\ Shutting \in Texts /\ Len(Shutting) = 1 /\ Shutting[1] = ")" /\ Net(Shutting) = -1 /\ Above(Shutting, -1)
<1>1. "$(" \in Tokens /\ ")" \in Tokens
  BY TokensAssumption
<1>2. Weight("$(") = 1 /\ Weight(")") = -1
  BY DEF Weight
<1>3. Opening \in Texts /\ Len(Opening) = 1 /\ Opening[1] = "$("
  BY <1>1, OneIs DEF Opening
<1>4. Shutting \in Texts /\ Len(Shutting) = 1 /\ Shutting[1] = ")"
  BY <1>1, OneIs DEF Shutting
<1>5. Net(Opening) = 1 /\ Above(Opening, 0)
  BY <1>1, <1>2, TokenWeighs DEF Opening
<1>6. Net(Shutting) = -1 /\ Above(Shutting, -1)
  BY <1>1, <1>2, TokenWeighs DEF Shutting
<1> QED
  BY <1>3, <1>4, <1>5, <1>6

LEMMA SplitIn ==
    ASSUME NEW s \in Texts, NEW k \in 0..Len(s)
    PROVE  \E a \in Texts, b \in Texts :
               /\ s = a ++ b /\ Len(a) = k /\ Len(b) = Len(s) - k
               /\ \A i \in 1..k : a[i] = s[i]
               /\ \A i \in 1..Len(s) - k : b[i] = s[k + i]
<1> DEFINE a == SubSeq(s, 1, k)
           b == SubSeq(s, k + 1, Len(s))
<1>1. Len(s) \in Nat /\ k \in Nat /\ k <= Len(s) /\ k + 1 \in Nat /\ k + 1 >= 1
  BY TextIs
<1>2. s = a ++ b
  BY SplitAt
<1>3. /\ a \in Texts /\ Len(a) = k + 1 - 1
      /\ \A i \in 1..k + 1 - 1 : a[i] = s[1 - 1 + i]
  BY <1>1, SubIs
<1>4. /\ b \in Texts /\ Len(b) = Len(s) + 1 - (k + 1)
      /\ \A i \in 1..Len(s) + 1 - (k + 1) : b[i] = s[k + 1 - 1 + i]
  BY <1>1, SubIs
<1> HIDE DEF a, b
<1>5. Len(a) = k /\ \A i \in 1..k : a[i] = s[i]
  BY <1>1, <1>3
<1>6. Len(b) = Len(s) - k /\ \A i \in 1..Len(s) - k : b[i] = s[k + i]
  <2>1. Len(s) + 1 - (k + 1) = Len(s) - k /\ \A i \in Int : k + 1 - 1 + i = k + i
    BY <1>1
  <2> QED
    BY <1>4, <2>1
<1> QED
  BY <1>2, <1>3, <1>4, <1>5, <1>6

LEMMA SplitToken ==
    ASSUME NEW s \in Texts, NEW k \in 1..Len(s)
    PROVE  \E a \in Texts, b \in Texts :
               /\ s = a ++ (<<s[k]>> ++ b) /\ Len(a) = k - 1
               /\ \A i \in 1..k-1 : a[i] = s[i]
<1>1. Len(s) \in Nat /\ k - 1 \in 0..Len(s) /\ s[k] \in Tokens
  BY TextIs
<1>2. PICK a \in Texts, c \in Texts :
               /\ s = a ++ c /\ Len(a) = k - 1 /\ Len(c) = Len(s) - (k - 1)
               /\ \A i \in 1..k - 1 : a[i] = s[i]
               /\ \A i \in 1..Len(s) - (k - 1) : c[i] = s[k - 1 + i]
  BY <1>1, SplitIn
<1>3. 1 \in 0..Len(c) /\ c[1] = s[k]
  <2>1. 1 \in 1..Len(s) - (k - 1) /\ k - 1 + 1 = k
    BY <1>1
  <2>2. c[1] = s[k - 1 + 1]
    BY <1>2, <2>1
  <2> QED
    BY <1>1, <1>2, <2>1, <2>2
<1>4. PICK d \in Texts, b \in Texts :
               /\ c = d ++ b /\ Len(d) = 1 /\ Len(b) = Len(c) - 1
               /\ \A i \in 1..1 : d[i] = c[i]
  BY <1>3, SplitIn
<1>5. d = <<s[k]>>
  <2>1. <<s[k]>> \in Texts /\ Len(<<s[k]>>) = 1 /\ <<s[k]>>[1] = s[k]
    BY <1>1, OneIs
  <2>2. d[1] = s[k] /\ \A i \in 1..1 : i = 1
    BY <1>3, <1>4
  <2> QED
    BY <1>4, <2>1, <2>2, TextsEqual
<1> QED
  BY <1>2, <1>4, <1>5

LEMMA FirstOpening ==
    ASSUME NEW t \in Texts
    PROVE  NoOpen(t) \/ \E b \in Texts, x \in Texts : t = b ++ (Opening ++ x) /\ NoOpen(b)
<1> SUFFICES ASSUME ~NoOpen(t)
             PROVE  \E b \in Texts, x \in Texts : t = b ++ (Opening ++ x) /\ NoOpen(b)
  OBVIOUS
<1> DEFINE T == {k \in 1..Len(t) : t[k] = "$("}
<1>1. T \subseteq Nat /\ T # {}
  BY DEF NoOpen
<1> HIDE DEF T
<1>2. PICK k \in T : \A x \in T : k <= x
  BY <1>1, Least
<1>3. k \in 1..Len(t) /\ t[k] = "$(" /\ \A i \in 1..k-1 : t[i] # "$("
  <2>1. k \in 1..Len(t) /\ t[k] = "$("
    BY <1>2 DEF T
  <2>2. ASSUME NEW i \in 1..k-1, t[i] = "$("
        PROVE  FALSE
    <3>1. i \in 1..Len(t) /\ ~(k <= i)
      BY <2>1, TextIs
    <3> QED
      BY <1>2, <2>2, <3>1 DEF T
  <2> QED
    BY <2>1, <2>2
<1>4. PICK b \in Texts, x \in Texts :
               /\ t = b ++ (<<t[k]>> ++ x) /\ Len(b) = k - 1
               /\ \A i \in 1..k-1 : b[i] = t[i]
  BY <1>3, SplitToken
<1>5. NoOpen(b)
  BY <1>3, <1>4 DEF NoOpen
<1> QED
  BY <1>3, <1>4, <1>5 DEF Opening

LEMMA Closing ==
    ASSUME NEW x \in Texts
    PROVE  Above(x, 0) \/ \E s \in Texts, r \in Texts : x = s ++ (Shutting ++ r) /\ Balanced(s)
<1> SUFFICES ASSUME ~Above(x, 0)
             PROVE  \E s \in Texts, r \in Texts : x = s ++ (Shutting ++ r) /\ Balanced(s)
  OBVIOUS
<1>0. Len(x) \in Nat /\ \A k \in 0..Len(x) : Depth(x, k) \in Int
  BY TextIs, NetIs
<1> DEFINE T == {k \in 0..Len(x) : ~(Depth(x, k) >= 0)}
<1>1. T \subseteq Nat /\ T # {}
  BY DEF Above
<1> HIDE DEF T
<1>2. PICK k \in T : \A i \in T : k <= i
  BY <1>1, Least
<1>3. k \in 1..Len(x) /\ Depth(x, k) < 0 /\ \A i \in 0..k-1 : Depth(x, i) >= 0
  <2>1. k \in 0..Len(x) /\ Depth(x, k) < 0
    BY <1>0, <1>2 DEF T
  <2>2. k # 0
    <3>1. Depth(x, 0) = 0
      BY DepthSteps
    <3> QED
      BY <2>1, <3>1
  <2>3. ASSUME NEW i \in 0..k-1
        PROVE  Depth(x, i) >= 0
    <3>1. i \in 0..Len(x) /\ ~(k <= i)
      BY <1>0, <2>1
    <3> QED
      BY <1>2, <3>1 DEF T
  <2> QED
    BY <2>1, <2>2, <2>3
<1>4. Depth(x, k - 1) = 0 /\ x[k] = ")"
  <2>1. k - 1 \in Nat /\ k - 1 + 1 = k /\ k - 1 \in 0..Len(x)
    BY <1>0, <1>3
  <2>2. Depth(x, k - 1 + 1) = Depth(x, k - 1) + Weight(x[k - 1 + 1])
    BY <2>1, DepthSteps
  <2>3. Depth(x, k) = Depth(x, k - 1) + Weight(x[k])
    BY <2>1, <2>2
  <2>4. Weight(x[k]) \in {-1, 0, 1} /\ (Weight(x[k]) = -1 <=> x[k] = ")")
    BY WeightIs
  <2>5. Depth(x, k - 1) \in Int /\ Depth(x, k - 1) >= 0
    BY <1>0, <1>3, <2>1
  <2> QED
    BY <1>3, <2>3, <2>4, <2>5
<1>5. PICK s \in Texts, r \in Texts :
               /\ x = s ++ (<<x[k]>> ++ r) /\ Len(s) = k - 1
  BY <1>3, SplitToken
<1>6. \A i \in 0..Len(s) : Depth(x, i) = Depth(s, i)
  <2>1. <<x[k]>> ++ r \in Texts
    BY <1>3, TextIs, OneIs, ConcatIs
  <2> QED
    BY <1>5, <2>1, DepthConcat
<1>7. Balanced(s)
  <2>1. Len(s) \in 0..Len(s) /\ Len(s) = k - 1
    BY <1>5, TextIs
  <2>2. Net(s) = 0
    BY <1>4, <1>6, <2>1 DEF Net
  <2>3. Above(s, 0)
    BY <1>3, <1>6, <2>1 DEF Above
  <2> QED
    BY <2>2, <2>3 DEF Balanced
<1> QED
  BY <1>4, <1>5, <1>7 DEF Shutting

-----------------------------------------------------------------------------
(* Finding an expression. *)

LEMMA FindFromIs ==
    ASSUME NEW s \in Texts, NEW t, NEW k \in Nat, k >= 1
    PROVE  \/ FindFrom(s, t, k) = 0 /\ \A i \in k..Len(s) : s[i] # t
           \/ /\ FindFrom(s, t, k) \in k..Len(s) /\ s[FindFrom(s, t, k)] = t
              /\ \A i \in k..FindFrom(s, t, k)-1 : s[i] # t
<1> DEFINE at == {i \in k..Len(s) : s[i] = t}
<1>0. Len(s) \in Nat
  BY TextIs
<1>1. FindFrom(s, t, k) = IF at = {} THEN 0 ELSE Min(at)
  BY DEF FindFrom
<1>2. CASE at = {}
  BY <1>1, <1>2
<1>3. CASE at # {}
  <2>1. at \subseteq Nat
    BY <1>0
  <2>2. Min(at) \in at /\ \A i \in at : Min(at) <= i
    <3> HIDE DEF at
    <3> QED
      BY <1>3, <2>1, MinIs
  <2>3. PICK m \in at : m = FindFrom(s, t, k) /\ \A i \in at : m <= i
    <3> HIDE DEF at
    <3> QED
      BY <1>1, <1>3, <2>2
  <2>4. ASSUME NEW i \in k..m-1, s[i] = t
        PROVE  FALSE
    <3>1. m \in k..Len(s)
      BY <2>3
    <3>2. i \in at /\ ~(m <= i)
      BY <1>0, <2>4, <3>1
    <3> QED
      BY <2>3, <3>2
  <2>5. m \in k..Len(s) /\ s[m] = t
    BY <2>3
  <2> HIDE DEF at
  <2> QED
    BY <2>3, <2>4, <2>5
<1> QED
  BY <1>2, <1>3

(* From p to k as much is opened as closed when they are equally deep. *)
LEMMA Between ==
    ASSUME NEW s, NEW p \in Nat, p >= 1, NEW k \in Nat, k >= p
    PROVE  Count(Ups(s), p, k) = Count(Downs(s), p, k) <=> Depth(s, k) = Depth(s, p - 1)
<1> DEFINE U(j) == Count(Ups(s), p, p - 1 + j)
           D(j) == Count(Downs(s), p, p - 1 + j)
           X(j) == Depth(s, p - 1 + j)
           S == {j \in 0..k-p+1 : U(j) - D(j) = X(j) - X(0)}
<1>1. ASSUME NEW j \in Nat
      PROVE  /\ U(j) \in Nat /\ D(j) \in Nat /\ X(j) \in Int
             /\ U(j + 1) = U(j) + (IF p + j \in Ups(s) THEN 1 ELSE 0)
             /\ D(j + 1) = D(j) + (IF p + j \in Downs(s) THEN 1 ELSE 0)
             /\ X(j + 1) = X(j) + Weight(s[p + j])
  <2>1. /\ p - 1 + j \in Nat /\ p <= p - 1 + j + 1 /\ p - 1 + j + 1 = p + j
        /\ p - 1 + (j + 1) = p + j
    OBVIOUS
  <2>2. /\ Count(Ups(s), p, p - 1 + j) \in Nat
        /\ Count(Ups(s), p, p - 1 + j + 1)
           = Count(Ups(s), p, p - 1 + j) + (IF p - 1 + j + 1 \in Ups(s) THEN 1 ELSE 0)
    BY <2>1, CountSteps
  <2>3. /\ Count(Downs(s), p, p - 1 + j) \in Nat
        /\ Count(Downs(s), p, p - 1 + j + 1)
           = Count(Downs(s), p, p - 1 + j) + (IF p - 1 + j + 1 \in Downs(s) THEN 1 ELSE 0)
    BY <2>1, CountSteps
  <2>4. Depth(s, p - 1 + j) \in Int /\ Depth(s, p - 1 + j + 1) = Depth(s, p - 1 + j) + Weight(s[p - 1 + j + 1])
    BY <2>1, DepthSteps
  <2> QED
    BY <2>1, <2>2, <2>3, <2>4
<1>2. U(0) = 0 /\ D(0) = 0
  <2>1. p - 1 + 0 \in Nat /\ p <= p - 1 + 0 + 1 /\ p - 1 + 0 < p
    OBVIOUS
  <2> QED
    BY <2>1, CountSteps
<1>3. ASSUME NEW j \in Nat
      PROVE  Weight(s[p + j]) = (IF p + j \in Ups(s) THEN 1 ELSE 0) - (IF p + j \in Downs(s) THEN 1 ELSE 0)
  <2>1. (p + j \in Ups(s) <=> s[p + j] = "$(") /\ (p + j \in Downs(s) <=> s[p + j] = ")")
    BY DEF Ups, Downs
  <2> QED
    BY <2>1 DEF Weight
<1>4. X(k - p + 1) = Depth(s, k) /\ X(0) = Depth(s, p - 1)
      /\ U(k - p + 1) = Count(Ups(s), p, k) /\ D(k - p + 1) = Count(Downs(s), p, k)
  <2>1. p - 1 + (k - p + 1) = k /\ p - 1 + 0 = p - 1
    OBVIOUS
  <2> QED
    BY <2>1
<1> HIDE DEF U, D, X
<1>5. 0 \in S
  BY <1>1, <1>2
<1>6. ASSUME NEW j \in 0..(k-p+1)-1, j \in S
      PROVE  j + 1 \in S
  <2>1. j \in Nat /\ j + 1 \in 0..k-p+1
    OBVIOUS
  <2>2. U(j) - D(j) = X(j) - X(0)
    BY <1>6
  <2>3. X(0) \in Int
    BY <1>1
  <2> DEFINE u == IF p + j \in Ups(s) THEN 1 ELSE 0
             d == IF p + j \in Downs(s) THEN 1 ELSE 0
  <2>4. u \in Int /\ d \in Int
    OBVIOUS
  <2>5. /\ U(j) \in Nat /\ D(j) \in Nat /\ X(j) \in Int
        /\ U(j + 1) = U(j) + u /\ D(j + 1) = D(j) + d /\ X(j + 1) = X(j) + (u - d)
    BY <1>1, <1>3, <2>1
  <2> HIDE DEF u, d
  <2>6. U(j + 1) - D(j + 1) = X(j + 1) - X(0)
    BY <2>2, <2>3, <2>4, <2>5
  <2> QED
    BY <2>1, <2>6
<1>7. k - p + 1 \in S
  <2>1. k - p + 1 \in Nat
    OBVIOUS
  <2> HIDE DEF S
  <2> QED
    BY <1>5, <1>6, <2>1, Climb
<1>8. U(k - p + 1) - D(k - p + 1) = X(k - p + 1) - X(0)
  BY <1>7
<1>9. U(k - p + 1) \in Int /\ D(k - p + 1) \in Int /\ X(k - p + 1) \in Int /\ X(0) \in Int
  <2>1. k - p + 1 \in Nat
    OBVIOUS
  <2> QED
    BY <1>1, <2>1
<1> QED
  BY <1>4, <1>8, <1>9

LEMMA MatchIs ==
    ASSUME NEW s \in Texts, NEW p \in 1..Len(s)
    PROVE  \/ FindMatchingParen(s, p) = 0 /\ \A k \in p..Len(s) : Depth(s, k) # Depth(s, p - 1)
           \/ /\ FindMatchingParen(s, p) \in p..Len(s)
              /\ Depth(s, FindMatchingParen(s, p)) = Depth(s, p - 1)
              /\ \A k \in p..FindMatchingParen(s, p)-1 : Depth(s, k) # Depth(s, p - 1)
<1> DEFINE ends == {k \in p..Len(s) : Cardinality({i \in p..k : s[i] = "$("})
                                      = Cardinality({i \in p..k : s[i] = ")"})}
<1>0. Len(s) \in Nat /\ p \in Nat /\ p >= 1
  BY TextIs
<1>1. FindMatchingParen(s, p) = IF ends = {} THEN 0 ELSE Min(ends)
  BY DEF FindMatchingParen
<1>2. ASSUME NEW k \in p..Len(s)
      PROVE  k \in ends <=> Depth(s, k) = Depth(s, p - 1)
  <2>1. k \in Nat /\ k >= p
    BY <1>0
  <2>2. {i \in p..k : s[i] = "$("} = Ups(s) \cap (p..k)
    BY <1>0 DEF Ups
  <2>3. {i \in p..k : s[i] = ")"} = Downs(s) \cap (p..k)
    BY <1>0 DEF Downs
  <2>4. k \in ends <=> Count(Ups(s), p, k) = Count(Downs(s), p, k)
    BY <2>2, <2>3 DEF Count
  <2> QED
    BY <1>0, <2>1, <2>4, Between
<1>3. ends \subseteq Nat /\ ends \subseteq p..Len(s)
  BY <1>0
<1> HIDE DEF ends
<1>4. CASE ends = {}
  BY <1>1, <1>2, <1>4
<1>5. CASE ends # {}
  <2>1. Min(ends) \in ends /\ \A i \in ends : Min(ends) <= i
    BY <1>3, <1>5, MinIs
  <2>2. PICK m \in ends : m = FindMatchingParen(s, p) /\ \A i \in ends : m <= i
    BY <1>1, <1>5, <2>1
  <2>3. m \in p..Len(s) /\ Depth(s, m) = Depth(s, p - 1)
    BY <1>2, <1>3
  <2>4. ASSUME NEW i \in p..m-1
        PROVE  Depth(s, i) # Depth(s, p - 1)
    <3>1. i \in p..Len(s) /\ ~(m <= i)
      BY <1>0, <2>3
    <3> QED
      BY <1>2, <2>2, <3>1
  <2> QED
    BY <2>2, <2>3, <2>4
<1> QED
  BY <1>4, <1>5

-----------------------------------------------------------------------------
(* One round of the rewriting, by the form of the text. *)

(* The first opening and what is as deep as before it. *)
LEMMA OpeningAt ==
    ASSUME NEW b \in Texts, NEW x \in Texts, NoOpen(b), NEW t, t = b ++ (Opening ++ x)
    PROVE  /\ t \in Texts /\ Len(b) \in Nat /\ Len(x) \in Nat /\ Len(t) = Len(b) + 1 + Len(x)
           /\ FindFrom(t, "$(", 1) = Len(b) + 1
           /\ Depth(t, Len(b)) = Net(b) /\ Net(b) \in Int
           /\ \A k \in 0..Len(x) : Depth(t, Len(b) + 1 + k) = Net(b) + 1 + Depth(x, k)
           /\ Before(t, Len(b) + 1) = b
<1>1. Len(b) \in Nat /\ Len(x) \in Nat /\ Net(b) \in Int
  BY TextIs, NetIs
<1>2. PICK c \in Texts : /\ c = Opening ++ x /\ Len(c) = 1 + Len(x) /\ c[1] = "$("
                         /\ \A k \in 0..Len(x) : Depth(c, 1 + k) = 1 + Depth(x, k)
  <2>1. /\ Opening ++ x \in Texts /\ Len(Opening ++ x) = Len(Opening) + Len(x)
        /\ \A k \in 1..Len(Opening) : (Opening ++ x)[k] = Opening[k]
    BY ConcatIs, BracketsAre
  <2>2. \A k \in 0..Len(x) : Depth(Opening ++ x, Len(Opening) + k) = Net(Opening) + Depth(x, k)
    BY DepthConcat, BracketsAre
  <2> QED
    BY <2>1, <2>2, BracketsAre
<1>3. /\ t \in Texts /\ Len(t) = Len(b) + Len(c)
      /\ \A k \in 1..Len(b) : t[k] = b[k]
      /\ \A k \in 1..Len(c) : t[Len(b) + k] = c[k]
  BY <1>2, ConcatIs
<1>4. /\ \A k \in 0..Len(b) : Depth(t, k) = Depth(b, k)
      /\ \A k \in 0..Len(c) : Depth(t, Len(b) + k) = Net(b) + Depth(c, k)
  BY <1>2, DepthConcat
<1>5. Depth(t, Len(b)) = Net(b)
  BY <1>1, <1>4 DEF Net
<1>6. ASSUME NEW k \in 0..Len(x)
      PROVE  Depth(t, Len(b) + 1 + k) = Net(b) + 1 + Depth(x, k)
  <2>1. 1 + k \in 0..Len(c) /\ Len(b) + (1 + k) = Len(b) + 1 + k
    BY <1>1, <1>2
  <2>2. Depth(t, Len(b) + (1 + k)) = Net(b) + Depth(c, 1 + k) /\ Depth(c, 1 + k) = 1 + Depth(x, k)
    BY <1>2, <1>4, <2>1
  <2>3. Depth(x, k) \in Int
    BY NetIs
  <2> QED
    BY <1>1, <2>1, <2>2, <2>3
<1>7. FindFrom(t, "$(", 1) = Len(b) + 1
  <2>1. t[Len(b) + 1] = "$(" /\ Len(b) + 1 \in 1..Len(t) /\ Len(t) \in Nat
    BY <1>1, <1>2, <1>3
  <2>2. \A i \in 1..Len(b) : t[i] # "$("
    BY <1>3 DEF NoOpen
  <2>3. PICK f : f = FindFrom(t, "$(", 1)
    OBVIOUS
  <2>4. \/ f = 0 /\ \A i \in 1..Len(t) : t[i] # "$("
        \/ /\ f \in 1..Len(t) /\ t[f] = "$("
           /\ \A i \in 1..f-1 : t[i] # "$("
    BY <1>3, <2>3, FindFromIs
  <2>5. f \in 1..Len(t) /\ t[f] = "$(" /\ \A i \in 1..f-1 : t[i] # "$("
    BY <2>1, <2>4
  <2>6. ~(f <= Len(b))
    BY <1>1, <2>2, <2>5
  <2>7. ~(Len(b) + 1 <= f - 1)
    BY <1>1, <2>1, <2>5
  <2> QED
    BY <1>1, <2>3, <2>5, <2>6, <2>7
<1>8. Before(t, Len(b) + 1) = b
  <2>1. SubSeq(b ++ c, 1, Len(b)) = b
    BY <1>2, FirstPart
  <2>2. Len(b) + 1 - 1 = Len(b)
    BY <1>1
  <2> QED
    BY <1>2, <2>1, <2>2 DEF Before
<1>9. Len(t) = Len(b) + 1 + Len(x)
  BY <1>1, <1>2, <1>3
<1> QED
  BY <1>1, <1>3, <1>5, <1>6, <1>7, <1>8, <1>9

LEMMA ReadsNone ==
    ASSUME NEW t \in Texts, NoOpen(t), NEW p, NEW w
    PROVE  CanonicalizeOnce(t, p, w) = t
<1>1. PICK f : f = FindFrom(t, "$(", 1)
  OBVIOUS
<1>2. \/ f = 0 /\ \A i \in 1..Len(t) : t[i] # "$("
      \/ /\ f \in 1..Len(t) /\ t[f] = "$("
         /\ \A i \in 1..f-1 : t[i] # "$("
  BY <1>1, FindFromIs
<1>3. f = 0
  BY <1>2 DEF NoOpen
<1> QED
  BY <1>1, <1>3 DEF CanonicalizeOnce

LEMMA ReadsOpen ==
    ASSUME NEW b \in Texts, NEW x \in Texts, NoOpen(b), Above(x, 0), NEW p, NEW w
    PROVE  CanonicalizeOnce(b ++ (Opening ++ x), p, w) = b ++ (Opening ++ x)
<1>0. PICK t : t = b ++ (Opening ++ x)
  OBVIOUS
<1>1. /\ t \in Texts /\ Len(b) \in Nat /\ Len(x) \in Nat /\ Len(t) = Len(b) + 1 + Len(x)
      /\ FindFrom(t, "$(", 1) = Len(b) + 1
      /\ Depth(t, Len(b)) = Net(b) /\ Net(b) \in Int
      /\ \A k \in 0..Len(x) : Depth(t, Len(b) + 1 + k) = Net(b) + 1 + Depth(x, k)
  BY <1>0, OpeningAt
<1>2. PICK e, f : e = FindMatchingParen(t, f) /\ f = Len(b) + 1 /\ f = FindFrom(t, "$(", 1)
  BY <1>1
<1>3. f \in 1..Len(t) /\ f - 1 = Len(b)
  BY <1>1, <1>2
<1>4. \/ e = 0 /\ \A k \in f..Len(t) : Depth(t, k) # Depth(t, f - 1)
      \/ /\ e \in f..Len(t) /\ Depth(t, e) = Depth(t, f - 1)
         /\ \A k \in f..e-1 : Depth(t, k) # Depth(t, f - 1)
  BY <1>1, <1>2, <1>3, MatchIs
<1>5. ASSUME NEW k \in f..Len(t)
      PROVE  Depth(t, k) # Net(b)
  <2>1. k - f \in 0..Len(x) /\ Len(b) + 1 + (k - f) = k
    BY <1>1, <1>2
  <2>2. Depth(x, k - f) >= 0 /\ Depth(x, k - f) \in Int
    BY <2>1, NetIs DEF Above
  <2>3. Depth(t, k) = Net(b) + 1 + Depth(x, k - f)
    BY <1>1, <2>1
  <2> QED
    BY <1>1, <2>2, <2>3
<1>6. e = 0
  BY <1>1, <1>3, <1>4, <1>5
<1> QED
  BY <1>0, <1>2, <1>6 DEF CanonicalizeOnce

LEMMA MiddlePart ==
    ASSUME NEW a \in Texts, NEW s \in Texts, NEW z \in Texts
    PROVE  SubSeq(a ++ (s ++ z), Len(a) + 1, Len(a) + Len(s)) = s
<1>1. PICK r \in Texts : r = a ++ (s ++ z)
  BY ConcatIs
<1>2. /\ Len(r) = Len(a) + Len(s) + Len(z)
      /\ \A k \in 1..Len(s) : r[Len(a) + k] = s[k]
      /\ Len(a) \in Nat /\ Len(s) \in Nat /\ Len(z) \in Nat
  <2>1. Len(a) \in Nat /\ Len(s) \in Nat /\ Len(z) \in Nat
    BY TextIs
  <2>2. PICK c : c = s ++ z
    OBVIOUS
  <2>6. c \in Texts /\ Len(c) = Len(s) + Len(z) /\ \A k \in 1..Len(s) : c[k] = s[k]
    <3>1. /\ s ++ z \in Texts /\ Len(s ++ z) = Len(s) + Len(z)
          /\ \A k \in 1..Len(s) : (s ++ z)[k] = s[k]
      BY ConcatIs
    <3> QED
      BY <2>2, <3>1
  <2>3. Len(r) = Len(a) + Len(c) /\ \A k \in 1..Len(c) : r[Len(a) + k] = c[k]
    <3>1. /\ Len(a ++ c) = Len(a) + Len(c)
          /\ \A k \in 1..Len(c) : (a ++ c)[Len(a) + k] = c[k]
      BY <2>6, ConcatIs
    <3> QED
      BY <1>1, <2>2, <3>1
  <2>4. \A k \in 1..Len(s) : k \in 1..Len(c)
    BY <2>1, <2>6
  <2>5. Len(r) = Len(a) + Len(s) + Len(z)
    BY <2>1, <2>3, <2>6
  <2> QED
    BY <2>1, <2>3, <2>4, <2>5, <2>6
<1>3. PICK q : q = SubSeq(r, Len(a) + 1, Len(a) + Len(s))
  OBVIOUS
<1>4. /\ q \in Texts /\ Len(q) = Len(a) + Len(s) + 1 - (Len(a) + 1)
      /\ \A k \in 1..Len(a) + Len(s) + 1 - (Len(a) + 1) : q[k] = r[Len(a) + 1 - 1 + k]
  <2>1. /\ Len(a) + 1 >= 1 /\ Len(a) + 1 \in Nat /\ Len(a) + Len(s) \in Nat
        /\ Len(a) + Len(s) <= Len(r) /\ Len(a) + 1 <= Len(a) + Len(s) + 1
    BY <1>2
  <2> QED
    BY <1>3, <2>1, SubIs
<1>5. Len(q) = Len(s) /\ \A k \in 1..Len(s) : q[k] = s[k]
  <2>1. Len(a) + Len(s) + 1 - (Len(a) + 1) = Len(s) /\ \A k \in 1..Len(s) : Len(a) + 1 - 1 + k = Len(a) + k
    BY <1>2
  <2> QED
    BY <1>2, <1>4, <2>1
<1>6. q = s
  BY <1>4, <1>5, TextsEqual
<1> QED
  BY <1>1, <1>3, <1>6

(* b$(s)r, with as much opened as closed in s. *)
LEMMA ClosedAgain ==
    ASSUME NEW b \in Texts, NEW s \in Texts, NEW r \in Texts
    PROVE  /\ Bracketed(s) \in Texts
           /\ b ++ (Bracketed(s) ++ r) = b ++ (Opening ++ (s ++ (Shutting ++ r)))
           /\ b ++ (Bracketed(s) ++ r) = (b ++ Opening) ++ (s ++ (Shutting ++ r))
           /\ b ++ (Bracketed(s) ++ r) = (b ++ (Opening ++ (s ++ Shutting))) ++ r
<1>1. Opening \in Texts /\ Shutting \in Texts
  BY BracketsAre
<1>2. s ++ Shutting \in Texts /\ Shutting ++ r \in Texts /\ s ++ (Shutting ++ r) \in Texts
  BY <1>1, ConcatIs
<1>3. Opening ++ (s ++ Shutting) \in Texts
  BY <1>1, <1>2, ConcatIs
<1>4. (Opening ++ (s ++ Shutting)) ++ r = Opening ++ ((s ++ Shutting) ++ r)
  BY <1>1, <1>2, ConcatAgain
<1>5. (s ++ Shutting) ++ r = s ++ (Shutting ++ r)
  BY <1>1, ConcatAgain
<1>6. (b ++ Opening) ++ (s ++ (Shutting ++ r)) = b ++ (Opening ++ (s ++ (Shutting ++ r)))
  BY <1>1, <1>2, ConcatAgain
<1>7. (b ++ (Opening ++ (s ++ Shutting))) ++ r = b ++ ((Opening ++ (s ++ Shutting)) ++ r)
  BY <1>3, ConcatAgain
<1> QED
  BY <1>3, <1>4, <1>5, <1>6, <1>7 DEF Bracketed

LEMMA ReadsClosed ==
    ASSUME NEW b \in Texts, NEW s \in Texts, NEW r \in Texts, NoOpen(b), Balanced(s), NEW p, NEW w
    PROVE  CanonicalizeOnce(b ++ (Bracketed(s) ++ r), p, w)
           = (b ++ CanonicalizeMakeExpr(s, p, w)) ++ w[r][p]
<1>0. PICK t : t = b ++ (Bracketed(s) ++ r)
  OBVIOUS
<1>1. PICK x \in Texts : x = s ++ (Shutting ++ r)
  BY ConcatIs, BracketsAre
<1>2. t = b ++ (Opening ++ x) /\ t = (b ++ Opening) ++ x
  BY <1>0, <1>1, ClosedAgain
<1>3. /\ t \in Texts /\ Len(b) \in Nat /\ Len(x) \in Nat /\ Len(t) = Len(b) + 1 + Len(x)
      /\ FindFrom(t, "$(", 1) = Len(b) + 1
      /\ Depth(t, Len(b)) = Net(b) /\ Net(b) \in Int
      /\ \A k \in 0..Len(x) : Depth(t, Len(b) + 1 + k) = Net(b) + 1 + Depth(x, k)
      /\ Before(t, Len(b) + 1) = b
  BY <1>2, OpeningAt
<1>4. /\ Len(s) \in Nat /\ Len(r) \in Nat /\ Len(x) = Len(s) + 1 + Len(r)
      /\ \A k \in 0..Len(s) : Depth(x, k) >= 0 /\ Depth(x, k) \in Int
      /\ Depth(x, Len(s) + 1) = -1
  <2>1. Len(s) \in Nat /\ Len(r) \in Nat
    BY TextIs
  <2>2. PICK c \in Texts : c = Shutting ++ r /\ Len(c) = 1 + Len(r) /\ Depth(c, 1) = -1
    <3>1. Shutting ++ r \in Texts /\ Len(Shutting ++ r) = Len(Shutting) + Len(r)
      BY ConcatIs, BracketsAre
    <3>2. \A k \in 0..Len(Shutting) : Depth(Shutting ++ r, k) = Depth(Shutting, k)
      BY DepthConcat, BracketsAre
    <3>3. Depth(Shutting, 1) = -1 /\ Len(Shutting) = 1 /\ 1 \in 0..1
      BY BracketsAre DEF Net
    <3> QED
      BY <3>1, <3>2, <3>3
  <2>3. Len(x) = Len(s) + Len(c)
    BY <1>1, <2>2, ConcatIs
  <2>4. /\ \A k \in 0..Len(s) : Depth(x, k) = Depth(s, k)
        /\ \A k \in 0..Len(c) : Depth(x, Len(s) + k) = Net(s) + Depth(c, k)
    BY <1>1, <2>2, DepthConcat
  <2>5. \A k \in 0..Len(s) : Depth(s, k) >= 0 /\ Depth(s, k) \in Int
    BY NetIs DEF Balanced, Above
  <2>6. Depth(x, Len(s) + 1) = 0 + Depth(c, 1)
    <3>1. 1 \in 0..Len(c)
      BY <2>1, <2>2
    <3> QED
      BY <2>4, <3>1 DEF Balanced
  <2> QED
    BY <2>1, <2>2, <2>3, <2>4, <2>5, <2>6
<1>5. PICK e, f : e = FindMatchingParen(t, f) /\ f = Len(b) + 1 /\ f = FindFrom(t, "$(", 1)
  BY <1>3
<1>6. f \in 1..Len(t) /\ f - 1 = Len(b)
  BY <1>3, <1>5
<1>7. \/ e = 0 /\ \A k \in f..Len(t) : Depth(t, k) # Depth(t, f - 1)
      \/ /\ e \in f..Len(t) /\ Depth(t, e) = Depth(t, f - 1)
         /\ \A k \in f..e-1 : Depth(t, k) # Depth(t, f - 1)
  BY <1>3, <1>5, <1>6, MatchIs
<1>8. ASSUME NEW k \in f..f + Len(s)
      PROVE  Depth(t, k) # Depth(t, f - 1)
  <2>1. k - f \in 0..Len(s) /\ k - f \in 0..Len(x) /\ Len(b) + 1 + (k - f) = k
    BY <1>3, <1>4, <1>5
  <2>2. Depth(x, k - f) >= 0 /\ Depth(x, k - f) \in Int
    BY <1>4, <2>1
  <2>3. Depth(t, k) = Net(b) + 1 + Depth(x, k - f)
    BY <1>3, <2>1
  <2> QED
    BY <1>3, <1>6, <2>2, <2>3
<1>9. f + Len(s) + 1 \in f..Len(t) /\ Depth(t, f + Len(s) + 1) = Depth(t, f - 1)
  <2>1. Len(s) + 1 \in 0..Len(x) /\ Len(b) + 1 + (Len(s) + 1) = f + Len(s) + 1
    BY <1>3, <1>4, <1>5
  <2>2. Depth(t, f + Len(s) + 1) = Net(b) + 1 + -1
    BY <1>3, <1>4, <2>1
  <2> QED
    BY <1>3, <1>4, <1>5, <1>6, <2>2
<1>10. e = f + Len(s) + 1
  <2>1. e \in f..Len(t) /\ Depth(t, e) = Depth(t, f - 1) /\ \A k \in f..e-1 : Depth(t, k) # Depth(t, f - 1)
    BY <1>7, <1>9
  <2>2. PICK m \in Nat, n \in Nat : m = Len(s) /\ n = Len(t)
    BY <1>3, <1>4, TextIs
  <2>3. f \in Nat /\ e \in f..n /\ e \in Nat
    BY <1>3, <1>5, <2>1, <2>2
  <2>4. ~(e <= f + m)
    BY <1>8, <2>1, <2>2, <2>3
  <2>5. ~(f + m + 1 <= e - 1)
    <3>1. f + m + 1 \in f..n /\ Depth(t, f + m + 1) = Depth(t, f - 1)
      BY <1>9, <2>2
    <3> QED
      BY <2>1, <2>3, <3>1
  <2>6. e = f + m + 1
    BY <2>3, <2>4, <2>5
  <2> QED
    BY <2>2, <2>6
<1>11. SubSeq(t, f + 1, e - 1) = s
  <2>1. PICK a \in Texts, y \in Texts : a = b ++ Opening /\ y = Shutting ++ r
    BY ConcatIs, BracketsAre
  <2>2. Len(a) = Len(b) + 1
    <3>1. Opening \in Texts /\ Len(Opening) = 1
      BY BracketsAre
    <3>2. Len(b ++ Opening) = Len(b) + Len(Opening)
      BY <3>1, Joined
    <3> QED
      BY <2>1, <3>1, <3>2
  <2>3. SubSeq(a ++ (s ++ y), Len(a) + 1, Len(a) + Len(s)) = s
    BY MiddlePart
  <2>4. f + 1 = Len(a) + 1 /\ e - 1 = Len(a) + Len(s)
    BY <1>3, <1>4, <1>5, <1>10, <2>2
  <2>5. t = a ++ (s ++ y)
    BY <1>1, <1>2, <2>1
  <2> QED
    BY <2>3, <2>4, <2>5
<1>12. From(t, e + 1) = r
  <2>1. PICK c \in Texts : c = s ++ Shutting
    BY ConcatIs, BracketsAre
  <2>2. PICK d \in Texts : d = Opening ++ c
    BY ConcatIs, BracketsAre
  <2>3. PICK y \in Texts : y = b ++ d
    BY ConcatIs
  <2>4. Len(c) = Len(s) + 1 /\ Len(d) = 1 + Len(c) /\ Len(y) = Len(b) + Len(d)
    <3>1. Opening \in Texts /\ Len(Opening) = 1 /\ Shutting \in Texts /\ Len(Shutting) = 1
      BY BracketsAre
    <3>2. /\ Len(s ++ Shutting) = Len(s) + Len(Shutting)
          /\ Len(Opening ++ c) = Len(Opening) + Len(c)
          /\ Len(b ++ d) = Len(b) + Len(d)
      BY <3>1, Joined
    <3> QED
      BY <2>1, <2>2, <2>3, <3>1, <3>2
  <2>5. Len(y) = e
    BY <1>3, <1>4, <1>5, <1>10, <2>4
  <2>6. t = y ++ r
    BY <1>0, <2>1, <2>2, <2>3, ClosedAgain
  <2>7. SubSeq(y ++ r, Len(y) + 1, Len(y) + Len(r)) = r
    BY SecondPart
  <2>8. Len(t) = Len(y) + Len(r)
    BY <2>6, ConcatIs
  <2> QED
    BY <2>5, <2>6, <2>7, <2>8 DEF From
<1>13. e # 0 /\ f # 0
  BY <1>3, <1>4, <1>5, <1>10
<1>14. CanonicalizeOnce(t, p, w)
       = (Before(t, f) \o CanonicalizeMakeExpr(SubSeq(t, f + 1, e - 1), p, w)) \o w[From(t, e + 1)][p]
  BY <1>5, <1>13 DEF CanonicalizeOnce
<1> QED
  BY <1>0, <1>3, <1>5, <1>11, <1>12, <1>14 DEF ++

-----------------------------------------------------------------------------
(* The name of a function and its arguments. *)

Blanks(s) == \A k \in 1..Len(s) : s[k] = Blank
NoBlank(s) == \A k \in 1..Len(s) : s[k] # Blank
Led(s) == Len(s) >= 1 => s[1] = Blank

(* f are the name and a the arguments of a function. *)
Named(f, a) == NoBlank(f) /\ Led(a) /\ (Len(f) = 0 => Len(a) = 0)

LEMMA SplitForm ==
    ASSUME NEW w \in Texts, NEW f \in Texts, NEW a \in Texts, Blanks(w), Named(f, a)
    PROVE  SplitMakeFunc(w ++ (f ++ a)).fn = f /\ SplitMakeFunc(w ++ (f ++ a)).args = a
<1>1. PICK c : c = f ++ a
  OBVIOUS
<1>2. /\ c \in Texts /\ Len(c) = Len(f) + Len(a)
      /\ \A k \in 1..Len(f) : c[k] = f[k]
      /\ \A k \in 1..Len(a) : c[Len(f) + k] = a[k]
  BY <1>1, ConcatIs
<1>3. PICK s : s = w ++ c
  OBVIOUS
<1>4. /\ s \in Texts /\ Len(s) = Len(w) + Len(c)
      /\ \A k \in 1..Len(w) : s[k] = w[k]
      /\ \A k \in 1..Len(c) : s[Len(w) + k] = c[k]
  BY <1>2, <1>3, ConcatIs
<1>5. PICK lw \in Nat, lf \in Nat, la \in Nat : lw = Len(w) /\ lf = Len(f) /\ la = Len(a)
  BY TextIs
<1>6. /\ Len(s) = lw + lf + la
      /\ \A k \in 1..lw : s[k] = Blank
      /\ \A k \in lw+1..lw+lf : s[k] # Blank
      /\ la >= 1 => lf >= 1 /\ s[lw + lf + 1] = Blank
  <2>1. Len(s) = lw + lf + la
    BY <1>2, <1>4, <1>5
  <2>2. \A k \in 1..lw : s[k] = Blank
    BY <1>4, <1>5 DEF Blanks
  <2>3. ASSUME NEW k \in lw+1..lw+lf
        PROVE  s[k] # Blank
    <3>1. k - lw \in 1..lf /\ k - lw \in 1..lf+la /\ lw + (k - lw) = k
      OBVIOUS
    <3>2. s[k] = c[k - lw] /\ c[k - lw] = f[k - lw] /\ f[k - lw] # Blank
      BY <1>2, <1>4, <1>5, <3>1 DEF Named, NoBlank
    <3> QED
      BY <3>2
  <2>4. ASSUME la >= 1
        PROVE  lf >= 1 /\ s[lw + lf + 1] = Blank
    <3>1. lf + 1 \in 1..lf+la /\ 1 \in 1..la /\ lw + (lf + 1) = lw + lf + 1
      BY <2>4
    <3>2. c[lf + 1] = a[1]
      BY <1>2, <1>5, <3>1
    <3>3. s[lw + (lf + 1)] = c[lf + 1]
      BY <1>2, <1>4, <1>5, <3>1
    <3>4. a[1] = Blank /\ lf # 0
      BY <1>5, <2>4 DEF Named, Led
    <3> QED
      BY <3>1, <3>2, <3>3, <3>4
  <2> QED
    BY <2>1, <2>2, <2>3, <2>4
<1>7. PICK text : text = {i \in 1..Len(s) : s[i] # Blank}
  OBVIOUS
<1>8. PICK start : start = IF text = {} THEN Len(s) + 1 ELSE Min(text)
  OBVIOUS
<1>9. start = lw + 1
  <2>1. CASE lf = 0
    <3>1. la = 0 /\ text = {}
      BY <1>6, <1>7, <2>1
    <3> QED
      BY <1>6, <1>8, <2>1, <3>1
  <2>2. CASE lf # 0
    <3>1. lw + 1 \in text
      BY <1>6, <1>7, <2>2
    <3>2. text \subseteq Nat /\ \A i \in text : i \in Nat /\ i >= lw + 1
      <4>1. text \subseteq Nat
        BY <1>7
      <4>2. ASSUME NEW i \in text
            PROVE  i \in Nat /\ i >= lw + 1
        <5>1. i \in 1..lw + lf + la /\ s[i] # Blank
          BY <1>6, <1>7
        <5>2. i \notin 1..lw
          BY <1>6, <5>1
        <5> QED
          BY <5>1, <5>2
      <4> QED
        BY <4>1, <4>2
    <3>3. Min(text) \in text /\ \A i \in text : Min(text) <= i
      BY <3>1, <3>2, MinIs
    <3>4. start \in text /\ start <= lw + 1
      BY <1>8, <3>1, <3>3
    <3> QED
      BY <3>2, <3>4
  <2> QED
    BY <2>1, <2>2
<1>10. PICK space : space = FindFrom(s, Blank, start)
  OBVIOUS
<1>11. \/ space = 0 /\ \A i \in lw+1..lw+lf+la : s[i] # Blank
       \/ /\ space \in lw+1..lw+lf+la /\ s[space] = Blank
          /\ \A i \in lw+1..space-1 : s[i] # Blank
  <2>1. lw + 1 \in Nat /\ lw + 1 >= 1
    OBVIOUS
  <2>2. \/ FindFrom(s, Blank, lw + 1) = 0 /\ \A i \in lw+1..Len(s) : s[i] # Blank
        \/ /\ FindFrom(s, Blank, lw + 1) \in lw+1..Len(s) /\ s[FindFrom(s, Blank, lw + 1)] = Blank
           /\ \A i \in lw+1..FindFrom(s, Blank, lw + 1)-1 : s[i] # Blank
    BY <1>4, <2>1, FindFromIs
  <2> QED
    BY <1>6, <1>9, <1>10, <2>2
<1>12. PICK pos : pos = IF space = 0 THEN Len(s) + 1 ELSE space
  OBVIOUS
<1>13. pos = lw + lf + 1
  <2>1. CASE la = 0
    <3>1. ~(space \in lw+1..lw+lf+la /\ s[space] = Blank)
      BY <1>6, <2>1
    <3>2. space = 0
      BY <1>11, <3>1
    <3> QED
      BY <1>6, <1>12, <2>1, <3>2
  <2>2. CASE la # 0
    <3>1. s[lw + lf + 1] = Blank /\ lw + lf + 1 \in lw+1..lw+lf+la
      BY <1>6, <2>2
    <3>2. /\ space \in lw+1..lw+lf+la /\ s[space] = Blank
          /\ \A i \in lw+1..space-1 : s[i] # Blank
      BY <1>11, <3>1
    <3>3. space \in Nat /\ space \notin lw+1..lw+lf
      BY <1>6, <3>2
    <3>4. lw + lf + 1 \notin lw+1..space-1
      BY <3>1, <3>2
    <3>5. space = lw + lf + 1
      BY <3>2, <3>3, <3>4
    <3> QED
      BY <1>12, <3>5
  <2> QED
    BY <2>1, <2>2
<1>14. SubSeq(s, start, pos - 1) = f
  <2>1. SubSeq(w ++ (f ++ a), Len(w) + 1, Len(w) + Len(f)) = f
    BY MiddlePart
  <2>2. pos - 1 = lw + lf
    BY <1>13
  <2> QED
    BY <1>1, <1>3, <1>5, <1>9, <2>1, <2>2
<1>15. From(s, pos) = a
  <2>1. PICK y \in Texts : y = w ++ f /\ Len(y) = Len(w) + Len(f)
    BY Joined
  <2>2. s = y ++ a
    BY <1>1, <1>3, <2>1, ConcatAgain
  <2>3. SubSeq(y ++ a, Len(y) + 1, Len(y) + Len(a)) = a
    BY SecondPart
  <2>4. Len(y) + 1 = pos /\ Len(y) + Len(a) = Len(s)
    BY <1>5, <1>6, <1>13, <2>1
  <2> QED
    BY <2>2, <2>3, <2>4 DEF From
<1>16. SplitMakeFunc(s) = [fn |-> SubSeq(s, start, pos - 1), args |-> From(s, pos)]
  BY <1>7, <1>8, <1>10, <1>12 DEF SplitMakeFunc
<1> QED
  BY <1>1, <1>3, <1>14, <1>15, <1>16

LEMMA SplitExists ==
    ASSUME NEW s \in Texts
    PROVE  \E w \in Texts, f \in Texts, a \in Texts :
               s = w ++ (f ++ a) /\ Blanks(w) /\ Named(f, a)
<1>0. <<>> \in Texts /\ Len(<<>>) = 0 /\ s ++ <<>> = s /\ Len(s) \in Nat
  BY NothingIs, ConcatNothing, TextIs
<1>1. CASE Blanks(s)
  <2>1. PICK e \in Texts : e = <<>>
    BY <1>0
  <2>2. Len(e) = 0 /\ s ++ e = s /\ e ++ e = e
    BY <1>0, <2>1, ConcatNothing
  <2>3. Named(e, e)
    BY <2>2 DEF Named, NoBlank, Led
  <2>4. s = s ++ (e ++ e)
    BY <2>2
  <2> QED
    BY <1>1, <2>3, <2>4
<1>2. CASE ~Blanks(s)
  <2> DEFINE T == {k \in 1..Len(s) : s[k] # Blank}
  <2>1. T \subseteq Nat /\ T # {}
    BY <1>2 DEF Blanks
  <2> HIDE DEF T
  <2>2. PICK k \in T : \A i \in T : k <= i
    BY <2>1, Least
  <2>3. k \in 1..Len(s) /\ s[k] # Blank
    BY <2>2 DEF T
  <2>4. ASSUME NEW i \in 1..k-1
        PROVE  s[i] = Blank
    <3>1. i \in 1..Len(s) /\ ~(k <= i)
      BY <1>0, <2>3
    <3> QED
      BY <2>2, <3>1 DEF T
  <2>5. PICK w \in Texts, c \in Texts :
               /\ s = w ++ c /\ Len(w) = k - 1 /\ Len(c) = Len(s) - (k - 1)
               /\ \A i \in 1..k - 1 : w[i] = s[i]
               /\ \A i \in 1..Len(s) - (k - 1) : c[i] = s[k - 1 + i]
    <3>1. k - 1 \in 0..Len(s)
      BY <1>0, <2>3
    <3> QED
      BY <3>1, SplitIn
  <2>6. Blanks(w)
    BY <2>4, <2>5 DEF Blanks
  <2>7. Len(c) \in Nat /\ Len(c) >= 1 /\ c[1] # Blank
    <3>1. 1 \in 1..Len(s) - (k - 1) /\ k - 1 + 1 = k
      BY <1>0, <2>3
    <3>2. c[1] = s[k - 1 + 1]
      BY <2>5, <3>1
    <3> QED
      BY <1>0, <2>3, <2>5, <3>1, <3>2
  <2>8. CASE NoBlank(c)
    <3>1. PICK e \in Texts : e = <<>>
      BY <1>0
    <3>2. Len(e) = 0 /\ c ++ e = c
      BY <1>0, <3>1, ConcatNothing
    <3>3. Named(c, e)
      BY <2>8, <3>2 DEF Named, Led
    <3>4. s = w ++ (c ++ e)
      BY <2>5, <3>2
    <3> QED
      BY <2>6, <3>3, <3>4
  <2>9. CASE ~NoBlank(c)
    <3> DEFINE U == {i \in 1..Len(c) : c[i] = Blank}
    <3>1. U \subseteq Nat /\ U # {}
      BY <2>9 DEF NoBlank
    <3> HIDE DEF U
    <3>2. PICK j \in U : \A i \in U : j <= i
      BY <3>1, Least
    <3>3. j \in 1..Len(c) /\ c[j] = Blank /\ j # 1
      BY <2>7, <3>2 DEF U
    <3>4. ASSUME NEW i \in 1..j-1
          PROVE  c[i] # Blank
      <4>1. i \in 1..Len(c) /\ ~(j <= i)
        BY <2>7, <3>3
      <4> QED
        BY <3>2, <4>1 DEF U
    <3>5. PICK f \in Texts, a \in Texts :
                 /\ c = f ++ a /\ Len(f) = j - 1 /\ Len(a) = Len(c) - (j - 1)
                 /\ \A i \in 1..j - 1 : f[i] = c[i]
                 /\ \A i \in 1..Len(c) - (j - 1) : a[i] = c[j - 1 + i]
      <4>1. j - 1 \in 0..Len(c)
        BY <2>7, <3>3
      <4> QED
        BY <4>1, SplitIn
    <3>6. NoBlank(f) /\ Len(f) # 0
      BY <3>3, <3>4, <3>5 DEF NoBlank
    <3>7. Led(a)
      <4>1. 1 \in 1..Len(c) - (j - 1) /\ j - 1 + 1 = j
        BY <2>7, <3>3
      <4>2. a[1] = c[j - 1 + 1]
        BY <3>5, <4>1
      <4> QED
        BY <3>3, <4>1, <4>2 DEF Led
    <3>8. Named(f, a)
      BY <3>6, <3>7 DEF Named
    <3>9. s = w ++ (f ++ a)
      BY <2>5, <3>5
    <3> QED
      BY <2>6, <3>8, <3>9
  <2> QED
    BY <2>8, <2>9
<1> QED
  BY <1>1, <1>2

-----------------------------------------------------------------------------
(* What an expression becomes. *)

Within == [Texts -> [Texts -> Texts]]

Sort == <<"sort">>
Wildcard == <<"wildcard">>
Shell == <<"shell">>
Space == <<Blank>>
Pipe == Space ++ <<"| sort">>

Needed(args) == StartsWithLs(TrimCopy(args)) /\ FindFrom(args, "| sort", 1) = 0

Rebuilt(f, args, p) ==
    IF f = Wildcard /\ p # Sort THEN Bracketed(Sort ++ (Space ++ Bracketed(Wildcard ++ args)))
    ELSE IF f = Shell /\ Needed(args) THEN Bracketed(f ++ (args ++ Pipe))
    ELSE Bracketed(f ++ args)

LEMMA WordsAre ==
    /\ Sort \in Texts /\ Wildcard \in Texts /\ Shell \in Texts /\ Space \in Texts /\ <<"| sort">> \in Texts
    /\ Pipe \in Texts /\ Opening \in Texts /\ Shutting \in Texts
<1>1. {"sort", "wildcard", "shell", Blank, "| sort", "$(", ")"} \subseteq Tokens
  BY TokensAssumption
<1>2. /\ <<"sort">> \in Texts /\ <<"wildcard">> \in Texts /\ <<"shell">> \in Texts /\ <<Blank>> \in Texts
      /\ <<"| sort">> \in Texts /\ <<"$(">> \in Texts /\ <<")">> \in Texts
  BY <1>1, OneIs
<1>3. <<Blank>> ++ <<"| sort">> \in Texts
  BY <1>2, Joined
<1> QED
  BY <1>2, <1>3 DEF Sort, Wildcard, Shell, Space, Pipe, Opening, Shutting

LEMMA ConsIs ==
    ASSUME NEW a \in Tokens, NEW r \in Texts
    PROVE  \E q \in Texts : /\ q = <<a>> ++ r /\ Len(q) = 1 + Len(r) /\ q[1] = a
                            /\ \A k \in 1..Len(r) : q[1 + k] = r[k]
<1>1. <<a>> \in Texts /\ Len(<<a>>) = 1 /\ <<a>>[1] = a
  BY OneIs
<1>2. PICK o \in Texts : o = <<a>> /\ Len(o) = 1 /\ o[1] = a
  BY <1>1
<1>3. /\ o ++ r \in Texts /\ Len(o ++ r) = Len(o) + Len(r)
      /\ \A k \in 1..Len(o) : (o ++ r)[k] = o[k]
      /\ \A k \in 1..Len(r) : (o ++ r)[Len(o) + k] = r[k]
  BY ConcatIs
<1> QED
  BY <1>2, <1>3

LEMMA PairIs ==
    ASSUME NEW a \in Tokens, NEW b \in Tokens
    PROVE  <<a, b>> = <<a>> ++ <<b>>
<1>1. PICK o : o = <<b>>
  OBVIOUS
<1>2. o \in Texts /\ Len(o) = 1 /\ o[1] = b
  BY <1>1, OneIs
<1>3. PICK q \in Texts : q = <<a>> ++ o /\ Len(q) = 1 + Len(o) /\ q[1] = a /\ \A k \in 1..Len(o) : q[1 + k] = o[k]
  BY <1>2, ConsIs
<1>4. PICK t : t = <<a, b>>
  OBVIOUS
<1>5. t \in Texts
  BY <1>4 DEF Texts
<1>6. Len(t) = 2 /\ t[1] = a /\ t[2] = b
  BY <1>4
<1>7. q[1 + 1] = b
  BY <1>2, <1>3
<1>8. Len(q) = Len(t) /\ \A k \in 1..Len(q) : q[k] = t[k]
  BY <1>2, <1>3, <1>6, <1>7
<1>9. q = t
  BY <1>5, <1>8, TextsEqual
<1> QED
  BY <1>1, <1>3, <1>4, <1>9

LEMMA TripleIs ==
    ASSUME NEW a \in Tokens, NEW b \in Tokens, NEW c \in Tokens
    PROVE  <<a, b, c>> = <<a>> ++ <<b, c>>
<1>1. PICK o : o = <<b, c>>
  OBVIOUS
<1>2. o \in Texts
  BY <1>1 DEF Texts
<1>3. Len(o) = 2 /\ o[1] = b /\ o[2] = c
  BY <1>1
<1>4. PICK q \in Texts : q = <<a>> ++ o /\ Len(q) = 1 + Len(o) /\ q[1] = a /\ \A k \in 1..Len(o) : q[1 + k] = o[k]
  BY <1>2, ConsIs
<1>5. PICK t : t = <<a, b, c>>
  OBVIOUS
<1>6. t \in Texts
  BY <1>5 DEF Texts
<1>7. Len(t) = 3 /\ t[1] = a /\ t[2] = b /\ t[3] = c
  BY <1>5
<1>8. q[1 + 1] = b /\ q[1 + 2] = c
  BY <1>3, <1>4
<1>9. Len(q) = Len(t) /\ \A k \in 1..Len(q) : q[k] = t[k]
  BY <1>3, <1>4, <1>7, <1>8
<1>10. q = t
  BY <1>6, <1>9, TextsEqual
<1> QED
  BY <1>1, <1>4, <1>5, <1>10

LEMMA LongIs ==
    <<"$(", "sort", Blank, "$(", "wildcard">> = Opening ++ (Sort ++ (Space ++ (Opening ++ Wildcard)))
<1>0. {"sort", "wildcard", Blank, "$("} \subseteq Tokens
  BY TokensAssumption
<1>1. PICK a \in Tokens, b \in Tokens, c \in Tokens, d \in Tokens :
          a = "$(" /\ b = "sort" /\ c = Blank /\ d = "wildcard"
  BY <1>0
<1>2. PICK o : o = <<a, d>>
  OBVIOUS
<1>3. o \in Texts
  BY <1>2 DEF Texts
<1>4. Len(o) = 2 /\ o[1] = a /\ o[2] = d
  BY <1>2
<1>5. PICK q \in Texts : q = <<c>> ++ o /\ Len(q) = 1 + Len(o) /\ q[1] = c /\ \A k \in 1..Len(o) : q[1 + k] = o[k]
  BY <1>3, ConsIs
<1>6. PICK r \in Texts : r = <<b>> ++ q /\ Len(r) = 1 + Len(q) /\ r[1] = b /\ \A k \in 1..Len(q) : r[1 + k] = q[k]
  BY ConsIs
<1>7. PICK s \in Texts : s = <<a>> ++ r /\ Len(s) = 1 + Len(r) /\ s[1] = a /\ \A k \in 1..Len(r) : s[1 + k] = r[k]
  BY ConsIs
<1>8. PICK t : t = <<a, b, c, a, d>>
  OBVIOUS
<1>9. t \in Texts
  BY <1>8 DEF Texts
<1>10. Len(t) = 5 /\ t[1] = a /\ t[2] = b /\ t[3] = c /\ t[4] = a /\ t[5] = d
  BY <1>8
<1>11. Len(q) = 3 /\ q[1] = c /\ q[2] = a /\ q[3] = d
  <2>1. q[1 + 1] = a /\ q[1 + 2] = d
    BY <1>4, <1>5
  <2> QED
    BY <1>4, <1>5, <2>1
<1>12. Len(r) = 4 /\ r[1] = b /\ r[2] = c /\ r[3] = a /\ r[4] = d
  <2>1. r[1 + 1] = c /\ r[1 + 2] = a /\ r[1 + 3] = d
    BY <1>6, <1>11
  <2> QED
    BY <1>6, <1>11, <2>1
<1>13. Len(s) = 5 /\ s[1] = a /\ s[2] = b /\ s[3] = c /\ s[4] = a /\ s[5] = d
  <2>1. s[1 + 1] = b /\ s[1 + 2] = c /\ s[1 + 3] = a /\ s[1 + 4] = d
    BY <1>7, <1>12
  <2> QED
    BY <1>7, <1>12, <2>1
<1>14. Len(s) = Len(t) /\ \A k \in 1..Len(s) : s[k] = t[k]
  BY <1>10, <1>13
<1>15. s = t
  BY <1>9, <1>14, TextsEqual
<1>16. <<a, d>> = <<a>> ++ <<d>>
  BY PairIs
<1>17. <<a, b, c, a, d>> = <<a>> ++ (<<b>> ++ (<<c>> ++ (<<a>> ++ <<d>>)))
  BY <1>2, <1>5, <1>6, <1>7, <1>8, <1>15, <1>16
<1> QED
  BY <1>1, <1>17 DEF Opening, Sort, Space, Wildcard

(* A call put together the way the code does. *)
LEMMA CallIs ==
    ASSUME NEW f \in Texts, NEW args \in Texts
    PROVE  /\ Opening \o f \o args \o Shutting = Bracketed(f ++ args)
           /\ (Opening \o f) \o args \o Shutting = Bracketed(f ++ args)
<1>1. Opening \in Texts /\ Shutting \in Texts
  BY WordsAre
<1>2. f ++ args \in Texts
  BY Joined
<1>3. ((Opening ++ f) ++ args) ++ Shutting = Opening ++ ((f ++ args) ++ Shutting)
  BY <1>1, <1>2, ConcatAgain
<1> QED
  BY <1>3 DEF Bracketed, ++

LEMMA WrappedIs ==
    ASSUME NEW args \in Texts
    PROVE  <<"$(", "sort", Blank, "$(", "wildcard">> \o args \o <<")", ")">>
           = Bracketed(Sort ++ (Space ++ Bracketed(Wildcard ++ args)))
<1>1. /\ Sort \in Texts /\ Wildcard \in Texts /\ Space \in Texts /\ Opening \in Texts /\ Shutting \in Texts
  BY WordsAre
<1>2. <<")", ")">> = Shutting ++ Shutting
  BY TokensAssumption, PairIs DEF Shutting
<1>3. PICK u \in Texts : u = Wildcard ++ args
  BY <1>1, Joined
<1>4. PICK v \in Texts : v = Opening ++ Wildcard
  BY <1>1, Joined
<1>5. PICK x \in Texts : x = Space ++ v
  BY <1>1, Joined
<1>6. PICK y \in Texts : y = Sort ++ x
  BY <1>1, Joined
<1>7. PICK z \in Texts : z = Shutting ++ Shutting
  BY <1>1, Joined
<1>8. PICK k \in Texts : k = args ++ z
  BY Joined
<1>9. ((Opening ++ y) ++ args) ++ z = Opening ++ (y ++ k)
  <2>1. PICK g \in Texts, h \in Texts : g = Opening ++ y /\ h = y ++ k
    BY <1>1, Joined
  <2>2. (g ++ args) ++ z = g ++ k
    BY <1>8, ConcatAgain
  <2>3. g ++ k = Opening ++ h
    BY <1>1, <2>1, ConcatAgain
  <2> QED
    BY <2>1, <2>2, <2>3
<1>10. y ++ k = Sort ++ (x ++ k)
  BY <1>1, <1>6, ConcatAgain
<1>11. x ++ k = Space ++ (v ++ k)
  BY <1>1, <1>5, ConcatAgain
<1>12. v ++ k = Opening ++ (Wildcard ++ k)
  BY <1>1, <1>4, ConcatAgain
<1>13. Wildcard ++ k = (u ++ Shutting) ++ Shutting
  <2>1. Wildcard ++ (args ++ z) = u ++ z
    BY <1>1, <1>3, ConcatAgain
  <2>2. u ++ z = (u ++ Shutting) ++ Shutting
    BY <1>1, <1>7, ConcatAgain
  <2> QED
    BY <1>8, <2>1, <2>2
<1>14. PICK m \in Texts, n \in Texts : m = u ++ Shutting /\ n = Opening ++ m
  <2>1. PICK m \in Texts : m = u ++ Shutting
    BY <1>1, Joined
  <2> QED
    BY <1>1, <2>1, Joined
<1>15. v ++ k = n ++ Shutting
  BY <1>1, <1>12, <1>13, <1>14, ConcatAgain
<1>16. Space ++ (n ++ Shutting) = (Space ++ n) ++ Shutting
  BY <1>1, ConcatAgain
<1>17. PICK s \in Texts : s = Space ++ n
  BY <1>1, Joined
<1>18. Sort ++ (s ++ Shutting) = (Sort ++ s) ++ Shutting
  BY <1>1, ConcatAgain
<1>19. ((Opening ++ y) ++ args) ++ z = Opening ++ ((Sort ++ s) ++ Shutting)
  BY <1>9, <1>10, <1>11, <1>15, <1>16, <1>17, <1>18
<1>20. Opening ++ y = <<"$(", "sort", Blank, "$(", "wildcard">>
  BY <1>4, <1>5, <1>6, LongIs
<1>21. s = Space ++ Bracketed(Wildcard ++ args)
  BY <1>3, <1>14, <1>17 DEF Bracketed
<1>22. Bracketed(Sort ++ s) = Opening ++ ((Sort ++ s) ++ Shutting)
  BY DEF Bracketed
<1>23. (<<"$(", "sort", Blank, "$(", "wildcard">> ++ args) ++ <<")", ")">> = Bracketed(Sort ++ s)
  BY <1>2, <1>7, <1>19, <1>20, <1>22
<1> QED
  BY <1>21, <1>23 DEF ++

LEMMA PipedIs ==
    ASSUME NEW args \in Texts
    PROVE  <<"$(", "shell">> \o args \o <<Blank, "| sort", ")">> = Bracketed(Shell ++ (args ++ Pipe))
<1>1. Shell \in Texts /\ Opening \in Texts /\ Shutting \in Texts /\ Pipe \in Texts
  BY WordsAre
<1>2. <<"$(", "shell">> = Opening ++ Shell
  BY TokensAssumption, PairIs DEF Opening, Shell
<1>3. <<Blank, "| sort", ")">> = Pipe ++ Shutting
  <2>1. {Blank, "| sort", ")"} \subseteq Tokens
    BY TokensAssumption
  <2>2. PICK a \in Tokens, b \in Tokens, c \in Tokens : a = Blank /\ b = "| sort" /\ c = ")"
    BY <2>1
  <2>3. <<a>> \in Texts /\ <<b>> \in Texts /\ <<c>> \in Texts
    BY OneIs
  <2>4. <<a>> ++ (<<b>> ++ <<c>>) = (<<a>> ++ <<b>>) ++ <<c>>
    BY <2>3, ConcatAgain
  <2>5. <<a, b, c>> = <<a>> ++ <<b, c>> /\ <<b, c>> = <<b>> ++ <<c>>
    BY TripleIs, PairIs
  <2>6. <<a, b, c>> = (<<a>> ++ <<b>>) ++ <<c>>
    BY <2>4, <2>5
  <2> QED
    BY <2>2, <2>6 DEF Pipe, Space, Shutting
<1>4. PICK x \in Texts : x = args ++ Pipe
  BY <1>1, Joined
<1>5. (Opening ++ Shell) ++ args = Opening ++ (Shell ++ args)
  BY <1>1, ConcatAgain
<1>6. PICK u \in Texts, z \in Texts : u = Shell ++ args /\ z = Pipe ++ Shutting
  BY <1>1, Joined
<1>7. (Opening ++ u) ++ z = Opening ++ (u ++ z)
  BY <1>1, ConcatAgain
<1>8. u ++ z = Shell ++ (args ++ z)
  BY <1>1, <1>6, ConcatAgain
<1>9. args ++ z = x ++ Shutting
  BY <1>1, <1>4, <1>6, ConcatAgain
<1>10. Shell ++ (x ++ Shutting) = (Shell ++ x) ++ Shutting
  BY <1>1, ConcatAgain
<1>11. (<<"$(", "shell">> ++ args) ++ <<Blank, "| sort", ")">> = Bracketed(Shell ++ x)
  BY <1>2, <1>3, <1>5, <1>6, <1>7, <1>8, <1>9, <1>10 DEF Bracketed
<1> QED
  BY <1>4, <1>11 DEF ++

LEMMA ExprIs ==
    ASSUME NEW s, NEW p, NEW w, NEW f \in Texts, NEW args \in Texts,
           SplitMakeFunc(s).fn = f, w[SplitMakeFunc(s).args][f] = args
    PROVE  CanonicalizeMakeExpr(s, p, w) = Rebuilt(f, args, p)
<1>1. CanonicalizeMakeExpr(s, p, w) =
        CASE f = <<"wildcard">> -> MaybeWrapWildcardWithSort(args, p)
          [] f = <<"shell">>    -> MaybeSortShellLs(args)
          [] OTHER              -> <<"$(">> \o f \o args \o <<")">>
  BY DEF CanonicalizeMakeExpr
<1>2. <<"wildcard">> # <<"shell">>
  OBVIOUS
<1>3. CASE f = Wildcard
  <2>1. CanonicalizeMakeExpr(s, p, w) = MaybeWrapWildcardWithSort(args, p)
    BY <1>1, <1>2, <1>3 DEF Wildcard
  <2>2. Opening ++ Wildcard = <<"$(", "wildcard">>
    BY TokensAssumption, PairIs DEF Opening, Wildcard
  <2>3. <<"$(", "wildcard">> \o args \o <<")">> = Bracketed(Wildcard ++ args)
    <3>1. (Opening \o Wildcard) \o args \o Shutting = Bracketed(Wildcard ++ args)
      BY WordsAre, CallIs
    <3>2. Opening \o Wildcard = <<"$(", "wildcard">>
      BY <2>2 DEF ++
    <3> QED
      BY <3>1, <3>2 DEF Shutting
  <2>4. f # Shell
    BY <1>2, <1>3 DEF Wildcard, Shell
  <2> QED
    BY <1>3, <2>1, <2>3, <2>4, WrappedIs DEF MaybeWrapWildcardWithSort, Rebuilt, Sort
<1>4. CASE f = Shell
  <2>1. CanonicalizeMakeExpr(s, p, w) = MaybeSortShellLs(args)
    BY <1>1, <1>2, <1>4 DEF Shell
  <2>2. Opening ++ Shell = <<"$(", "shell">>
    BY TokensAssumption, PairIs DEF Opening, Shell
  <2>3. <<"$(", "shell">> \o args \o <<")">> = Bracketed(Shell ++ args)
    <3>1. (Opening \o Shell) \o args \o Shutting = Bracketed(Shell ++ args)
      BY WordsAre, CallIs
    <3>2. Opening \o Shell = <<"$(", "shell">>
      BY <2>2 DEF ++
    <3> QED
      BY <3>1, <3>2 DEF Shutting
  <2>4. f # Wildcard
    BY <1>2, <1>4 DEF Wildcard, Shell
  <2> QED
    BY <1>4, <2>1, <2>3, <2>4, PipedIs DEF MaybeSortShellLs, Rebuilt, Needed
<1>5. CASE f # Wildcard /\ f # Shell
  <2>1. CanonicalizeMakeExpr(s, p, w) = Opening \o f \o args \o Shutting
    BY <1>1, <1>5 DEF Wildcard, Shell, Opening, Shutting
  <2> QED
    BY <1>5, <2>1, CallIs DEF Rebuilt
<1> QED
  BY <1>3, <1>4, <1>5

-----------------------------------------------------------------------------
(* The rewriting of a text is one round of it, with that of what is shorter. *)

LEMMA Forms ==
    ASSUME NEW t \in Texts
    PROVE  \/ NoOpen(t)
           \/ \E b \in Texts, x \in Texts : t = b ++ (Opening ++ x) /\ NoOpen(b) /\ Above(x, 0)
           \/ \E b \in Texts, s \in Texts, r \in Texts :
                  t = b ++ (Bracketed(s) ++ r) /\ NoOpen(b) /\ Balanced(s)
<1>1. CASE NoOpen(t)
  BY <1>1
<1>2. CASE ~NoOpen(t)
  <2>1. PICK b \in Texts, x \in Texts : t = b ++ (Opening ++ x) /\ NoOpen(b)
    BY <1>2, FirstOpening
  <2>2. CASE Above(x, 0)
    BY <2>1, <2>2
  <2>3. CASE ~Above(x, 0)
    <3>1. PICK s \in Texts, r \in Texts : x = s ++ (Shutting ++ r) /\ Balanced(s)
      BY <2>3, Closing
    <3>2. b ++ (Bracketed(s) ++ r) = b ++ (Opening ++ (s ++ (Shutting ++ r)))
      BY ClosedAgain
    <3>3. t = b ++ (Bracketed(s) ++ r)
      BY <2>1, <3>1, <3>2
    <3> QED
      BY <2>1, <3>1, <3>3
  <2> QED
    BY <2>2, <2>3
<1> QED
  BY <1>1, <1>2

LEMMA BracketedIs ==
    ASSUME NEW s \in Texts
    PROVE  Bracketed(s) \in Texts /\ Len(Bracketed(s)) = Len(s) + 2
<1>1. Opening \in Texts /\ Len(Opening) = 1 /\ Shutting \in Texts /\ Len(Shutting) = 1
  BY BracketsAre
<1>2. PICK u \in Texts : u = s ++ Shutting /\ Len(u) = Len(s) + 1
  <2>1. s ++ Shutting \in Texts /\ Len(s ++ Shutting) = Len(s) + Len(Shutting)
    BY <1>1, Joined
  <2> QED
    BY <1>1, <2>1
<1>3. Opening ++ u \in Texts /\ Len(Opening ++ u) = Len(Opening) + Len(u)
  BY <1>1, Joined
<1>4. Len(s) \in Nat
  BY TextIs
<1>5. Len(Opening ++ u) = Len(s) + 2
  BY <1>1, <1>2, <1>3, <1>4
<1> QED
  BY <1>2, <1>3, <1>5 DEF Bracketed

(* The parts of a text are shorter than it. *)
LEMMA PartsAreShorter ==
    ASSUME NEW b \in Texts, NEW s \in Texts, NEW r \in Texts
    PROVE  /\ b ++ (Bracketed(s) ++ r) \in Texts
           /\ Len(s) < Len(b ++ (Bracketed(s) ++ r)) /\ Len(r) < Len(b ++ (Bracketed(s) ++ r))
<1>1. PICK e \in Texts : e = Bracketed(s) /\ Len(e) = Len(s) + 2
  BY BracketedIs
<1>2. e ++ r \in Texts /\ Len(e ++ r) = Len(e) + Len(r)
  BY Joined
<1>3. PICK x \in Texts : x = e ++ r /\ Len(x) = Len(e) + Len(r)
  BY <1>2
<1>4. b ++ x \in Texts /\ Len(b ++ x) = Len(b) + Len(x)
  BY Joined
<1>5. Len(b) \in Nat /\ Len(s) \in Nat /\ Len(r) \in Nat
  BY TextIs
<1>6. Len(s) < Len(b ++ x) /\ Len(r) < Len(b ++ x)
  BY <1>1, <1>3, <1>4, <1>5
<1> QED
  BY <1>1, <1>3, <1>4, <1>6

LEMMA RebuiltIs ==
    ASSUME NEW f \in Texts, NEW args \in Texts, NEW p
    PROVE  Rebuilt(f, args, p) \in Texts
<1>1. Sort \in Texts /\ Wildcard \in Texts /\ Space \in Texts /\ Pipe \in Texts
  BY WordsAre
<1>2. Bracketed(f ++ args) \in Texts
  BY Joined, BracketedIs
<1>3. Bracketed(f ++ (args ++ Pipe)) \in Texts
  BY <1>1, Joined, BracketedIs
<1>4. Bracketed(Sort ++ (Space ++ Bracketed(Wildcard ++ args))) \in Texts
  <2>1. PICK e \in Texts : e = Bracketed(Wildcard ++ args)
    BY <1>1, Joined, BracketedIs
  <2>2. Sort ++ (Space ++ e) \in Texts
    BY <1>1, Joined
  <2> QED
    BY <2>1, <2>2, BracketedIs
<1> QED
  BY <1>2, <1>3, <1>4 DEF Rebuilt

(* What the code makes of an expression with the inside s. *)
Calls(s, f, a) ==
    \A p, w : w \in Within =>
        w[a][f] \in Texts /\ CanonicalizeMakeExpr(s, p, w) = Rebuilt(f, w[a][f], p)

(* The arguments are not longer than the inside. *)
LEMMA ExprForm ==
    ASSUME NEW s \in Texts
    PROVE  \E v \in Texts, f \in Texts, a \in Texts :
               /\ s = v ++ (f ++ a) /\ Blanks(v) /\ Named(f, a)
               /\ Len(a) <= Len(s) /\ Calls(s, f, a)
<1>1. PICK v \in Texts, f \in Texts, a \in Texts : s = v ++ (f ++ a) /\ Blanks(v) /\ Named(f, a)
  BY SplitExists
<1>2. SplitMakeFunc(s).fn = f /\ SplitMakeFunc(s).args = a
  BY <1>1, SplitForm
<1>3. Len(a) <= Len(s)
  <2>1. f ++ a \in Texts /\ Len(f ++ a) = Len(f) + Len(a)
    BY Joined
  <2>2. Len(s) = Len(v) + Len(f ++ a)
    BY <1>1, <2>1, Joined
  <2>3. Len(v) \in Nat /\ Len(f) \in Nat /\ Len(a) \in Nat
    BY TextIs
  <2> QED
    BY <2>1, <2>2, <2>3
<1>4. ASSUME NEW p, NEW w, w \in Within
      PROVE  w[a][f] \in Texts /\ CanonicalizeMakeExpr(s, p, w) = Rebuilt(f, w[a][f], p)
  <2>1. w[a][f] \in Texts
    BY <1>4 DEF Within
  <2>2. PICK args \in Texts : args = w[a][f]
    BY <2>1
  <2>3. w[SplitMakeFunc(s).args][f] = args
    BY <1>2, <2>2
  <2>4. CanonicalizeMakeExpr(s, p, w) = Rebuilt(f, args, p)
    BY <1>2, <2>3, ExprIs
  <2> QED
    BY <2>2, <2>4
<1> QED
  BY <1>1, <1>3, <1>4 DEF Calls

LEMMA OnceIs ==
    ASSUME NEW t \in Texts, NEW p \in Texts, NEW w \in Within
    PROVE  CanonicalizeOnce(t, p, w) \in Texts
<1>1. CASE NoOpen(t)
  BY <1>1, ReadsNone
<1>2. CASE \E b \in Texts, x \in Texts : t = b ++ (Opening ++ x) /\ NoOpen(b) /\ Above(x, 0)
  <2>1. PICK b \in Texts, x \in Texts : t = b ++ (Opening ++ x) /\ NoOpen(b) /\ Above(x, 0)
    BY <1>2
  <2>2. CanonicalizeOnce(t, p, w) = t
    BY <2>1, ReadsOpen
  <2> QED
    BY <2>2
<1>3. CASE \E b \in Texts, s \in Texts, r \in Texts :
              t = b ++ (Bracketed(s) ++ r) /\ NoOpen(b) /\ Balanced(s)
  <2>1. PICK b \in Texts, s \in Texts, r \in Texts :
              t = b ++ (Bracketed(s) ++ r) /\ NoOpen(b) /\ Balanced(s)
    BY <1>3
  <2>2. CanonicalizeOnce(t, p, w) = (b ++ CanonicalizeMakeExpr(s, p, w)) ++ w[r][p]
    BY <2>1, ReadsClosed
  <2>3. w[r][p] \in Texts
    BY DEF Within
  <2>4. CanonicalizeMakeExpr(s, p, w) \in Texts
    <3>1. PICK v \in Texts, f \in Texts, a \in Texts : Calls(s, f, a)
      BY ExprForm
    <3>2. w[a][f] \in Texts /\ CanonicalizeMakeExpr(s, p, w) = Rebuilt(f, w[a][f], p)
      BY <3>1 DEF Calls
    <3> QED
      BY <3>2, RebuiltIs
  <2>5. b ++ CanonicalizeMakeExpr(s, p, w) \in Texts
    BY <2>4, Joined
  <2> QED
    BY <2>2, <2>3, <2>5, Joined
<1> QED
  BY <1>1, <1>2, <1>3, Forms

LEMMA OnceSame ==
    ASSUME NEW t \in Texts, NEW p \in Texts, NEW w \in Within, NEW z \in Within,
           \A x \in Texts, q \in Texts : Len(x) < Len(t) => w[x][q] = z[x][q]
    PROVE  CanonicalizeOnce(t, p, w) = CanonicalizeOnce(t, p, z)
<1>1. CASE NoOpen(t)
  BY <1>1, ReadsNone
<1>2. CASE \E b \in Texts, x \in Texts : t = b ++ (Opening ++ x) /\ NoOpen(b) /\ Above(x, 0)
  <2>1. PICK b \in Texts, x \in Texts : t = b ++ (Opening ++ x) /\ NoOpen(b) /\ Above(x, 0)
    BY <1>2
  <2>2. CanonicalizeOnce(t, p, w) = t /\ CanonicalizeOnce(t, p, z) = t
    BY <2>1, ReadsOpen
  <2> QED
    BY <2>2
<1>3. CASE \E b \in Texts, s \in Texts, r \in Texts :
              t = b ++ (Bracketed(s) ++ r) /\ NoOpen(b) /\ Balanced(s)
  <2>1. PICK b \in Texts, s \in Texts, r \in Texts :
              t = b ++ (Bracketed(s) ++ r) /\ NoOpen(b) /\ Balanced(s)
    BY <1>3
  <2>2. /\ CanonicalizeOnce(t, p, w) = (b ++ CanonicalizeMakeExpr(s, p, w)) ++ w[r][p]
        /\ CanonicalizeOnce(t, p, z) = (b ++ CanonicalizeMakeExpr(s, p, z)) ++ z[r][p]
    BY <2>1, ReadsClosed
  <2>3. Len(s) < Len(t) /\ Len(r) < Len(t)
    BY <2>1, PartsAreShorter
  <2>4. w[r][p] = z[r][p]
    BY <2>3
  <2>5. CanonicalizeMakeExpr(s, p, w) = CanonicalizeMakeExpr(s, p, z)
    <3>1. PICK v \in Texts, f \in Texts, a \in Texts :
               Len(a) <= Len(s) /\ Calls(s, f, a)
      BY ExprForm
    <3>2. Len(a) < Len(t)
      <4>1. Len(a) \in Nat /\ Len(s) \in Nat /\ Len(t) \in Nat
        BY TextIs
      <4> QED
        BY <2>3, <3>1, <4>1
    <3>3. w[a][f] = z[a][f]
      BY <3>2
    <3> QED
      BY <3>1, <3>3 DEF Calls
  <2> QED
    BY <2>2, <2>4, <2>5
<1> QED
  BY <1>1, <1>2, <1>3, Forms

LEMMA UpToIs ==
    /\ CanonicalizedUpTo \in [Nat -> Within]
    /\ \A t \in Texts, p \in Texts :
           /\ CanonicalizedUpTo[0][t][p] = t
           /\ \A n \in Nat : CanonicalizedUpTo[n + 1][t][p] = CanonicalizeOnce(t, p, CanonicalizedUpTo[n])
<1> DEFINE c == [t \in Texts |-> [p \in Texts |-> t]]
           G(w) == [t \in Texts |-> [p \in Texts |-> CanonicalizeOnce(t, p, w)]]
           step == [w \in Within |-> G(w)]
           Recursive(g) == g = [n \in Nat |-> IF n = 0 THEN c ELSE G(g[n - 1])]
<1>1. c \in Within
  BY DEF Within
<1>2. \A w \in Within : G(w) \in Within
  BY OnceIs DEF Within
<1> HIDE DEF c, G
<1>3. step \in [Within -> Within]
  BY <1>2
<1>4. PICK f \in [Nat -> Within] : f[0] = c /\ \A k \in Nat : f[k + 1] = step[f[k]]
  <2> HIDE DEF step
  <2> QED
    BY <1>1, <1>3, Recursion
<1>5. \A k \in Nat : f[k + 1] = G(f[k])
  BY <1>4
<1>6. Recursive(f)
  <2>1. ASSUME NEW n \in Nat
        PROVE  f[n] = IF n = 0 THEN c ELSE G(f[n - 1])
    <3>1. CASE n = 0
      BY <1>4, <3>1
    <3>2. CASE n # 0
      <4>1. n - 1 \in Nat /\ n - 1 + 1 = n
        BY <3>2
      <4>2. f[n - 1 + 1] = G(f[n - 1])
        BY <1>5, <4>1
      <4> QED
        BY <3>2, <4>1, <4>2
    <3> QED
      BY <3>1, <3>2
  <2>2. f = [n \in Nat |-> f[n]]
    BY <1>4
  <2> QED
    BY <2>1, <2>2
<1>7. CanonicalizedUpTo = CHOOSE g : Recursive(g)
  BY DEF CanonicalizedUpTo, c, G
<1> DEFINE U == CanonicalizedUpTo
<1> HIDE DEF U
<1>8. Recursive(U)
  <2> HIDE DEF Recursive
  <2> QED
    BY <1>6, <1>7 DEF U
<1>9. DOMAIN U = Nat /\ U[0] = c /\ \A n \in Nat : U[n + 1] = G(U[n])
  <2>1. \A n \in Nat : U[n] = IF n = 0 THEN c ELSE G(U[n - 1])
    BY <1>8
  <2>2. DOMAIN U = Nat
    BY <1>8
  <2>3. ASSUME NEW n \in Nat
        PROVE  U[n + 1] = G(U[n])
    <3>1. n + 1 \in Nat /\ n + 1 # 0 /\ n + 1 - 1 = n
      OBVIOUS
    <3> QED
      BY <2>1, <3>1
  <2> QED
    BY <2>1, <2>2, <2>3
<1>10. ASSUME NEW n \in Nat
       PROVE  U[n] \in Within
  <2> DEFINE S == {k \in 0..n : U[k] \in Within}
  <2>1. 0 \in S
    BY <1>1, <1>9
  <2>2. \A j \in 0..n-1 : j \in S => j + 1 \in S
    BY <1>2, <1>9
  <2>3. n \in S
    <3> HIDE DEF S
    <3> QED
      BY <2>1, <2>2, Climb
  <2> QED
    BY <2>3
<1>11. U \in [Nat -> Within]
  <2>1. U = [n \in Nat |-> U[n]]
    BY <1>8
  <2> QED
    BY <1>10, <2>1
<1>12. ASSUME NEW t \in Texts, NEW p \in Texts
       PROVE  U[0][t][p] = t /\ \A n \in Nat : U[n + 1][t][p] = CanonicalizeOnce(t, p, U[n])
  <2>1. U[0][t][p] = t
    BY <1>9 DEF c
  <2>2. ASSUME NEW n \in Nat
        PROVE  U[n + 1][t][p] = CanonicalizeOnce(t, p, U[n])
    <3>1. U[n + 1] = G(U[n])
      BY <1>9
    <3>2. PICK w : w = U[n]
      OBVIOUS
    <3>3. G(w)[t][p] = CanonicalizeOnce(t, p, w)
      BY DEF G
    <3> QED
      BY <3>1, <3>2, <3>3
  <2> QED
    BY <2>1, <2>2
<1> QED
  BY <1>11, <1>12 DEF U

(* More rounds than tokens change nothing. *)
LEMMA RoundsAreEnough ==
    ASSUME NEW t \in Texts, NEW p \in Texts, NEW n \in Nat, Len(t) <= n
    PROVE  CanonicalizedUpTo[n][t][p] = CanonicalizeMakeText(t, p)
<1> DEFINE U == CanonicalizedUpTo
           Same(k) == \A x \in Texts, q \in Texts : Len(x) <= k => U[k][x][q] = U[k + 1][x][q]
<1> HIDE DEF U
<1>0. U \in [Nat -> Within] /\ \A x \in Texts, q \in Texts :
           U[0][x][q] = x /\ \A k \in Nat : U[k + 1][x][q] = CanonicalizeOnce(x, q, U[k])
  BY UpToIs DEF U
<1>1. Same(0)
  <2>1. ASSUME NEW x \in Texts, NEW q \in Texts, Len(x) <= 0
        PROVE  U[0][x][q] = U[0 + 1][x][q]
    <3>1. NoOpen(x)
      BY <2>1, TextIs DEF NoOpen
    <3>2. U[0 + 1][x][q] = CanonicalizeOnce(x, q, U[0]) /\ U[0][x][q] = x
      BY <1>0
    <3> QED
      BY <3>1, <3>2, ReadsNone
  <2> QED
    BY <2>1
<1>2. ASSUME NEW k \in Nat, Same(k)
      PROVE  Same(k + 1)
  <2>1. ASSUME NEW x \in Texts, NEW q \in Texts, Len(x) <= k + 1
        PROVE  U[k + 1][x][q] = U[k + 1 + 1][x][q]
    <3>1. U[k] \in Within /\ U[k + 1] \in Within
      BY <1>0
    <3>2. \A y \in Texts, r \in Texts : Len(y) < Len(x) => U[k][y][r] = U[k + 1][y][r]
      <4>1. \A y \in Texts : Len(y) \in Nat
        BY TextIs
      <4>2. \A y \in Texts : Len(y) < Len(x) => Len(y) <= k
        BY <2>1, <4>1
      <4> QED
        BY <1>2, <4>2
    <3>3. CanonicalizeOnce(x, q, U[k]) = CanonicalizeOnce(x, q, U[k + 1])
      BY <3>1, <3>2, OnceSame
    <3>4. U[k + 1][x][q] = CanonicalizeOnce(x, q, U[k])
      BY <1>0
    <3>5. U[k + 1 + 1][x][q] = CanonicalizeOnce(x, q, U[k + 1])
      <4>1. k + 1 \in Nat
        OBVIOUS
      <4> QED
        BY <1>0, <4>1
    <3> QED
      BY <3>3, <3>4, <3>5
  <2> QED
    BY <2>1
<1>3. \A k \in 0..n : Same(k)
  <2> HIDE DEF Same
  <2> DEFINE S == {k \in 0..n : Same(k)}
  <2>1. 0 \in S
    BY <1>1
  <2>2. \A j \in 0..n-1 : j \in S => j + 1 \in S
    BY <1>2
  <2>3. \A k \in 0..n : k \in S
    <3> HIDE DEF S
    <3> QED
      BY <2>1, <2>2, Climb
  <2> QED
    BY <2>3
<1>4. PICK l \in Nat : l = Len(t)
  BY TextIs
<1>5. U[n][t][p] = U[l][t][p]
  <2> DEFINE S == {j \in 0..n-l : U[l + j][t][p] = U[l][t][p]}
  <2>1. 0 \in S
    BY <1>4
  <2>2. ASSUME NEW j \in 0..(n-l)-1, j \in S
        PROVE  j + 1 \in S
    <3>1. l + j \in 0..n /\ l <= l + j /\ l + j + 1 = l + (j + 1) /\ j + 1 \in 0..n-l
      BY <1>4
    <3>2. U[l + j][t][p] = U[l + j + 1][t][p]
      BY <1>3, <1>4, <3>1
    <3> QED
      BY <2>2, <3>1, <3>2
  <2>3. n - l \in S
    <3>1. n - l \in Nat
      BY <1>4
    <3> HIDE DEF S
    <3> QED
      BY <2>1, <2>2, <3>1, Climb
  <2>4. l + (n - l) = n
    BY <1>4
  <2> QED
    BY <2>3, <2>4
<1> QED
  BY <1>4, <1>5 DEF CanonicalizeMakeText, U

Rewriting == [t \in Texts |-> [p \in Texts |-> CanonicalizeMakeText(t, p)]]

LEMMA RewritingIs ==
    /\ Rewriting \in Within
    /\ \A t \in Texts, p \in Texts :
           /\ CanonicalizeMakeText(t, p) \in Texts
           /\ Rewriting[t][p] = CanonicalizeMakeText(t, p)
           /\ CanonicalizeMakeText(t, p) = CanonicalizeOnce(t, p, Rewriting)
<1>1. ASSUME NEW t \in Texts, NEW p \in Texts
      PROVE  CanonicalizeMakeText(t, p) \in Texts
  <2>1. Len(t) \in Nat
    BY TextIs
  <2>2. CanonicalizedUpTo[Len(t)] \in [Texts -> [Texts -> Texts]]
    BY <2>1, UpToIs DEF Within
  <2>3. CanonicalizedUpTo[Len(t)][t][p] \in Texts
    BY <2>2
  <2> QED
    BY <2>3 DEF CanonicalizeMakeText
<1>2. Rewriting \in Within
  BY <1>1 DEF Rewriting, Within
<1>3. \A t \in Texts, p \in Texts : Rewriting[t][p] = CanonicalizeMakeText(t, p)
  BY DEF Rewriting
<1>4. ASSUME NEW t \in Texts, NEW p \in Texts
      PROVE  CanonicalizeMakeText(t, p) = CanonicalizeOnce(t, p, Rewriting)
  <2>1. PICK l \in Nat : l = Len(t)
    BY TextIs
  <2> DEFINE w == CanonicalizedUpTo[l]
  <2>2. w \in Within
    BY UpToIs
  <2> HIDE DEF w
  <2>3. CanonicalizedUpTo[l + 1][t][p] = CanonicalizeOnce(t, p, w)
    BY UpToIs DEF w
  <2>4. CanonicalizedUpTo[l + 1][t][p] = CanonicalizeMakeText(t, p)
    <3>1. l + 1 \in Nat /\ Len(t) <= l + 1
      BY <2>1
    <3> QED
      BY <3>1, RoundsAreEnough
  <2>5. ASSUME NEW x \in Texts, NEW q \in Texts, Len(x) < Len(t)
        PROVE  w[x][q] = Rewriting[x][q]
    <3>1. Len(x) <= l
      BY <2>1, <2>5, TextIs
    <3>2. CanonicalizedUpTo[l][x][q] = CanonicalizeMakeText(x, q)
      BY <3>1, RoundsAreEnough
    <3> QED
      BY <1>3, <3>2 DEF w
  <2>6. CanonicalizeOnce(t, p, w) = CanonicalizeOnce(t, p, Rewriting)
    BY <1>2, <2>2, <2>5, OnceSame
  <2> QED
    BY <2>3, <2>4, <2>6
<1> QED
  BY <1>1, <1>2, <1>3, <1>4

-----------------------------------------------------------------------------
(* What the rewriting makes of a text. *)

LEMMA ComesClosed ==
    ASSUME NEW b \in Texts, NEW s \in Texts, NEW r \in Texts, NoOpen(b), Balanced(s), NEW p \in Texts
    PROVE  CanonicalizeMakeText(b ++ (Bracketed(s) ++ r), p)
           = (b ++ CanonicalizeMakeExpr(s, p, Rewriting)) ++ CanonicalizeMakeText(r, p)
<1>1. PICK t \in Texts : t = b ++ (Bracketed(s) ++ r)
  BY PartsAreShorter
<1>2. CanonicalizeMakeText(t, p) = CanonicalizeOnce(t, p, Rewriting)
  BY RewritingIs
<1>3. CanonicalizeOnce(t, p, Rewriting) = (b ++ CanonicalizeMakeExpr(s, p, Rewriting)) ++ Rewriting[r][p]
  BY <1>1, ReadsClosed
<1>4. Rewriting[r][p] = CanonicalizeMakeText(r, p)
  BY RewritingIs
<1> QED
  BY <1>1, <1>2, <1>3, <1>4

LEMMA ComesNone ==
    ASSUME NEW t \in Texts, NoOpen(t), NEW p \in Texts
    PROVE  CanonicalizeMakeText(t, p) = t
<1>1. CanonicalizeMakeText(t, p) = CanonicalizeOnce(t, p, Rewriting)
  BY RewritingIs
<1> QED
  BY <1>1, ReadsNone

LEMMA ComesOpen ==
    ASSUME NEW b \in Texts, NEW x \in Texts, NoOpen(b), Above(x, 0), NEW p \in Texts
    PROVE  CanonicalizeMakeText(b ++ (Opening ++ x), p) = b ++ (Opening ++ x)
<1>1. PICK t \in Texts : t = b ++ (Opening ++ x)
  BY WordsAre, Joined
<1>2. CanonicalizeMakeText(t, p) = CanonicalizeOnce(t, p, Rewriting)
  BY RewritingIs
<1> QED
  BY <1>1, <1>2, ReadsOpen

LEMMA ExprComes ==
    ASSUME NEW v \in Texts, NEW f \in Texts, NEW a \in Texts, Blanks(v), Named(f, a), NEW p
    PROVE  CanonicalizeMakeExpr(v ++ (f ++ a), p, Rewriting) = Rebuilt(f, CanonicalizeMakeText(a, f), p)
<1>1. PICK s, args \in Texts : s = v ++ (f ++ a) /\ args = CanonicalizeMakeText(a, f)
  <2>1. CanonicalizeMakeText(a, f) \in Texts
    BY RewritingIs
  <2>2. v ++ (f ++ a) \in Texts
    BY Joined
  <2> QED
    BY <2>1, <2>2
<1>2. SplitMakeFunc(s).fn = f /\ SplitMakeFunc(s).args = a
  BY <1>1, SplitForm
<1>3. Rewriting[a][f] = args
  BY <1>1, RewritingIs
<1>4. Rewriting[SplitMakeFunc(s).args][f] = args
  BY <1>2, <1>3
<1>5. CanonicalizeMakeExpr(s, p, Rewriting) = Rebuilt(f, args, p)
  BY <1>2, <1>4, ExprIs
<1> QED
  BY <1>1, <1>5

LEMMA ExprStands ==
    ASSUME NEW f \in Texts, NEW a \in Texts, Named(f, a), NEW p
    PROVE  CanonicalizeMakeExpr(f ++ a, p, Rewriting) = Rebuilt(f, CanonicalizeMakeText(a, f), p)
<1>1. PICK v \in Texts : v = <<>> /\ Len(v) = 0
  BY NothingIs
<1>2. f ++ a \in Texts
  BY Joined
<1>3. v ++ (f ++ a) = f ++ a
  BY <1>1, <1>2, ConcatNothing
<1>4. Blanks(v)
  BY <1>1 DEF Blanks
<1> QED
  BY <1>3, <1>4, ExprComes

-----------------------------------------------------------------------------
(* Texts whose beginnings the rewriting does not change, whatever follows   *)
(* them that neither opens nor closes.                                      *)
Stays(c, p) ==
    \A q \in Texts, z \in Texts, y \in Texts :
        c = q ++ z /\ Plain(y) => CanonicalizeMakeText(q ++ y, p) = q ++ y

LEMMA StaysNone ==
    ASSUME NEW t \in Texts, NoOpen(t), NEW p \in Texts
    PROVE  Stays(t, p)
<1> SUFFICES ASSUME NEW q \in Texts, NEW z \in Texts, NEW y \in Texts, t = q ++ z, Plain(y)
             PROVE  CanonicalizeMakeText(q ++ y, p) = q ++ y
  BY DEF Stays
<1>1. NoOpen(q)
  BY NoOpenConcat
<1>2. NoOpen(y)
  BY DEF NoOpen, Plain
<1>3. PICK s \in Texts : s = q ++ y
  BY Joined
<1>4. NoOpen(s)
  BY <1>1, <1>2, <1>3, NoOpenConcat
<1> QED
  BY <1>3, <1>4, ComesNone

LEMMA OpeningBegins ==
    ASSUME NEW x \in Texts, NEW w \in Texts, NEW z \in Texts, Opening ++ x = w ++ z
    PROVE  Len(w) = 0 \/ \E u \in Texts : w = Opening ++ u /\ x = u ++ z
<1>1. Opening \in Texts /\ Len(Opening) = 1
  BY BracketsAre
<1>2. \/ \E u \in Texts : Opening = w ++ u /\ z = u ++ x
      \/ \E u \in Texts : w = Opening ++ u /\ x = u ++ z
  <2>1. w ++ z = Opening ++ x
    OBVIOUS
  <2>2. Overlaps(w, z, Opening, x)
    BY <1>1, <2>1, Overlap
  <2> QED
    BY <2>2 DEF Overlaps
<1>3. ASSUME NEW u \in Texts, Opening = w ++ u, z = u ++ x, Len(w) # 0
      PROVE  \E o \in Texts : w = Opening ++ o /\ x = o ++ z
  <2>1. Len(w) + Len(u) = 1 /\ Len(w) \in Nat /\ Len(u) \in Nat
    <3>1. Len(w ++ u) = Len(w) + Len(u)
      BY Joined
    <3> QED
      BY <1>1, <1>3, <3>1, TextIs
  <2>2. Len(u) = 0
    BY <1>3, <2>1
  <2>3. u = <<>>
    BY <2>2, NothingIs
  <2>4. w ++ u = w /\ u ++ x = x
    BY <2>3, ConcatNothing
  <2>5. w = Opening ++ u /\ x = u ++ z
    <3>1. Opening ++ u = Opening /\ u ++ z = z
      BY <1>1, <2>3, ConcatNothing
    <3> QED
      BY <1>3, <2>4, <3>1
  <2> QED
    BY <2>5
<1> QED
  BY <1>2, <1>3

LEMMA NothingWhenEmpty ==
    ASSUME NEW s \in Texts, NEW t \in Texts, Len(s) = 0
    PROVE  s ++ t = t /\ t ++ s = t
<1>1. s = <<>>
  BY NothingIs
<1> QED
  BY <1>1, ConcatNothing

LEMMA StaysOpen ==
    ASSUME NEW b \in Texts, NEW x \in Texts, NoOpen(b), Above(x, 0), NEW p \in Texts
    PROVE  Stays(b ++ (Opening ++ x), p)
<1> SUFFICES ASSUME NEW q \in Texts, NEW z \in Texts, NEW y \in Texts, b ++ (Opening ++ x) = q ++ z, Plain(y)
             PROVE  CanonicalizeMakeText(q ++ y, p) = q ++ y
  BY DEF Stays
<1>1. PICK o \in Texts : o = Opening ++ x
  BY WordsAre, Joined
<1>2. \/ \E w \in Texts : b = q ++ w /\ z = w ++ o
      \/ \E w \in Texts : q = b ++ w /\ o = w ++ z
  <2>1. q ++ z = b ++ o
    BY <1>1
  <2>2. Overlaps(q, z, b, o)
    BY <2>1, Overlap
  <2> QED
    BY <2>2 DEF Overlaps
<1>3. NoOpen(y) /\ Balanced(y)
  BY PlainWeighs
<1>4. ASSUME NoOpen(q)
      PROVE  CanonicalizeMakeText(q ++ y, p) = q ++ y
  <2>1. PICK s \in Texts : s = q ++ y
    BY Joined
  <2>2. NoOpen(s)
    BY <1>3, <1>4, <2>1, NoOpenConcat
  <2> QED
    BY <2>1, <2>2, ComesNone
<1>5. ASSUME NEW w \in Texts, b = q ++ w
      PROVE  NoOpen(q)
  BY <1>5, NoOpenConcat
<1>6. ASSUME NEW w \in Texts, q = b ++ w, o = w ++ z
      PROVE  CanonicalizeMakeText(q ++ y, p) = q ++ y
  <2>1. Len(w) = 0 \/ \E u \in Texts : w = Opening ++ u /\ x = u ++ z
    <3>1. Opening ++ x = w ++ z
      BY <1>1, <1>6
    <3> QED
      BY <3>1, OpeningBegins
  <2>2. CASE Len(w) = 0
    <3>1. q = b
      BY <1>6, <2>2, NothingWhenEmpty
    <3> QED
      BY <1>4, <3>1
  <2>3. ASSUME NEW u \in Texts, w = Opening ++ u, x = u ++ z
        PROVE  CanonicalizeMakeText(q ++ y, p) = q ++ y
    <3>1. Above(u, 0)
      BY <2>3, AboveConcat
    <3>2. PICK v \in Texts : v = u ++ y
      BY Joined
    <3>3. Above(v, 0)
      <4>1. Above(y, 0) /\ Net(u) \in Int
        BY <1>3, NetIs DEF Balanced
      <4>2. 0 - Net(u) <= 0 /\ 0 - Net(u) \in Int
        BY <3>1, <4>1, AboveIs
      <4>3. Above(y, 0 - Net(u))
        BY <4>1, <4>2, AboveIs
      <4> QED
        BY <3>1, <3>2, <4>3, AboveConcat
    <3>4. q ++ y = b ++ (Opening ++ v)
      <4>1. (b ++ w) ++ y = b ++ (w ++ y)
        BY ConcatAgain
      <4>2. w ++ y = Opening ++ (u ++ y)
        <5>1. Opening \in Texts
          BY WordsAre
        <5>2. (Opening ++ u) ++ y = Opening ++ (u ++ y)
          BY <5>1, ConcatAgain
        <5> QED
          BY <2>3, <5>2
      <4> QED
        BY <1>6, <3>2, <4>1, <4>2
    <3> QED
      BY <3>3, <3>4, ComesOpen
  <2> QED
    BY <2>1, <2>2, <2>3
<1> QED
  BY <1>2, <1>4, <1>5, <1>6

(* A beginning of a closed expression is nothing, all of it or open. *)
LEMMA BracketedBegins ==
    ASSUME NEW s \in Texts, NEW w \in Texts, NEW z \in Texts, Bracketed(s) = w ++ z, Balanced(s)
    PROVE  Len(w) = 0 \/ Len(z) = 0 \/ \E x \in Texts : w = Opening ++ x /\ Above(x, 0)
<1>1. Shutting \in Texts /\ Len(Shutting) = 1
  BY BracketsAre
<1>2. PICK o \in Texts : o = s ++ Shutting
  BY <1>1, Joined
<1>3. Len(w) = 0 \/ \E u \in Texts : w = Opening ++ u /\ o = u ++ z
  BY <1>2, OpeningBegins DEF Bracketed
<1>4. ASSUME NEW u \in Texts, w = Opening ++ u, o = u ++ z
      PROVE  Len(z) = 0 \/ Above(u, 0)
  <2>1. \/ \E v \in Texts : s = u ++ v /\ z = v ++ Shutting
        \/ \E v \in Texts : u = s ++ v /\ Shutting = v ++ z
    <3>1. u ++ z = s ++ Shutting
      BY <1>2, <1>4
    <3>2. Overlaps(u, z, s, Shutting)
      BY <1>1, <3>1, Overlap
    <3> QED
      BY <3>2 DEF Overlaps
  <2>2. ASSUME NEW v \in Texts, s = u ++ v
        PROVE  Above(u, 0)
    BY <2>2, AboveConcat DEF Balanced
  <2>3. ASSUME NEW v \in Texts, u = s ++ v, Shutting = v ++ z, Len(z) # 0
        PROVE  Above(u, 0)
    <3>1. Len(v ++ z) = Len(v) + Len(z) /\ Len(v) \in Nat /\ Len(z) \in Nat
      BY Joined, TextIs
    <3>2. Len(v) = 0
      BY <1>1, <2>3, <3>1
    <3>3. u = s
      BY <2>3, <3>2, NothingWhenEmpty
    <3> QED
      BY <3>3 DEF Balanced
  <2> QED
    BY <2>1, <2>2, <2>3
<1> QED
  BY <1>3, <1>4

LEMMA StaysParts ==
    ASSUME NEW b \in Texts, NEW s \in Texts, NEW r \in Texts, NEW p \in Texts, NoOpen(b), Balanced(s),
           CanonicalizeMakeExpr(s, p, Rewriting) = Bracketed(s), Stays(r, p)
    PROVE  Stays((b ++ Bracketed(s)) ++ r, p)
<1> SUFFICES ASSUME NEW q \in Texts, NEW z \in Texts, NEW y \in Texts,
                    (b ++ Bracketed(s)) ++ r = q ++ z, Plain(y)
             PROVE  CanonicalizeMakeText(q ++ y, p) = q ++ y
  BY DEF Stays
<1>1. PICK e \in Texts : e = Bracketed(s)
  BY BracketedIs
<1>2. PICK o \in Texts : o = e ++ r
  BY Joined
<1>3. q ++ z = b ++ o
  BY <1>1, <1>2, ConcatAgain
<1>4. \/ \E w \in Texts : b = q ++ w /\ z = w ++ o
      \/ \E w \in Texts : q = b ++ w /\ o = w ++ z
  <2>1. Overlaps(q, z, b, o)
    BY <1>3, Overlap
  <2> QED
    BY <2>1 DEF Overlaps
<1>5. NoOpen(y) /\ Balanced(y)
  BY PlainWeighs
<1>6. ASSUME NoOpen(q)
      PROVE  CanonicalizeMakeText(q ++ y, p) = q ++ y
  <2>1. PICK c \in Texts : c = q ++ y
    BY Joined
  <2>2. NoOpen(c)
    BY <1>5, <1>6, <2>1, NoOpenConcat
  <2> QED
    BY <2>1, <2>2, ComesNone
<1>7. ASSUME NEW w \in Texts, b = q ++ w
      PROVE  NoOpen(q)
  BY <1>7, NoOpenConcat
(* The expression is in q. *)
<1>8. ASSUME NEW u \in Texts, q = b ++ (e ++ u), r = u ++ z
      PROVE  CanonicalizeMakeText(q ++ y, p) = q ++ y
  <2>1. PICK v \in Texts : v = u ++ y
    BY Joined
  <2>2. CanonicalizeMakeText(v, p) = v
    BY <1>8, <2>1 DEF Stays
  <2>3. PICK g \in Texts : g = e ++ u
    BY Joined
  <2>4. q ++ y = b ++ (e ++ v)
    <3>1. (b ++ g) ++ y = b ++ (g ++ y)
      BY ConcatAgain
    <3>2. (e ++ u) ++ y = e ++ (u ++ y)
      BY ConcatAgain
    <3> QED
      BY <1>8, <2>1, <2>3, <3>1, <3>2
  <2>5. CanonicalizeMakeText(b ++ (e ++ v), p) = (b ++ e) ++ v
    BY <1>1, <2>2, ComesClosed
  <2>6. (b ++ e) ++ v = b ++ (e ++ v)
    BY ConcatAgain
  <2> QED
    BY <2>4, <2>5, <2>6
(* The expression is open at the end of q. *)
<1>9. ASSUME NEW x \in Texts, q = b ++ (Opening ++ x), Above(x, 0)
      PROVE  CanonicalizeMakeText(q ++ y, p) = q ++ y
  <2>1. PICK v \in Texts : v = x ++ y
    BY Joined
  <2>2. Above(v, 0)
    <3>1. Above(y, 0) /\ Net(x) \in Int
      BY <1>5, NetIs DEF Balanced
    <3>2. 0 - Net(x) <= 0 /\ 0 - Net(x) \in Int
      BY <1>9, <3>1, AboveIs
    <3>3. Above(y, 0 - Net(x))
      BY <3>1, <3>2, AboveIs
    <3> QED
      BY <1>9, <2>1, <3>3, AboveConcat
  <2>3. PICK g \in Texts : g = Opening ++ x
    BY WordsAre, Joined
  <2>4. q ++ y = b ++ (Opening ++ v)
    <3>1. (b ++ g) ++ y = b ++ (g ++ y)
      BY ConcatAgain
    <3>2. (Opening ++ x) ++ y = Opening ++ (x ++ y)
      <4>1. Opening \in Texts
        BY WordsAre
      <4> QED
        BY <4>1, ConcatAgain
    <3> QED
      BY <1>9, <2>1, <2>3, <3>1, <3>2
  <2> QED
    BY <2>2, <2>4, ComesOpen
<1>10. ASSUME NEW w \in Texts, q = b ++ w, o = w ++ z
       PROVE  CanonicalizeMakeText(q ++ y, p) = q ++ y
  <2>1. \/ \E u \in Texts : e = w ++ u /\ z = u ++ r
        \/ \E u \in Texts : w = e ++ u /\ r = u ++ z
    <3>1. w ++ z = e ++ r
      BY <1>2, <1>10
    <3>2. Overlaps(w, z, e, r)
      BY <3>1, Overlap
    <3> QED
      BY <3>2 DEF Overlaps
  <2>2. ASSUME NEW u \in Texts, w = e ++ u, r = u ++ z
        PROVE  CanonicalizeMakeText(q ++ y, p) = q ++ y
    BY <1>8, <1>10, <2>2
  <2>3. ASSUME NEW u \in Texts, e = w ++ u, z = u ++ r
        PROVE  CanonicalizeMakeText(q ++ y, p) = q ++ y
    <3>1. Len(w) = 0 \/ Len(u) = 0 \/ \E x \in Texts : w = Opening ++ x /\ Above(x, 0)
      BY <1>1, <2>3, BracketedBegins
    <3>2. CASE Len(w) = 0
      <4>1. q = b
        BY <1>10, <3>2, NothingWhenEmpty
      <4> QED
        BY <1>6, <4>1
    <3>3. CASE Len(u) = 0
      <4>1. e = w /\ z = r
        BY <2>3, <3>3, NothingWhenEmpty
      <4>2. w = e ++ u /\ r = u ++ z
        <5>1. e ++ u = e /\ u ++ z = z
          BY <3>3, NothingWhenEmpty
        <5> QED
          BY <4>1, <5>1
      <4> QED
        BY <2>2, <4>2
    <3>4. ASSUME NEW x \in Texts, w = Opening ++ x, Above(x, 0)
          PROVE  CanonicalizeMakeText(q ++ y, p) = q ++ y
      BY <1>9, <1>10, <3>4
    <3> QED
      BY <3>1, <3>2, <3>3, <3>4
  <2> QED
    BY <2>1, <2>2, <2>3
<1> QED
  BY <1>4, <1>6, <1>7, <1>10

-----------------------------------------------------------------------------
(* The rewriting keeps the depth, the white space in front, and what has    *)
(* been rewritten.                                                          *)
Good(t, p, c) ==
    /\ c \in Texts /\ c = CanonicalizeMakeText(t, p)
    /\ Net(c) = Net(t) /\ \A d \in Int : Above(t, d) => Above(c, d)
    /\ Led(t) => Led(c)
    /\ Len(t) = 0 => Len(c) = 0
    /\ Stays(c, p)

LEMMA GoodSame ==
    ASSUME NEW t \in Texts, NEW p \in Texts, CanonicalizeMakeText(t, p) = t, Stays(t, p)
    PROVE  Good(t, p, t)
  BY DEF Good

LEMMA BracketedWeighs ==
    ASSUME NEW s \in Texts, Balanced(s)
    PROVE  Balanced(Bracketed(s))
<1>1. /\ Opening \in Texts /\ Net(Opening) = 1 /\ Above(Opening, 0)
      /\ Shutting \in Texts /\ Net(Shutting) = -1 /\ Above(Shutting, -1)
  BY BracketsAre
<1>2. PICK u \in Texts : u = s ++ Shutting
  BY <1>1, Joined
<1>3. Net(u) = Net(s) + Net(Shutting) /\ (Above(u, -1) <=> Above(s, -1) /\ Above(Shutting, -1 - Net(s)))
  <2>1. -1 \in Int
    OBVIOUS
  <2> QED
    BY <1>1, <1>2, <2>1, NetConcat, AboveConcat
<1>4. Net(s) = 0 /\ Above(s, 0)
  BY DEF Balanced
<1>5. Above(s, -1)
  <2>1. -1 \in Int /\ 0 \in Int /\ -1 <= 0
    OBVIOUS
  <2> QED
    BY <1>4, <2>1, AboveIs
<1>6. Net(u) = -1 /\ Above(u, -1)
  <2>1. -1 - 0 = -1 /\ 0 + -1 = -1
    OBVIOUS
  <2> QED
    BY <1>1, <1>3, <1>4, <1>5, <2>1
<1>7. Net(Opening ++ u) = Net(Opening) + Net(u)
      /\ (Above(Opening ++ u, 0) <=> Above(Opening, 0) /\ Above(u, 0 - Net(Opening)))
  <2>1. PICK o \in Texts : o = Opening
    BY <1>1
  <2>2. 0 \in Int
    OBVIOUS
  <2>3. Above(o ++ u, 0) <=> Above(o, 0) /\ Above(u, 0 - Net(o))
    BY <2>2, AboveConcat
  <2>4. Net(o ++ u) = Net(o) + Net(u)
    BY NetConcat
  <2> QED
    BY <2>1, <2>3, <2>4
<1>8. 1 + -1 = 0 /\ 0 - 1 = -1
  OBVIOUS
<1>9. Net(Opening ++ u) = 0 /\ Above(Opening ++ u, 0)
  BY <1>1, <1>6, <1>7, <1>8
<1> QED
  BY <1>2, <1>9 DEF Bracketed, Balanced

LEMMA BalancedJoin ==
    ASSUME NEW s \in Texts, NEW t \in Texts, Balanced(s)
    PROVE  Balanced(s ++ t) <=> Balanced(t)
<1>1. Net(s) = 0 /\ Above(s, 0)
  BY DEF Balanced
<1>2. Net(s ++ t) = Net(s) + Net(t) /\ (Above(s ++ t, 0) <=> Above(s, 0) /\ Above(t, 0 - Net(s)))
  BY NetConcat, AboveConcat
<1>3. Net(t) \in Int /\ 0 - 0 = 0
  BY NetIs
<1>4. Net(s ++ t) = Net(t)
  BY <1>1, <1>2, <1>3
<1>5. Above(s ++ t, 0) <=> Above(t, 0)
  BY <1>1, <1>2, <1>3
<1> QED
  BY <1>4, <1>5 DEF Balanced

LEMMA BalancedEnd ==
    ASSUME NEW s \in Texts, NEW t \in Texts, Balanced(t)
    PROVE  Balanced(s) => Balanced(s ++ t)
  BY BalancedJoin

LEMMA WordsWeigh ==
    /\ Plain(Sort) /\ Plain(Space) /\ Plain(Pipe) /\ Plain(Shell) /\ Plain(Wildcard)
    /\ NoBlank(Sort) /\ NoBlank(Shell) /\ NoBlank(Wildcard)
    /\ Len(Sort) = 1 /\ Len(Shell) = 1 /\ Len(Wildcard) = 1 /\ Len(Space) = 1 /\ Space[1] = Blank
    /\ Len(Pipe) = 2 /\ Pipe[1] = Blank /\ Pipe[2] = "| sort"
    /\ Sort # Wildcard /\ Sort # Shell /\ Wildcard # Shell
<1>1. {"sort", "wildcard", "shell", Blank, "| sort"} \subseteq Tokens
  BY TokensAssumption
<1>2. ASSUME NEW t \in Tokens
      PROVE  \E s \in Texts : s = <<t>> /\ Len(s) = 1 /\ s[1] = t
  BY OneIs
<1>3. PICK a \in Texts : a = <<"sort">> /\ Len(a) = 1 /\ a[1] = "sort"
  BY <1>1, <1>2
<1>4. PICK b \in Texts : b = <<"wildcard">> /\ Len(b) = 1 /\ b[1] = "wildcard"
  BY <1>1, <1>2
<1>5. PICK c \in Texts : c = <<"shell">> /\ Len(c) = 1 /\ c[1] = "shell"
  BY <1>1, <1>2
<1>6. PICK d \in Texts : d = <<Blank>> /\ Len(d) = 1 /\ d[1] = Blank
  BY <1>1, <1>2
<1>7. PICK e \in Texts : e = <<"| sort">> /\ Len(e) = 1 /\ e[1] = "| sort"
  BY <1>1, <1>2
<1>8. a = Sort /\ b = Wildcard /\ c = Shell /\ d = Space
  BY <1>3, <1>4, <1>5, <1>6 DEF Sort, Wildcard, Shell, Space
<1>9. PICK g \in Texts : g = Pipe
  BY WordsAre
<1>10. Len(g) = 2 /\ g[1] = Blank /\ g[2] = "| sort"
  <2>1. /\ Len(d ++ e) = Len(d) + Len(e)
        /\ \A k \in 1..Len(d) : (d ++ e)[k] = d[k]
        /\ \A k \in 1..Len(e) : (d ++ e)[Len(d) + k] = e[k]
    BY ConcatIs
  <2>2. g = d ++ e
    BY <1>7, <1>8, <1>9 DEF Pipe
  <2>3. Len(d) = 1 /\ Len(e) = 1 /\ d[1] = Blank /\ e[1] = "| sort"
    BY <1>6, <1>7
  <2>4. Len(d) = 1 /\ Len(e) = 1
    BY <2>3
  <2>5. Len(g) = 2
    BY <2>1, <2>2, <2>4
  <2>6. g[1] = d[1]
    <3>1. 1 \in 1..Len(d)
      BY <2>4
    <3> QED
      BY <2>1, <2>2, <3>1
  <2>7. g[2] = e[1]
    <3>1. 1 \in 1..Len(e) /\ Len(d) + 1 = 2
      BY <2>4
    <3>2. (d ++ e)[Len(d) + 1] = e[1]
      BY <2>1, <3>1
    <3> QED
      BY <2>2, <3>1, <3>2
  <2> QED
    BY <2>3, <2>5, <2>6, <2>7
<1>11. /\ "sort" # "$(" /\ "sort" # ")" /\ "wildcard" # "$(" /\ "wildcard" # ")" /\ "shell" # "$(" /\ "shell" # ")"
       /\ Blank # "$(" /\ Blank # ")" /\ "| sort" # "$(" /\ "| sort" # ")"
       /\ "sort" # Blank /\ "wildcard" # Blank /\ "shell" # Blank
       /\ "sort" # "wildcard" /\ "sort" # "shell" /\ "wildcard" # "shell"
  BY DEF Blank
<1>12. Len(a) = 1 /\ a[1] = "sort" /\ Len(b) = 1 /\ b[1] = "wildcard"
       /\ Len(c) = 1 /\ c[1] = "shell" /\ Len(d) = 1 /\ d[1] = Blank
  BY <1>3, <1>4, <1>5, <1>6
<1>13. (\A k \in 1..1 : k = 1) /\ (\A k \in 1..2 : k = 1 \/ k = 2)
  OBVIOUS
<1>14. Plain(a) /\ Plain(b) /\ Plain(c) /\ Plain(d) /\ NoBlank(a) /\ NoBlank(b) /\ NoBlank(c)
  BY <1>11, <1>12, <1>13 DEF Plain, NoBlank
<1>15. Plain(g)
  BY <1>10, <1>11, <1>13 DEF Plain
<1>16. a # b /\ a # c /\ b # c
  BY <1>11, <1>12
<1> QED
  BY <1>8, <1>9, <1>10, <1>12, <1>14, <1>15, <1>16

LEMMA GoodStands ==
    ASSUME NEW t \in Texts, NEW p \in Texts, NEW c \in Texts, Good(t, p, c), NEW y \in Texts, Plain(y)
    PROVE  CanonicalizeMakeText(c ++ y, p) = c ++ y /\ CanonicalizeMakeText(c, p) = c
<1>1. PICK z \in Texts : z = <<>> /\ Len(z) = 0
  BY NothingIs
<1>2. c = c ++ z /\ c ++ z = c
  BY <1>1, NothingWhenEmpty
<1>3. Plain(z)
  BY <1>1 DEF Plain
<1>4. Stays(c, p)
  BY DEF Good
<1>5. CanonicalizeMakeText(c ++ y, p) = c ++ y
  BY <1>2, <1>4 DEF Stays
<1>6. CanonicalizeMakeText(c ++ z, p) = c ++ z
  BY <1>2, <1>3, <1>4 DEF Stays
<1> QED
  BY <1>2, <1>5, <1>6

(* What a function becomes is closed and stays what it is. *)
LEMMA ExprFixed ==
    ASSUME NEW f \in Texts, NEW a \in Texts, NEW c \in Texts, NEW p \in Texts,
           Named(f, a), Balanced(f ++ a), Good(a, f, c)
    PROVE  \E s \in Texts : /\ Rebuilt(f, c, p) = Bracketed(s) /\ Balanced(s)
                            /\ CanonicalizeMakeExpr(s, p, Rewriting) = Bracketed(s)
<1>1. Named(f, c)
  <2>1. NoBlank(f) /\ Led(a) /\ (Len(f) = 0 => Len(a) = 0)
    BY DEF Named
  <2>2. Led(c) /\ (Len(a) = 0 => Len(c) = 0)
    BY <2>1 DEF Good
  <2> QED
    BY <2>1, <2>2 DEF Named
<1>2. Balanced(f ++ c)
  <2>1. Net(f ++ a) = Net(f) + Net(a) /\ (Above(f ++ a, 0) <=> Above(f, 0) /\ Above(a, 0 - Net(f)))
    BY NetConcat, AboveConcat
  <2>2. Net(f ++ c) = Net(f) + Net(c) /\ (Above(f ++ c, 0) <=> Above(f, 0) /\ Above(c, 0 - Net(f)))
    BY NetConcat, AboveConcat
  <2>3. 0 - Net(f) \in Int
    BY NetIs
  <2>4. Net(c) = Net(a) /\ (Above(a, 0 - Net(f)) => Above(c, 0 - Net(f)))
    BY <2>3 DEF Good
  <2> QED
    BY <2>1, <2>2, <2>4 DEF Balanced
<1>3. PICK n \in Texts : n = <<>> /\ Len(n) = 0
  BY NothingIs
<1>4. CanonicalizeMakeText(c, f) = c
  <2>1. Plain(n)
    BY <1>3 DEF Plain
  <2> QED
    BY <2>1, GoodStands
<1>5. CASE f = Wildcard /\ p # Sort
  <2>1. /\ Sort \in Texts /\ Space \in Texts /\ Balanced(Sort) /\ Balanced(Space) /\ NoOpen(Space)
        /\ Sort # Wildcard /\ Sort # Shell /\ Wildcard # Shell
    BY WordsAre, WordsWeigh, PlainWeighs
  <2>2. PICK i \in Texts, e \in Texts : i = Wildcard ++ c /\ e = Bracketed(i)
    <3>1. Wildcard ++ c \in Texts
      BY <1>5, Joined
    <3> QED
      BY <3>1, BracketedIs
  <2>3. Balanced(i) /\ Balanced(e)
    BY <1>2, <1>5, <2>2, BracketedWeighs
  <2>4. PICK x \in Texts, s \in Texts : x = Space ++ e /\ s = Sort ++ x
    <3>1. PICK x \in Texts : x = Space ++ e
      BY <2>1, Joined
    <3> QED
      BY <2>1, <3>1, Joined
  <2>5. Balanced(x) /\ Balanced(s)
    BY <2>1, <2>3, <2>4, BalancedJoin
  <2>6. CanonicalizeMakeExpr(i, Sort, Rewriting) = e
    <3>1. CanonicalizeMakeExpr(f ++ c, Sort, Rewriting) = Rebuilt(f, c, Sort)
      BY <1>1, <1>4, ExprStands
    <3>2. Rebuilt(f, c, Sort) = Bracketed(f ++ c)
      BY <1>5, <2>1 DEF Rebuilt
    <3> QED
      BY <1>5, <2>2, <3>1, <3>2
  <2>7. CanonicalizeMakeText(x, Sort) = x
    <3>1. x = Space ++ (Bracketed(i) ++ n)
      BY <1>3, <2>2, <2>4, NothingWhenEmpty
    <3>2. CanonicalizeMakeText(Space ++ (Bracketed(i) ++ n), Sort)
          = (Space ++ CanonicalizeMakeExpr(i, Sort, Rewriting)) ++ CanonicalizeMakeText(n, Sort)
      BY <2>1, <2>3, ComesClosed
    <3>3. CanonicalizeMakeText(n, Sort) = n
      <4>1. NoOpen(n)
        BY <1>3 DEF NoOpen
      <4> QED
        BY <2>1, <4>1, ComesNone
    <3>4. CanonicalizeMakeText(x, Sort) = x ++ n
      BY <2>4, <2>6, <3>1, <3>2, <3>3
    <3> QED
      BY <1>3, <3>4, NothingWhenEmpty
  <2>8. Named(Sort, x)
    <3>1. /\ Len(Space) = 1 /\ Space[1] = Blank /\ \A k \in 1..Len(Space) : (Space ++ e)[k] = Space[k]
      BY <2>1, WordsWeigh, ConcatIs
    <3>2. x[1] = Blank
      BY <2>4, <3>1
    <3>3. Len(Sort) = 1 /\ NoBlank(Sort)
      BY WordsWeigh
    <3> QED
      BY <3>2, <3>3 DEF Named, Led
  <2>9. CanonicalizeMakeExpr(s, p, Rewriting) = Bracketed(s)
    <3>1. CanonicalizeMakeExpr(Sort ++ x, p, Rewriting) = Rebuilt(Sort, x, p)
      BY <2>1, <2>7, <2>8, ExprStands
    <3>2. Rebuilt(Sort, x, p) = Bracketed(Sort ++ x)
      BY <2>1 DEF Rebuilt
    <3> QED
      BY <2>4, <3>1, <3>2
  <2>10. Rebuilt(f, c, p) = Bracketed(s)
    BY <1>5, <2>2, <2>4 DEF Rebuilt
  <2> QED
    BY <2>5, <2>9, <2>10
<1>6. CASE ~(f = Wildcard /\ p # Sort) /\ f = Shell /\ Needed(c)
  <2>1. Pipe \in Texts /\ Plain(Pipe) /\ Balanced(Pipe) /\ Wildcard # Shell
        /\ Len(Pipe) = 2 /\ Pipe[1] = Blank /\ Pipe[2] = "| sort"
    BY WordsAre, WordsWeigh, PlainWeighs
  <2>2. PICK x \in Texts : x = c ++ Pipe
    BY <2>1, Joined
  <2>3. CanonicalizeMakeText(x, f) = x
    <3>1. PICK y \in Texts : y = Pipe
      BY <2>1
    <3>2. Plain(y)
      BY <2>1, <3>1
    <3>3. CanonicalizeMakeText(c ++ y, f) = c ++ y
      BY <3>2, GoodStands
    <3> QED
      BY <2>2, <3>1, <3>3
  <2>4. /\ Len(x) = Len(c) + Len(Pipe) /\ Len(c) \in Nat
        /\ \A k \in 1..Len(c) : x[k] = c[k]
        /\ \A k \in 1..Len(Pipe) : x[Len(c) + k] = Pipe[k]
    <3>1. PICK y \in Texts : y = Pipe
      BY <2>1
    <3>2. /\ Len(c ++ y) = Len(c) + Len(y)
          /\ \A k \in 1..Len(c) : (c ++ y)[k] = c[k]
          /\ \A k \in 1..Len(y) : (c ++ y)[Len(c) + k] = y[k]
      BY ConcatIs
    <3>3. Len(c) \in Nat
      BY TextIs
    <3> QED
      BY <2>2, <3>1, <3>2, <3>3
  <2>5. Named(f, x)
    <3>1. NoBlank(f) /\ Led(c) /\ Len(f) # 0
      <4>1. NoBlank(f) /\ Led(c)
        BY <1>1 DEF Named
      <4>2. Len(Shell) = 1
        BY WordsWeigh
      <4>3. Len(f) = 1
        BY <1>6, <4>2
      <4> QED
        BY <4>1, <4>3
    <3>2. x[1] = Blank
      <4>1. CASE Len(c) = 0
        <5>1. Len(Pipe) = 2 /\ Pipe[1] = Blank
          BY <2>1
        <5>2. 1 \in 1..Len(Pipe) /\ 0 + 1 = 1
          BY <5>1
        <5>3. x[0 + 1] = Pipe[1]
          BY <2>4, <4>1, <5>2
        <5> QED
          BY <5>1, <5>2, <5>3
      <4>2. CASE Len(c) # 0
        <5>1. 1 \in 1..Len(c)
          BY <2>4, <4>2
        <5> QED
          BY <2>4, <3>1, <5>1 DEF Led
      <4> QED
        BY <4>1, <4>2
    <3> QED
      BY <3>1, <3>2 DEF Named, Led
  <2>6. ~Needed(x)
    <3>1. PICK k \in Nat : k = Len(c) + 2
      BY <2>4
    <3>2. k \in 1..Len(x) /\ x[k] = "| sort"
      <4>1. Len(Pipe) = 2
        BY <2>1
      <4>2. 2 \in 1..Len(Pipe) /\ k \in 1..Len(c) + Len(Pipe)
        BY <2>4, <3>1, <4>1
      <4>3. x[k] = Pipe[2]
        BY <2>4, <3>1, <4>2
      <4>4. Pipe[2] = "| sort"
        BY <2>1
      <4> QED
        BY <2>4, <4>2, <4>3, <4>4
    <3>3. PICK g : g = FindFrom(x, "| sort", 1)
      OBVIOUS
    <3>4. \/ g = 0 /\ \A i \in 1..Len(x) : x[i] # "| sort"
          \/ /\ g \in 1..Len(x) /\ x[g] = "| sort"
             /\ \A i \in 1..g-1 : x[i] # "| sort"
      <4>1. 1 \in Nat /\ 1 >= 1
        OBVIOUS
      <4> DEFINE T == "| sort"
      <4> HIDE DEF T
      <4>2. \/ FindFrom(x, T, 1) = 0 /\ \A i \in 1..Len(x) : x[i] # T
            \/ /\ FindFrom(x, T, 1) \in 1..Len(x) /\ x[FindFrom(x, T, 1)] = T
               /\ \A i \in 1..FindFrom(x, T, 1)-1 : x[i] # T
        BY <4>1, FindFromIs
      <4> QED
        BY <3>3, <4>2 DEF T
    <3>5. g # 0
      <4>1. g \in 1..Len(x) => g # 0
        BY TextIs
      <4> QED
        BY <3>2, <3>4, <4>1
    <3> QED
      BY <3>3, <3>5 DEF Needed
  <2>7. PICK s \in Texts : s = f ++ x
    BY Joined
  <2>8. Balanced(s)
    <3>1. f ++ (c ++ Pipe) = (f ++ c) ++ Pipe
      <4>1. PICK y \in Texts : y = Pipe
        BY <2>1
      <4>2. f ++ (c ++ y) = (f ++ c) ++ y
        BY ConcatAgain
      <4> QED
        BY <4>1, <4>2
    <3>2. PICK u \in Texts : u = f ++ c
      BY Joined
    <3>3. Balanced(u ++ Pipe)
      BY <1>2, <2>1, <3>2, BalancedEnd
    <3> QED
      BY <2>2, <2>7, <3>1, <3>2, <3>3
  <2>9. CanonicalizeMakeExpr(s, p, Rewriting) = Bracketed(s)
    <3>1. CanonicalizeMakeExpr(f ++ x, p, Rewriting) = Rebuilt(f, x, p)
      BY <2>3, <2>5, ExprStands
    <3>2. Rebuilt(f, x, p) = Bracketed(f ++ x)
      BY <1>6, <2>6 DEF Rebuilt
    <3> QED
      BY <2>7, <3>1, <3>2
  <2>10. Rebuilt(f, c, p) = Bracketed(s)
    BY <1>6, <2>2, <2>7 DEF Rebuilt
  <2> QED
    BY <2>8, <2>9, <2>10
<1>7. CASE ~(f = Wildcard /\ p # Sort) /\ ~(f = Shell /\ Needed(c))
  <2>1. PICK s \in Texts : s = f ++ c
    BY Joined
  <2>2. Rebuilt(f, c, p) = Bracketed(s)
    BY <1>7, <2>1 DEF Rebuilt
  <2>3. CanonicalizeMakeExpr(f ++ c, p, Rewriting) = Rebuilt(f, c, p)
    BY <1>1, <1>4, ExprStands
  <2> QED
    BY <1>2, <2>1, <2>2, <2>3
<1> QED
  BY <1>5, <1>6, <1>7

LEMMA GoodParts ==
    ASSUME NEW b \in Texts, NEW s \in Texts, NEW r \in Texts, NEW p \in Texts, NoOpen(b), Balanced(s),
           \A x \in Texts, q \in Texts :
               Len(x) < Len(b ++ (Bracketed(s) ++ r)) => \E c \in Texts : Good(x, q, c)
    PROVE  \E c \in Texts : Good(b ++ (Bracketed(s) ++ r), p, c)
<1>1. PICK t \in Texts, e \in Texts, o \in Texts : e = Bracketed(s) /\ o = e ++ r /\ t = b ++ o
  <2>1. PICK e \in Texts : e = Bracketed(s)
    BY BracketedIs
  <2>2. PICK o \in Texts : o = e ++ r
    BY Joined
  <2> QED
    BY <2>1, <2>2, Joined
<1>2. Len(s) < Len(t) /\ Len(r) < Len(t)
  BY <1>1, PartsAreShorter
<1>3. PICK v \in Texts, f \in Texts, a \in Texts :
               s = v ++ (f ++ a) /\ Blanks(v) /\ Named(f, a) /\ Len(a) <= Len(s)
  BY ExprForm
<1>4. Len(a) < Len(t)
  <2>1. Len(a) \in Nat /\ Len(s) \in Nat /\ Len(t) \in Nat
    BY TextIs
  <2> QED
    BY <1>2, <1>3, <2>1
<1>5. PICK c \in Texts : Good(a, f, c)
  BY <1>1, <1>4
<1>6. PICK d \in Texts : Good(r, p, d)
  BY <1>1, <1>2
<1>7. Balanced(f ++ a)
  <2>1. PICK u \in Texts : u = f ++ a
    BY Joined
  <2>2. Plain(v)
    BY <1>3 DEF Blanks, Plain, Blank
  <2>3. Balanced(v)
    BY <2>2, PlainWeighs
  <2> QED
    BY <1>3, <2>1, <2>3, BalancedJoin
<1>8. PICK k \in Texts : /\ Rebuilt(f, c, p) = Bracketed(k) /\ Balanced(k)
                         /\ CanonicalizeMakeExpr(k, p, Rewriting) = Bracketed(k)
  BY <1>3, <1>5, <1>7, ExprFixed
<1>9. PICK g \in Texts : g = Bracketed(k)
  BY BracketedIs
<1>10. CanonicalizeMakeExpr(s, p, Rewriting) = g
  <2>1. CanonicalizeMakeExpr(v ++ (f ++ a), p, Rewriting) = Rebuilt(f, CanonicalizeMakeText(a, f), p)
    BY <1>3, ExprComes
  <2>2. CanonicalizeMakeText(a, f) = c
    BY <1>5 DEF Good
  <2> QED
    BY <1>3, <1>8, <1>9, <2>1, <2>2
<1>11. PICK m \in Texts, n \in Texts : m = g ++ d /\ n = b ++ m
  <2>1. PICK m \in Texts : m = g ++ d
    BY Joined
  <2> QED
    BY <2>1, Joined
<1>12. n = (b ++ g) ++ d
  BY <1>11, ConcatAgain
<1>13. CanonicalizeMakeText(t, p) = n
  <2>1. CanonicalizeMakeText(b ++ (Bracketed(s) ++ r), p)
        = (b ++ CanonicalizeMakeExpr(s, p, Rewriting)) ++ CanonicalizeMakeText(r, p)
    BY ComesClosed
  <2>2. CanonicalizeMakeText(r, p) = d
    BY <1>6 DEF Good
  <2> QED
    BY <1>1, <1>10, <1>12, <2>1, <2>2
<1>14. Balanced(e) /\ Balanced(g)
  BY <1>1, <1>8, <1>9, BracketedWeighs
<1>15. Net(n) = Net(t)
  <2>1. Net(t) = Net(b) + Net(o) /\ Net(o) = Net(e) + Net(r)
    BY <1>1, NetConcat
  <2>2. Net(n) = Net(b) + Net(m) /\ Net(m) = Net(g) + Net(d)
    BY <1>11, NetConcat
  <2>3. Net(e) = 0 /\ Net(g) = 0 /\ Net(d) = Net(r)
    BY <1>6, <1>14 DEF Balanced, Good
  <2> QED
    BY <2>1, <2>2, <2>3
<1>16. ASSUME NEW l \in Int, Above(t, l)
       PROVE  Above(n, l)
  <2>1. Above(b, l) /\ Above(o, l - Net(b))
    BY <1>1, <1>16, AboveConcat
  <2>2. PICK j \in Int : j = l - Net(b)
    BY NetIs
  <2>3. j <= 0
    BY <2>1, <2>2, AboveIs
  <2>4. Net(e) = 0 /\ Net(g) = 0 /\ Above(g, 0) /\ j - 0 = j
    BY <1>14 DEF Balanced
  <2>5. Above(r, j)
    <3>1. Above(o, j) <=> Above(e, j) /\ Above(r, j - Net(e))
      BY <1>1, AboveConcat
    <3> QED
      BY <2>1, <2>2, <2>4, <3>1
  <2>6. Above(d, j)
    BY <1>6, <2>5 DEF Good
  <2>7. Above(g, j)
    <3>1. 0 \in Int
      OBVIOUS
    <3> QED
      BY <2>3, <2>4, <3>1, AboveIs
  <2>8. Above(m, j)
    <3>1. Above(m, j) <=> Above(g, j) /\ Above(d, j - Net(g))
      BY <1>11, AboveConcat
    <3> QED
      BY <2>4, <2>6, <2>7, <3>1
  <2>9. Above(n, l) <=> Above(b, l) /\ Above(m, l - Net(b))
    BY <1>11, AboveConcat
  <2> QED
    BY <2>1, <2>2, <2>8, <2>9
<1>17. Led(t) => Led(n)
  <2>1. SUFFICES ASSUME Led(t)
                 PROVE  n[1] = Blank
    BY DEF Led
  <2>2. Len(b) # 0
    <3>1. SUFFICES ASSUME Len(b) = 0
                   PROVE  FALSE
      OBVIOUS
    <3>2. t = o
      BY <1>1, <3>1, NothingWhenEmpty
    <3>3. PICK x \in Texts : x = s ++ (Shutting ++ r)
      BY WordsAre, Joined
    <3>4. t = b ++ (Opening ++ x)
      BY <1>1, <3>3, ClosedAgain
    <3>5. t = Opening ++ x
      <4>1. Opening ++ x \in Texts
        BY WordsAre, Joined
      <4> QED
        BY <3>1, <3>4, <4>1, NothingWhenEmpty
    <3>6. Opening \in Texts /\ Len(Opening) = 1 /\ Opening[1] = "$("
      BY BracketsAre
    <3>7. /\ Len(Opening ++ x) = Len(Opening) + Len(x)
          /\ \A i \in 1..Len(Opening) : (Opening ++ x)[i] = Opening[i]
      BY <3>6, ConcatIs
    <3>8. Len(x) \in Nat
      BY TextIs
    <3>9. Len(t) >= 1 /\ t[1] = "$("
      BY <3>5, <3>6, <3>7, <3>8
    <3> QED
      BY <2>1, <3>9 DEF Led, Blank
  <2>3. Len(b) \in Nat /\ 1 \in 1..Len(b)
    BY <2>2, TextIs
  <2>4. Len(t) = Len(b) + Len(o) /\ \A i \in 1..Len(b) : t[i] = b[i]
    <3>1. Len(b ++ o) = Len(b) + Len(o) /\ \A i \in 1..Len(b) : (b ++ o)[i] = b[i]
      BY ConcatIs
    <3> QED
      BY <1>1, <3>1
  <2>5. \A i \in 1..Len(b) : n[i] = b[i]
    <3>1. \A i \in 1..Len(b) : (b ++ m)[i] = b[i]
      BY ConcatIs
    <3> QED
      BY <1>11, <3>1
  <2>6. Len(t) >= 1
    BY <2>3, <2>4, TextIs
  <2> QED
    BY <2>1, <2>3, <2>4, <2>5, <2>6 DEF Led
<1>18. Len(t) # 0
  BY <1>2, TextIs
<1>19. Stays(n, p)
  <2>1. Stays(d, p)
    BY <1>6 DEF Good
  <2>2. Stays((b ++ Bracketed(k)) ++ d, p)
    BY <1>8, <2>1, StaysParts
  <2> QED
    BY <1>9, <1>12, <2>2
<1>20. Good(t, p, n)
  BY <1>13, <1>15, <1>16, <1>17, <1>18, <1>19 DEF Good
<1> QED
  BY <1>1, <1>20

LEMMA AllGood ==
    ASSUME NEW t \in Texts, NEW p \in Texts
    PROVE  \E c \in Texts : Good(t, p, c)
<1> DEFINE All(k) == \A x \in Texts, q \in Texts : Len(x) <= k => \E c \in Texts : Good(x, q, c)
<1>0. \A x \in Texts : Len(x) \in Nat
  BY TextIs
<1>1. ASSUME NEW x \in Texts, NEW q \in Texts,
             \A y \in Texts, r \in Texts : Len(y) < Len(x) => \E c \in Texts : Good(y, r, c)
      PROVE  \E c \in Texts : Good(x, q, c)
  <2>1. CASE NoOpen(x)
    <3>1. CanonicalizeMakeText(x, q) = x /\ Stays(x, q)
      BY <2>1, ComesNone, StaysNone
    <3> QED
      BY <3>1, GoodSame
  <2>2. CASE \E b \in Texts, u \in Texts : x = b ++ (Opening ++ u) /\ NoOpen(b) /\ Above(u, 0)
    <3>1. PICK b \in Texts, u \in Texts : x = b ++ (Opening ++ u) /\ NoOpen(b) /\ Above(u, 0)
      BY <2>2
    <3>2. CanonicalizeMakeText(x, q) = x /\ Stays(x, q)
      BY <3>1, ComesOpen, StaysOpen
    <3> QED
      BY <3>2, GoodSame
  <2>3. CASE \E b \in Texts, s \in Texts, r \in Texts :
                x = b ++ (Bracketed(s) ++ r) /\ NoOpen(b) /\ Balanced(s)
    <3>1. PICK b \in Texts, s \in Texts, r \in Texts :
                x = b ++ (Bracketed(s) ++ r) /\ NoOpen(b) /\ Balanced(s)
      BY <2>3
    <3>2. \A y \in Texts, z \in Texts :
               Len(y) < Len(b ++ (Bracketed(s) ++ r)) => \E c \in Texts : Good(y, z, c)
      BY <1>1, <3>1
    <3>3. \E c \in Texts : Good(b ++ (Bracketed(s) ++ r), q, c)
      BY <3>1, <3>2, GoodParts
    <3> QED
      BY <3>1, <3>3
  <2> QED
    BY <2>1, <2>2, <2>3, Forms
<1>2. All(0)
  <2>1. ASSUME NEW x \in Texts, NEW q \in Texts, Len(x) <= 0
        PROVE  \E c \in Texts : Good(x, q, c)
    <3>1. \A y \in Texts : ~(Len(y) < Len(x))
      BY <1>0, <2>1
    <3> QED
      BY <1>1, <3>1
  <2> QED
    BY <2>1
<1>3. ASSUME NEW k \in Nat, All(k)
      PROVE  All(k + 1)
  <2>1. ASSUME NEW x \in Texts, NEW q \in Texts, Len(x) <= k + 1
        PROVE  \E c \in Texts : Good(x, q, c)
    <3>1. \A y \in Texts : Len(y) < Len(x) => Len(y) <= k
      BY <1>0, <2>1
    <3> QED
      BY <1>1, <1>3, <3>1
  <2> QED
    BY <2>1
<1>4. PICK l \in Nat : l = Len(t)
  BY TextIs
<1>5. All(l)
  <2> HIDE DEF All
  <2> DEFINE S == {k \in 0..l : All(k)}
  <2>1. 0 \in S
    BY <1>2
  <2>2. \A j \in 0..l-1 : j \in S => j + 1 \in S
    BY <1>3
  <2>3. l \in S
    <3> HIDE DEF S
    <3> QED
      BY <2>1, <2>2, Climb
  <2> QED
    BY <2>3
<1> QED
  BY <1>4, <1>5

(* Every beginning of a rewritten line is left as it is. *)
LEMMA BeginningsStay ==
    ASSUME NEW t \in Texts
    PROVE  /\ Canonical(t) \in Texts /\ Canonical(Canonical(t)) = Canonical(t)
           /\ \A k \in 0..Len(Canonical(t)) :
                  /\ SubSeq(Canonical(t), 1, k) \in Texts /\ Len(SubSeq(Canonical(t), 1, k)) = k
                  /\ Canonical(SubSeq(Canonical(t), 1, k)) = SubSeq(Canonical(t), 1, k)
<1>1. PICK n \in Texts : n = <<>> /\ Len(n) = 0
  BY NothingIs
<1>2. PICK c \in Texts : Good(t, n, c)
  BY AllGood
<1>3. c = Canonical(t)
  BY <1>1, <1>2 DEF Good, Canonical
<1>4. Plain(n)
  BY <1>1 DEF Plain
<1>5. Canonical(c) = c
  BY <1>1, <1>2, <1>4, GoodStands DEF Canonical
<1>6. ASSUME NEW k \in 0..Len(c)
      PROVE  /\ SubSeq(c, 1, k) \in Texts /\ Len(SubSeq(c, 1, k)) = k
             /\ Canonical(SubSeq(c, 1, k)) = SubSeq(c, 1, k)
  <2>1. PICK q : q = SubSeq(c, 1, k)
    OBVIOUS
  <2>2. Len(c) \in Nat /\ k \in Nat
    BY TextIs
  <2>3. q \in Texts /\ Len(q) = k
    <3>1. 1 >= 1 /\ 1 \in Nat /\ k <= Len(c) /\ 1 <= k + 1 /\ k + 1 - 1 = k
      BY <2>2
    <3> QED
      BY <2>1, <2>2, <3>1, SubIs
  <2>4. PICK z \in Texts : c = q ++ z
    <3>1. c = SubSeq(c, 1, k) ++ SubSeq(c, k + 1, Len(c))
      BY SplitAt
    <3>2. SubSeq(c, k + 1, Len(c)) \in Texts
      <4>1. k + 1 >= 1 /\ k + 1 \in Nat /\ Len(c) <= Len(c) /\ k + 1 <= Len(c) + 1
        BY <2>2
      <4> QED
        BY <2>2, <4>1, SubIs
    <3> QED
      BY <2>1, <3>1, <3>2
  <2>5. Stays(c, n)
    BY <1>2 DEF Good
  <2>6. CanonicalizeMakeText(q ++ n, n) = q ++ n
    BY <1>4, <2>3, <2>4, <2>5 DEF Stays
  <2>7. q ++ n = q
    BY <1>1, <2>3, NothingWhenEmpty
  <2>8. Canonical(q) = q
    BY <1>1, <2>6, <2>7 DEF Canonical
  <2> QED
    BY <2>1, <2>3, <2>8
<1> QED
  BY <1>3, <1>5, <1>6

-----------------------------------------------------------------------------
(* Files, which are sequences of lines, and their beginnings. *)

Rewrite(ls) == [i \in 1..Len(ls) |-> Canonical(ls[i])]

Starts(y, x) == y = x \/ \E j \in 1..Len(x) : y = SubSeq(x, 1, j)
Begins(f, ls) ==
    /\ Len(f) <= Len(ls)
    /\ \A i \in 1..Len(f) : (i < Len(f) => f[i] = ls[i]) /\ Starts(f[i], ls[i])

LEMMA ContentsAre ==
    ASSUME NEW f \in Contents
    PROVE  Len(f) \in Nat /\ DOMAIN f = 1..Len(f) /\ \A i \in 1..Len(f) : f[i] \in Texts
  BY LenProperties, ElementOfSeq DEF Contents

LEMMA ContentsEqual ==
    ASSUME NEW f \in Contents, NEW g \in Contents, Len(f) = Len(g), \A i \in 1..Len(f) : f[i] = g[i]
    PROVE  f = g
  BY SeqEqual DEF Contents

LEMMA RewriteIs ==
    ASSUME NEW f \in Contents
    PROVE  Rewrite(f) \in Contents /\ Len(Rewrite(f)) = Len(f)
           /\ \A i \in 1..Len(f) : Rewrite(f)[i] = Canonical(f[i])
<1>1. Len(f) \in Nat /\ \A i \in 1..Len(f) : Canonical(f[i]) \in Texts
  BY ContentsAre, BeginningsStay
<1>2. Rewrite(f) \in Seq(Texts) /\ Len(Rewrite(f)) = Len(f)
  <2>1. PICK n \in Nat : n = Len(f)
    BY <1>1
  <2>2. Rewrite(f) = [i \in 1..n |-> Canonical(f[i])]
    BY <2>1 DEF Rewrite
  <2>3. Rewrite(f) \in [1..n -> Texts]
    BY <1>1, <2>1, <2>2
  <2> QED
    BY <2>1, <2>3, SeqDef, LenProperties
<1>3. \A i \in 1..Len(f) : Rewrite(f)[i] = Canonical(f[i])
  BY DEF Rewrite
<1> QED
  BY <1>2, <1>3 DEF Contents

LEMMA StartsAgain ==
    ASSUME NEW x \in Texts, NEW y, Starts(y, x)
    PROVE  y \in Texts /\ Len(y) <= Len(x) /\ \A z : Starts(z, y) => Starts(z, x)
<1>1. Len(x) \in Nat
  BY TextIs
<1>2. CASE y = x
  BY <1>1, <1>2
<1>3. CASE \E j \in 1..Len(x) : y = SubSeq(x, 1, j)
  <2>1. PICK j \in 1..Len(x) : y = SubSeq(x, 1, j)
    BY <1>3
  <2>2. j \in Nat /\ j <= Len(x) /\ 1 \in Nat /\ 1 >= 1 /\ 1 <= j + 1 /\ j + 1 - 1 = j
    BY <1>1
  <2>3. y \in Texts /\ Len(y) = j /\ \A k \in 1..j : y[k] = x[k]
    <3>1. /\ SubSeq(x, 1, j) \in Texts /\ Len(SubSeq(x, 1, j)) = j + 1 - 1
          /\ \A k \in 1..j + 1 - 1 : SubSeq(x, 1, j)[k] = x[1 - 1 + k]
      BY <2>2, SubIs
    <3>2. y \in Texts /\ Len(y) = j
      BY <2>1, <2>2, <3>1
    <3>3. ASSUME NEW k \in 1..j
          PROVE  y[k] = x[k]
      <4>1. 1 - 1 + k = k
        OBVIOUS
      <4> QED
        BY <2>1, <2>2, <3>1, <4>1
    <3> QED
      BY <3>2, <3>3
  <2>4. ASSUME NEW z, Starts(z, y)
        PROVE  Starts(z, x)
    <3>1. CASE z = y
      BY <1>3, <3>1 DEF Starts
    <3>2. CASE \E i \in 1..Len(y) : z = SubSeq(y, 1, i)
      <4>1. PICK i \in 1..Len(y) : z = SubSeq(y, 1, i)
        BY <3>2
      <4>2. i \in 1..j /\ i \in 1..Len(x) /\ i \in Nat /\ i <= Len(y) /\ 1 <= i + 1
            /\ 1 \in Nat /\ 1 >= 1 /\ i <= Len(x) /\ i + 1 - 1 = i
        BY <2>2, <2>3
      <4>3. /\ z \in Texts /\ Len(z) = i
            /\ \A k \in 1..i + 1 - 1 : z[k] = y[1 - 1 + k]
        <5>1. /\ SubSeq(y, 1, i) \in Texts /\ Len(SubSeq(y, 1, i)) = i + 1 - 1
              /\ \A k \in 1..i + 1 - 1 : SubSeq(y, 1, i)[k] = y[1 - 1 + k]
          BY <2>3, <4>2, SubIs
        <5> QED
          BY <4>1, <4>2, <5>1
      <4>4. PICK u : u = SubSeq(x, 1, i)
        OBVIOUS
      <4>5. /\ u \in Texts /\ Len(u) = i
            /\ \A k \in 1..i + 1 - 1 : u[k] = x[1 - 1 + k]
        <5>1. /\ SubSeq(x, 1, i) \in Texts /\ Len(SubSeq(x, 1, i)) = i + 1 - 1
              /\ \A k \in 1..i + 1 - 1 : SubSeq(x, 1, i)[k] = x[1 - 1 + k]
          BY <4>2, SubIs
        <5> QED
          BY <4>2, <4>4, <5>1
      <4>6. ASSUME NEW k \in 1..i
            PROVE  z[k] = u[k]
        <5>1. 1 - 1 + k = k /\ k \in 1..i + 1 - 1 /\ k \in 1..j
          BY <4>2
        <5> QED
          BY <2>3, <4>3, <4>5, <5>1
      <4>7. z = u
        BY <4>3, <4>5, <4>6, TextsEqual
      <4> QED
        BY <4>2, <4>4, <4>7 DEF Starts
    <3> QED
      BY <2>4, <3>1, <3>2 DEF Starts
  <2> QED
    BY <2>2, <2>3, <2>4
<1> QED
  BY <1>2, <1>3 DEF Starts

LEMMA StartsStay ==
    ASSUME NEW t \in Texts, NEW y, Starts(y, Canonical(t))
    PROVE  Canonical(y) = y
<1>1. /\ Canonical(t) \in Texts /\ Canonical(Canonical(t)) = Canonical(t)
      /\ \A k \in 0..Len(Canonical(t)) : Canonical(SubSeq(Canonical(t), 1, k)) = SubSeq(Canonical(t), 1, k)
  BY BeginningsStay
<1>2. PICK c \in Texts : c = Canonical(t)
  BY <1>1
<1>3. CASE y = c
  BY <1>1, <1>2, <1>3
<1>4. CASE \E j \in 1..Len(c) : y = SubSeq(c, 1, j)
  <2>1. PICK j \in 1..Len(c) : y = SubSeq(c, 1, j)
    BY <1>4
  <2>2. j \in 0..Len(c)
    OBVIOUS
  <2> QED
    BY <1>1, <1>2, <2>1, <2>2
<1> QED
  BY <1>2, <1>3, <1>4 DEF Starts

(* What Cut gives. *)
LEMMA CutIs ==
    ASSUME NEW ls \in Contents, NEW k \in 0..Len(ls)-1, NEW j \in 0..Len(ls[k + 1])
    PROVE  /\ Cut(ls, k, j) \in Contents
           /\ Len(Cut(ls, k, j)) = (IF j = 0 THEN k ELSE k + 1)
           /\ \A i \in 1..k : Cut(ls, k, j)[i] = ls[i]
           /\ j # 0 => Cut(ls, k, j)[k + 1] = SubSeq(ls[k + 1], 1, j)
<1>1. Len(ls) \in Nat /\ k \in Nat /\ k <= Len(ls) /\ k + 1 \in 1..Len(ls)
  BY ContentsAre
<1>2. PICK a : a = SubSeq(ls, 1, k)
  OBVIOUS
<1>3. a \in Seq(Texts) /\ Len(a) = k /\ \A i \in 1..k : a[i] = ls[i]
  <2>1. \A i \in 1..k : ls[i] \in Texts
    BY <1>1, ContentsAre
  <2>2. /\ SubSeq(ls, 1, k) \in Seq(Texts)
        /\ Len(SubSeq(ls, 1, k)) = IF 1 <= k THEN k - 1 + 1 ELSE 0
        /\ \A i \in 1..k - 1 + 1 : SubSeq(ls, 1, k)[i] = ls[1 + i - 1]
    BY <1>1, <2>1, SubSeqProperties
  <2>3. a \in Seq(Texts) /\ Len(a) = k
    BY <1>1, <1>2, <2>2
  <2>4. ASSUME NEW i \in 1..k
        PROVE  a[i] = ls[i]
    <3>1. i \in 1..k - 1 + 1 /\ 1 + i - 1 = i
      BY <1>1
    <3> QED
      BY <1>2, <2>2, <3>1
  <2> QED
    BY <2>3, <2>4
<1>4. PICK l \in Texts : l = ls[k + 1]
  BY <1>1, ContentsAre
<1>5. CASE j = 0
  <2>1. Cut(ls, k, j) = a
    <3>1. a \o <<>> = a
      BY <1>3, ConcatEmptySeq
    <3> QED
      BY <1>2, <1>5, <3>1 DEF Cut
  <2> QED
    BY <1>3, <1>5, <2>1 DEF Contents
<1>6. CASE j # 0
  <2>1. PICK y \in Texts : y = SubSeq(l, 1, j)
    <3>1. j \in Nat /\ j <= Len(l) /\ 1 \in Nat /\ 1 >= 1 /\ 1 <= j + 1
      BY <1>4, TextIs
    <3> QED
      BY <3>1, SubIs
  <2>2. PICK o : o = <<y>>
    OBVIOUS
  <2>3. o \in Seq(Texts) /\ Len(o) = 1 /\ o[1] = y
    BY <2>2
  <2>4. Cut(ls, k, j) = a \o o
    BY <1>2, <1>4, <1>6, <2>1, <2>2 DEF Cut
  <2>5. /\ a \o o \in Seq(Texts) /\ Len(a \o o) = Len(a) + Len(o)
        /\ \A i \in 1..Len(a) + Len(o) : (a \o o)[i] = IF i <= Len(a) THEN a[i] ELSE o[i - Len(a)]
    BY <1>3, <2>3, ConcatProperties
  <2>6. PICK f : f = a \o o
    OBVIOUS
  <2>7. /\ f \in Seq(Texts) /\ Len(f) = k + 1
        /\ \A i \in 1..k + 1 : f[i] = IF i <= k THEN a[i] ELSE o[i - k]
    BY <1>3, <2>3, <2>5, <2>6
  <2>8. ASSUME NEW i \in 1..k
        PROVE  f[i] = ls[i]
    <3>1. i \in 1..k + 1 /\ i <= k
      BY <1>1
    <3> QED
      BY <1>3, <2>7, <3>1
  <2>9. f[k + 1] = y
    <3>1. k + 1 \in 1..k + 1 /\ ~(k + 1 <= k) /\ k + 1 - k = 1
      BY <1>1
    <3> QED
      BY <2>3, <2>7, <3>1
  <2> QED
    BY <1>4, <1>6, <2>1, <2>4, <2>6, <2>7, <2>8, <2>9 DEF Contents
<1> QED
  BY <1>5, <1>6

LEMMA CutsBegin ==
    ASSUME NEW ls \in Contents, NEW f, f \in Cuts(ls)
    PROVE  f \in Contents /\ Begins(f, ls)
<1>1. Len(ls) \in Nat
  BY ContentsAre
<1>2. CASE f = ls
  BY <1>1, <1>2 DEF Begins, Starts
<1>3. CASE \E k \in 0..Len(ls)-1 : \E j \in 0..Len(ls[k + 1]) : f = Cut(ls, k, j)
  <2>1. PICK k \in 0..Len(ls)-1 : \E j \in 0..Len(ls[k + 1]) : f = Cut(ls, k, j)
    BY <1>3
  <2>2. PICK j \in 0..Len(ls[k + 1]) : f = Cut(ls, k, j)
    BY <2>1
  <2>3. /\ f \in Contents
        /\ Len(f) = (IF j = 0 THEN k ELSE k + 1)
        /\ \A i \in 1..k : f[i] = ls[i]
        /\ j # 0 => f[k + 1] = SubSeq(ls[k + 1], 1, j)
    BY <2>2, CutIs
  <2>4. Len(f) <= Len(ls)
    BY <1>1, <2>3
  <2>5. ASSUME NEW i \in 1..Len(f)
        PROVE  (i < Len(f) => f[i] = ls[i]) /\ Starts(f[i], ls[i])
    <3>1. CASE i \in 1..k
      BY <2>3, <3>1 DEF Starts
    <3>2. CASE i \notin 1..k
      <4>1. j # 0 /\ i = k + 1 /\ Len(f) = k + 1
        BY <2>3, <3>2
      <4>2. Len(ls[k + 1]) \in Nat
        <5>1. k + 1 \in 1..Len(ls)
          BY <1>1
        <5> QED
          BY <5>1, ContentsAre, TextIs
      <4>3. j \in 1..Len(ls[k + 1]) /\ ~(i < Len(f))
        BY <4>1, <4>2
      <4>4. f[i] = SubSeq(ls[i], 1, j)
        BY <2>3, <4>1
      <4> QED
        BY <4>1, <4>3, <4>4 DEF Starts
    <3> QED
      BY <3>1, <3>2
  <2> QED
    BY <2>3, <2>4, <2>5 DEF Begins
<1>4. f = ls \/ \E k \in 0..Len(ls)-1 : \E j \in 0..Len(ls[k + 1]) : f = Cut(ls, k, j)
  BY DEF Cuts
<1> QED
  BY <1>2, <1>3, <1>4

LEMMA BeginsCut ==
    ASSUME NEW ls \in Contents, NEW f \in Contents, Begins(f, ls)
    PROVE  f \in Cuts(ls)
<1>1. PICK n \in Nat : n = Len(f)
  BY ContentsAre
<1>2. Len(ls) \in Nat /\ n <= Len(ls) /\ \A i \in 1..n : (i < n => f[i] = ls[i]) /\ Starts(f[i], ls[i])
  BY <1>1, ContentsAre DEF Begins
<1>3. ASSUME NEW k \in 0..Len(ls)-1, NEW j \in 0..Len(ls[k + 1]), f = Cut(ls, k, j)
      PROVE  f \in Cuts(ls)
  BY <1>3 DEF Cuts
<1>4. ASSUME \A i \in 1..n : f[i] = ls[i]
      PROVE  f \in Cuts(ls)
  <2>1. CASE n = Len(ls)
    <3>1. f = ls
      BY <1>1, <1>4, <2>1, ContentsEqual
    <3> QED
      BY <3>1 DEF Cuts
  <2>2. CASE n # Len(ls)
    <3>1. n \in 0..Len(ls)-1 /\ n + 1 \in 1..Len(ls)
      BY <1>2, <2>2
    <3>2. 0 \in 0..Len(ls[n + 1])
      BY <3>1, ContentsAre, TextIs
    <3>3. PICK g : g = Cut(ls, n, 0)
      OBVIOUS
    <3>4. g \in Contents /\ Len(g) = n /\ \A i \in 1..n : g[i] = ls[i]
      BY <3>1, <3>2, <3>3, CutIs
    <3>5. f = g
      BY <1>1, <1>4, <3>4, ContentsEqual
    <3> QED
      BY <1>3, <3>1, <3>2, <3>3, <3>5
  <2> QED
    BY <2>1, <2>2
<1>5. CASE n = 0 \/ f[n] = ls[n]
  <2>1. \A i \in 1..n : i < n \/ (i = n /\ n # 0)
    BY <1>1
  <2> QED
    BY <1>2, <1>4, <1>5, <2>1
<1>6. CASE n # 0 /\ f[n] # ls[n]
  <2>1. n \in 1..n /\ n \in 1..Len(ls)
    BY <1>2, <1>6
  <2>2. PICK j \in 1..Len(ls[n]) : f[n] = SubSeq(ls[n], 1, j)
    BY <1>2, <1>6, <2>1 DEF Starts
  <2>3. PICK k \in Nat : n = k + 1 /\ k \in 0..Len(ls)-1 /\ k = n - 1
    BY <1>1, <1>2, <1>6
  <2>4. Len(ls[n]) \in Nat
    BY <2>1, ContentsAre, TextIs
  <2>5. j \in 0..Len(ls[k + 1]) /\ j # 0
    BY <2>3, <2>4
  <2>6. PICK g : g = Cut(ls, k, j)
    OBVIOUS
  <2>7. /\ g \in Contents /\ Len(g) = (IF j = 0 THEN k ELSE k + 1)
        /\ \A i \in 1..k : g[i] = ls[i]
        /\ j # 0 => g[k + 1] = SubSeq(ls[k + 1], 1, j)
    BY <2>3, <2>5, <2>6, CutIs
  <2>8. g \in Contents /\ Len(g) = n /\ g[n] = f[n] /\ \A i \in 1..k : g[i] = ls[i]
    BY <2>2, <2>3, <2>5, <2>7
  <2>9. ASSUME NEW i \in 1..n
        PROVE  f[i] = g[i]
    <3>1. i = n \/ (i < n /\ i \in 1..k)
      BY <2>3
    <3> QED
      BY <1>2, <2>8, <3>1
  <2>10. f = g
    BY <1>1, <2>8, <2>9, ContentsEqual
  <2> QED
    BY <1>3, <2>3, <2>5, <2>6, <2>10
<1> QED
  BY <1>5, <1>6

(* A beginning of a beginning is one. *)
LEMMA CutsAgain ==
    ASSUME NEW ls \in Contents, NEW f, f \in Cuts(ls), NEW g, g \in Cuts(f)
    PROVE  g \in Cuts(ls)
<1>1. f \in Contents /\ Begins(f, ls)
  BY CutsBegin
<1>2. g \in Contents /\ Begins(g, f)
  BY <1>1, CutsBegin
<1>3. PICK m \in Nat, n \in Nat : m = Len(g) /\ n = Len(f)
  BY <1>1, <1>2, ContentsAre
<1>4. n <= Len(ls) /\ \A i \in 1..n : (i < n => f[i] = ls[i]) /\ Starts(f[i], ls[i])
  BY <1>1, <1>3 DEF Begins
<1>5. m <= n /\ \A i \in 1..m : (i < m => g[i] = f[i]) /\ Starts(g[i], f[i])
  BY <1>2, <1>3 DEF Begins
<1>6. Len(ls) \in Nat
  BY ContentsAre
<1>7. ASSUME NEW i \in 1..m
      PROVE  (i < m => g[i] = ls[i]) /\ Starts(g[i], ls[i])
  <2>1. i \in 1..n /\ (i < m => i < n) /\ i \in 1..Len(ls)
    BY <1>4, <1>5, <1>6
  <2>2. ls[i] \in Texts
    BY <2>1, ContentsAre
  <2>3. Starts(g[i], f[i]) /\ Starts(f[i], ls[i])
    BY <1>4, <1>5, <2>1
  <2>4. Starts(g[i], ls[i])
    BY <2>2, <2>3, StartsAgain
  <2> QED
    BY <1>4, <1>5, <2>1, <2>4
<1>8. m <= Len(ls)
  BY <1>4, <1>5, <1>6
<1>9. Begins(g, ls)
  BY <1>3, <1>7, <1>8 DEF Begins
<1> QED
  BY <1>2, <1>9, BeginsCut

LEMMA NothingCuts ==
    ASSUME NEW ls \in Contents
    PROVE  <<>> \in Contents /\ <<>> \in Cuts(ls) /\ ls \in Cuts(ls)
<1>1. PICK n : n = <<>>
  OBVIOUS
<1>2. n \in Contents /\ Len(n) = 0
  BY <1>1, EmptySeq DEF Contents
<1>3. Begins(n, ls)
  BY <1>2, ContentsAre DEF Begins
<1>4. n \in Cuts(ls)
  BY <1>2, <1>3, BeginsCut
<1> QED
  BY <1>1, <1>2, <1>4 DEF Cuts

(* Rewriting changes no beginning of a rewritten file. *)
LEMMA CutsStay ==
    ASSUME NEW ls \in Contents, NEW f, f \in Cuts(Rewrite(ls))
    PROVE  Rewrite(f) = f
<1>1. PICK r \in Contents : r = Rewrite(ls) /\ Len(r) = Len(ls) /\ \A i \in 1..Len(ls) : r[i] = Canonical(ls[i])
  BY RewriteIs
<1>2. f \in Contents /\ Begins(f, r)
  BY <1>1, CutsBegin
<1>3. PICK g \in Contents : g = Rewrite(f) /\ Len(g) = Len(f) /\ \A i \in 1..Len(f) : g[i] = Canonical(f[i])
  BY <1>2, RewriteIs
<1>4. ASSUME NEW i \in 1..Len(f)
      PROVE  f[i] = g[i]
  <2>1. i \in 1..Len(ls)
    BY <1>1, <1>2, ContentsAre DEF Begins
  <2>2. ls[i] \in Texts
    BY <2>1, ContentsAre
  <2>3. Starts(f[i], Canonical(ls[i]))
    BY <1>1, <1>2, <2>1 DEF Begins
  <2>4. Canonical(f[i]) = f[i]
    BY <2>2, <2>3, StartsStay
  <2> QED
    BY <1>3, <2>4
<1>5. f = g
  BY <1>2, <1>3, <1>4, ContentsEqual
<1> QED
  BY <1>3, <1>5

-----------------------------------------------------------------------------
(* What is so of the files while builds rewrite them and are killed. *)

(* ProgramOK: the file being rewritten is there.  FilesOK: a file is what   *)
(* it was or a beginning of its rewritten form.  LinesOK: so are the lines *)
(* about to be written, which is why what a killed build left of a file is *)
(* never taken for more.                                                   *)
Steps == {"idle", "fix", "read", "open", "write", "run"}

ProgramOK ==
    /\ pc \in Steps /\ command \in Commands /\ makefile \in Paths
    /\ torn \subseteq Existing /\ seen \in Paths \cup {NotRun} /\ builds \in 0..MaxBuilds
    /\ pc \in {"read", "open", "write"} => makefile \in Existing

FilesOK ==
    /\ first \in Projects /\ files \in [Paths -> Contents \cup {Absent}]
    /\ \A p \in Paths : files[p] = Absent <=> first[p] = Absent
    /\ \A p \in Existing :
        /\ files[p] = first[p] \/ files[p] \in Cuts(Rewritten(p))
        /\ files[p] \in {first[p], Rewritten(p)} \/ p \in torn \/ (pc = "write" /\ makefile = p)

LinesOK ==
    /\ pc = "open" => lines = Rewrite(files[makefile])
    /\ pc = "write" => /\ lines \in Cuts(Rewritten(makefile))
                       /\ makefile \in torn \/ lines = Rewritten(makefile)

TreeInv == ProgramOK /\ FilesOK /\ LinesOK

LEMMA TreesAre ==
    /\ CurrentDir \in Dirs
    /\ \A c \in Commands : c.make \in BOOLEAN /\ c.where \in Dirs
    /\ \A f \in Projects : f \in [Paths -> Contents \cup {Absent}]
    /\ Absent \notin Contents
    /\ MaxBuilds \in Nat
  BY MakefileAssumption DEF MakefileAssumption

LEMMA FirstIs ==
    ASSUME FilesOK, NEW p \in Existing
    PROVE  /\ p \in Paths /\ first[p] \in Contents /\ files[p] \in Contents
           /\ Rewritten(p) = Rewrite(first[p])
           /\ Rewritten(p) \in Contents /\ Len(Rewritten(p)) = Len(first[p])
<1>1. p \in Paths /\ files[p] # Absent
  BY DEF Existing
<1>2. first[p] \in Contents
  BY <1>1, TreesAre DEF FilesOK
<1>3. files[p] \in Contents
  BY <1>1 DEF FilesOK
<1>4. Rewritten(p) = Rewrite(first[p])
  BY DEF Rewritten, Rewrite
<1> QED
  BY <1>1, <1>2, <1>3, <1>4, RewriteIs

LEMMA FileIs ==
    ASSUME FilesOK, NEW p \in Existing
    PROVE  Len(files[p]) <= Len(first[p])
           /\ (files[p] # first[p] => Rewrite(files[p]) = files[p])
           /\ Rewrite(files[p]) \in Cuts(Rewritten(p))
           /\ (files[p] \in {first[p], Rewritten(p)} => Rewrite(files[p]) = Rewritten(p))
<1>1. /\ first[p] \in Contents /\ Rewritten(p) = Rewrite(first[p])
      /\ Rewritten(p) \in Contents /\ Len(Rewritten(p)) = Len(first[p])
  BY FirstIs
<1>2. Len(first[p]) \in Nat
  BY <1>1, ContentsAre
<1>3. CASE files[p] = first[p]
  BY <1>1, <1>2, <1>3, NothingCuts
<1>4. CASE files[p] \in Cuts(Rewritten(p))
  <2>1. Rewrite(files[p]) = files[p]
    BY <1>1, <1>4, CutsStay
  <2>2. Len(files[p]) <= Len(first[p])
    BY <1>1, <1>4, CutsBegin DEF Begins
  <2>3. files[p] = first[p] => Rewrite(files[p]) = Rewritten(p)
    BY <1>1
  <2> QED
    BY <1>4, <2>1, <2>2, <2>3
<1> QED
  BY <1>3, <1>4 DEF FilesOK

LEMMA InitTree == Init => TreeInv
<1> SUFFICES ASSUME Init
             PROVE  TreeInv
  OBVIOUS
<1>1. ProgramOK
  <2>1. <<CurrentDir, "Makefile">> \in Paths
    BY TreesAre DEF Paths, Names
  <2>2. 0 \in 0..MaxBuilds
    BY TreesAre
  <2> QED
    BY <2>1, <2>2 DEF Init, ProgramOK, Steps
<1>2. FilesOK
  BY TreesAre DEF Init, FilesOK
<1>3. LinesOK
  BY DEF Init, LinesOK
<1> QED
  BY <1>1, <1>2, <1>3 DEF TreeInv

(* Steps that write no file. *)
LEMMA FilesKept ==
    ASSUME TreeInv, files' = files, first' = first, torn' = torn, pc # "write"
    PROVE  FilesOK' /\ Existing' = Existing
<1>1. Existing' = Existing
  BY DEF Existing
<1>2. ASSUME NEW p \in Existing
      PROVE  Rewritten(p)' = Rewritten(p)
  BY DEF Rewritten
<1>3. ASSUME NEW p \in Existing
      PROVE  /\ files'[p] = first'[p] \/ files'[p] \in Cuts(Rewritten(p))'
             /\ files'[p] \in {first'[p], Rewritten(p)'} \/ p \in torn'
  <2>1. Rewritten(p)' = Rewritten(p)
    BY <1>2
  <2>2. Cuts(Rewritten(p))' = Cuts(Rewritten(p))
    BY <2>1 DEF Cuts, Cut
  <2> QED
    BY <2>1, <2>2 DEF TreeInv, FilesOK
<1> QED
  BY <1>1, <1>3 DEF TreeInv, FilesOK

(* Steps that write the Makefile. *)
LEMMA FileWritten ==
    ASSUME TreeInv, makefile \in Existing, makefile' = makefile,
           NEW f, f \in Cuts(Rewritten(makefile)), files' = [files EXCEPT ![makefile] = f],
           first' = first, torn' = torn,
           pc' = "write" \/ f = Rewritten(makefile) \/ makefile \in torn,
           pc = "write" \/ pc' = "write"
    PROVE  FilesOK' /\ Existing' = Existing /\ Rewritten(makefile)' = Rewritten(makefile)
<1>1. /\ makefile \in Paths /\ first[makefile] \in Contents /\ files[makefile] \in Contents
      /\ Rewritten(makefile) \in Contents
  BY FirstIs DEF TreeInv
<1>2. f \in Contents /\ f # Absent
  BY <1>1, CutsBegin, TreesAre
<1>3. files' \in [Paths -> Contents \cup {Absent}]
  BY <1>2 DEF TreeInv, FilesOK
<1>4. files'[makefile] = f /\ \A p \in Paths : p # makefile => files'[p] = files[p]
  BY <1>1 DEF TreeInv, FilesOK
<1>5. \A p \in Paths : files'[p] = Absent <=> files[p] = Absent
  BY <1>2, <1>4 DEF Existing
<1>6. Existing' = Existing
  BY <1>5 DEF Existing
<1>7. ASSUME NEW p \in Existing
      PROVE  Rewritten(p)' = Rewritten(p) /\ Cuts(Rewritten(p))' = Cuts(Rewritten(p))
  <2>1. Rewritten(p)' = Rewritten(p)
    BY DEF Rewritten
  <2> QED
    BY <2>1 DEF Cuts, Cut
<1>8. ASSUME NEW p \in Existing
      PROVE  /\ files'[p] = first'[p] \/ files'[p] \in Cuts(Rewritten(p))'
             /\ \/ files'[p] \in {first'[p], Rewritten(p)'} \/ p \in torn'
                \/ pc' = "write" /\ makefile' = p
  <2>1. CASE p = makefile
    BY <1>4, <1>7, <2>1
  <2>2. CASE p # makefile
    <3>1. p \in Paths /\ files'[p] = files[p]
      BY <1>4, <2>2 DEF Existing
    <3> QED
      BY <1>7, <2>2, <3>1 DEF TreeInv, FilesOK
  <2> QED
    BY <2>1, <2>2
<1>9. FilesOK'
  BY <1>3, <1>5, <1>6, <1>8 DEF TreeInv, FilesOK
<1>10. Rewritten(makefile)' = Rewritten(makefile)
  BY DEF Rewritten
<1> QED
  BY <1>6, <1>9, <1>10

LEMMA FoundIs ==
    ASSUME NEW order, order = Candidates \/ order = MakesOrder, NEW dir
    PROVE  /\ Found(order, dir) = 0 => \A n \in Names : files[<<dir, n>>] = Absent
           /\ Found(order, dir) # 0 => /\ Found(order, dir) \in 1..3
                                       /\ order[Found(order, dir)] \in Names
                                       /\ files[<<dir, order[Found(order, dir)]>>] # Absent
<1>1. /\ Len(order) = 3 /\ \A i \in 1..3 : order[i] \in Names
      /\ \A n \in Names : \E i \in 1..3 : order[i] = n
  BY DEF Candidates, MakesOrder, Names
<1> DEFINE I == {i \in 1..Len(order) : files[<<dir, order[i]>>] # Absent}
<1>2. Found(order, dir) = IF I # {} THEN Min(I) ELSE 0
  BY DEF Found, SelectInSeq
<1>3. I \subseteq Nat /\ 0 \notin I
  BY <1>1
<1>4. CASE I = {}
  <2>1. ASSUME NEW n \in Names
        PROVE  files[<<dir, n>>] = Absent
    <3>1. PICK i \in 1..3 : order[i] = n
      BY <1>1
    <3>2. i \notin I
      BY <1>4
    <3> QED
      BY <1>1, <3>1, <3>2
  <2> HIDE DEF I
  <2> QED
    BY <1>2, <1>4, <2>1
<1>5. CASE I # {}
  <2>1. PICK m : m = Min(I)
    OBVIOUS
  <2>2. m \in I
    <3> HIDE DEF I
    <3> QED
      BY <1>3, <1>5, <2>1, MinIs
  <2>3. m \in 1..3 /\ files[<<dir, order[m]>>] # Absent /\ m # 0 /\ order[m] \in Names
    BY <1>1, <2>2
  <2>4. Found(order, dir) = m
    <3> HIDE DEF I
    <3> QED
      BY <1>2, <1>5, <2>1
  <2> QED
    BY <2>3, <2>4
<1> QED
  BY <1>4, <1>5

LEMMA MakeDirIs == \A c \in Commands : MakeDir(c) \in Dirs
  BY TreesAre DEF MakeDir

LEMMA TreeStep == TreeInv /\ [Next]_vars => TreeInv'
<1> SUFFICES ASSUME TreeInv, [Next]_vars
             PROVE  TreeInv'
  OBVIOUS
<1> USE DEF Steps, disk
<1>1. ASSUME NEW c \in Commands, Start(c)
      PROVE  TreeInv'
  <2>1. FilesOK' /\ Existing' = Existing
    BY <1>1, FilesKept DEF Start
  <2>2. builds + 1 \in 0..MaxBuilds
    BY <1>1, TreesAre DEF Start, TreeInv, ProgramOK
  <2>3. ProgramOK'
    BY <1>1, <2>1, <2>2 DEF Start, TreeInv, ProgramOK
  <2> QED
    BY <1>1, <2>1, <2>3 DEF Start, TreeInv, LinesOK
<1>2. CASE Skip
  <2>1. FilesOK' /\ Existing' = Existing
    BY <1>2, FilesKept DEF Skip
  <2>2. ProgramOK'
    BY <1>2, <2>1 DEF Skip, TreeInv, ProgramOK
  <2> QED
    BY <1>2, <2>1, <2>2 DEF Skip, TreeInv, LinesOK
<1>3. CASE FindMakefile
  <2>1. FilesOK' /\ Existing' = Existing
    BY <1>3, FilesKept DEF FindMakefile
  <2>2. PICK dir, k : dir = MakeDir(command) /\ k = Found(Candidates, dir)
    OBVIOUS
  <2>3. k # 0 /\ makefile' = <<dir, Candidates[k]>>
    BY <1>3, <2>2 DEF FindMakefile
  <2>4. dir \in Dirs
    BY <2>2, MakeDirIs DEF TreeInv, ProgramOK
  <2>5. Candidates[k] \in Names /\ files[<<dir, Candidates[k]>>] # Absent
    BY <2>2, <2>3, FoundIs
  <2>6. makefile' \in Paths /\ makefile' \in Existing
    BY <2>3, <2>4, <2>5 DEF Paths, Existing
  <2>7. ProgramOK'
    BY <1>3, <2>1, <2>6 DEF FindMakefile, TreeInv, ProgramOK
  <2> QED
    BY <1>3, <2>1, <2>7 DEF FindMakefile, TreeInv, LinesOK
<1>4. CASE ReadLines
  <2>1. FilesOK' /\ Existing' = Existing
    BY <1>4, FilesKept DEF ReadLines
  <2>2. ProgramOK'
    BY <1>4, <2>1 DEF ReadLines, TreeInv, ProgramOK
  <2>3. lines' = Rewrite(files[makefile])
    BY <1>4 DEF ReadLines, Rewrite
  <2>4. files' = files /\ makefile' = makefile /\ pc' = "open"
    BY <1>4 DEF ReadLines
  <2>5. Rewrite(files[makefile])' = Rewrite(files[makefile])
    BY <2>4 DEF Rewrite
  <2>6. LinesOK'
    BY <2>3, <2>4, <2>5 DEF LinesOK
  <2> QED
    BY <2>1, <2>2, <2>6 DEF TreeInv
<1>5. CASE CannotOpen
  <2>1. FilesOK' /\ Existing' = Existing
    BY <1>5, FilesKept DEF CannotOpen
  <2>2. ProgramOK'
    BY <1>5, <2>1 DEF CannotOpen, TreeInv, ProgramOK
  <2> QED
    BY <1>5, <2>1, <2>2 DEF CannotOpen, TreeInv, LinesOK
<1>6. CASE Open
  <2>1. makefile \in Existing /\ pc = "open" /\ pc' = "write" /\ makefile' = makefile
    BY <1>6 DEF Open, TreeInv, ProgramOK
  <2>2. PICK f : f = <<>>
    OBVIOUS
  <2>3. f \in Cuts(Rewritten(makefile))
    BY <2>1, <2>2, FirstIs, NothingCuts DEF TreeInv
  <2>4. files' = [files EXCEPT ![makefile] = f] /\ first' = first /\ torn' = torn
    BY <1>6, <2>2 DEF Open, Truncated
  <2>5. FilesOK' /\ Existing' = Existing /\ Rewritten(makefile)' = Rewritten(makefile)
    BY <2>1, <2>3, <2>4, FileWritten
  <2>6. ProgramOK'
    BY <1>6, <2>5 DEF Open, TreeInv, ProgramOK
  <2>7. /\ lines \in Cuts(Rewritten(makefile))
        /\ makefile \in torn \/ lines = Rewritten(makefile)
    <3>1. lines = Rewrite(files[makefile])
      BY <2>1 DEF TreeInv, LinesOK
    <3>2. FilesOK
      BY DEF TreeInv
    <3>3. /\ Rewrite(files[makefile]) \in Cuts(Rewritten(makefile))
          /\ (files[makefile] \in {first[makefile], Rewritten(makefile)}
                => Rewrite(files[makefile]) = Rewritten(makefile))
      BY <2>1, <3>2, FileIs
    <3>4. files[makefile] \in {first[makefile], Rewritten(makefile)} \/ makefile \in torn
      BY <2>1, <3>2 DEF FilesOK
    <3> QED
      BY <3>1, <3>3, <3>4
  <2>8. Cuts(Rewritten(makefile))' = Cuts(Rewritten(makefile))
    BY <2>5 DEF Cuts, Cut
  <2>9. lines' = lines
    BY <1>6 DEF Open
  <2>10. LinesOK'
    BY <2>1, <2>4, <2>5, <2>7, <2>8, <2>9 DEF LinesOK
  <2> QED
    BY <2>5, <2>6, <2>10 DEF TreeInv
<1>7. CASE Flush
  <2>1. makefile \in Existing /\ pc = "write" /\ pc' = "write" /\ makefile' = makefile
    BY <1>7 DEF Flush, TreeInv, ProgramOK
  <2>2. PICK f \in Cuts(lines) : files' = [files EXCEPT ![makefile] = f]
    BY <1>7 DEF Flush
  <2>3. first' = first /\ torn' = torn /\ lines' = lines
    BY <1>7 DEF Flush
  <2>4. lines \in Cuts(Rewritten(makefile))
    BY <2>1 DEF TreeInv, LinesOK
  <2>5. f \in Cuts(Rewritten(makefile))
    <3>1. Rewritten(makefile) \in Contents
      BY <2>1, FirstIs DEF TreeInv
    <3> QED
      BY <2>4, <3>1, CutsAgain
  <2>6. FilesOK' /\ Existing' = Existing /\ Rewritten(makefile)' = Rewritten(makefile)
    BY <2>1, <2>2, <2>3, <2>5, FileWritten
  <2>7. ProgramOK'
    BY <1>7, <2>6 DEF Flush, TreeInv, ProgramOK
  <2>8. Cuts(Rewritten(makefile))' = Cuts(Rewritten(makefile))
    BY <2>6 DEF Cuts, Cut
  <2>9. LinesOK'
    BY <2>1, <2>3, <2>6, <2>8 DEF TreeInv, LinesOK
  <2> QED
    BY <2>6, <2>7, <2>9 DEF TreeInv
<1>8. CASE Close
  <2>1. makefile \in Existing /\ pc = "write" /\ pc' = "run" /\ makefile' = makefile
    BY <1>8 DEF Close, TreeInv, ProgramOK
  <2>2. files' = [files EXCEPT ![makefile] = lines] /\ first' = first /\ torn' = torn
    BY <1>8 DEF Close, WriteRest
  <2>3. lines \in Cuts(Rewritten(makefile)) /\ (makefile \in torn \/ lines = Rewritten(makefile))
    BY <2>1 DEF TreeInv, LinesOK
  <2>4. FilesOK' /\ Existing' = Existing
    BY <2>1, <2>2, <2>3, FileWritten
  <2>5. ProgramOK'
    BY <1>8, <2>4 DEF Close, TreeInv, ProgramOK
  <2> QED
    BY <2>1, <2>4, <2>5 DEF TreeInv, LinesOK
<1>9. CASE RunBuild
  <2>1. FilesOK' /\ Existing' = Existing
    BY <1>9, FilesKept DEF RunBuild
  <2>2. PICK k : k = Found(MakesOrder, command.where)
    OBVIOUS
  <2>3. seen' = (IF command.make /\ k # 0 THEN <<command.where, MakesOrder[k]>> ELSE NotRun)
    BY <1>9, <2>2 DEF RunBuild
  <2>4. k # 0 => MakesOrder[k] \in Names
    BY <2>2, FoundIs
  <2>5. command.where \in Dirs
    BY TreesAre DEF TreeInv, ProgramOK
  <2>6. seen' \in Paths \cup {NotRun}
    BY <2>3, <2>4, <2>5 DEF Paths
  <2>7. ProgramOK'
    BY <1>9, <2>1, <2>6 DEF RunBuild, TreeInv, ProgramOK
  <2> QED
    BY <1>9, <2>1, <2>7 DEF RunBuild, TreeInv, LinesOK
<1>10. CASE Crash \/ CloseFullDisk
  <2>1. files' = files /\ first' = first /\ makefile' = makefile /\ pc' \in {"idle", "run"}
    BY <1>10 DEF Crash, CloseFullDisk
  <2>2. Existing' = Existing
    BY <2>1 DEF Existing
  <2>3. torn \subseteq torn' /\ torn' \subseteq Existing /\ (pc = "write" => makefile \in torn')
    BY <1>10 DEF Crash, CloseFullDisk, TreeInv, ProgramOK
  <2>4. ASSUME NEW p \in Existing
        PROVE  /\ files[p] = first[p] \/ files[p] \in Cuts(Rewritten(p))'
               /\ files[p] \in {first[p], Rewritten(p)'} \/ p \in torn'
    <3>1. Rewritten(p)' = Rewritten(p)
      BY <2>1 DEF Rewritten
    <3>2. Cuts(Rewritten(p))' = Cuts(Rewritten(p))
      BY <3>1 DEF Cuts, Cut
    <3> QED
      BY <2>3, <3>1, <3>2 DEF TreeInv, FilesOK
  <2>5. FilesOK'
    BY <2>1, <2>2, <2>4 DEF TreeInv, FilesOK
  <2>6. ProgramOK'
    BY <1>10, <2>1, <2>2, <2>3 DEF Crash, CloseFullDisk, TreeInv, ProgramOK
  <2> QED
    BY <2>1, <2>5, <2>6 DEF TreeInv, LinesOK
<1>11. CASE UNCHANGED vars
  <2>1. /\ files' = files /\ first' = first /\ pc' = pc /\ command' = command /\ makefile' = makefile
        /\ lines' = lines /\ torn' = torn /\ seen' = seen /\ builds' = builds
    BY <1>11 DEF vars
  <2>2. Existing' = Existing
    BY <2>1 DEF Existing
  <2>3. ASSUME NEW p \in Paths
        PROVE  Rewritten(p)' = Rewritten(p) /\ Cuts(Rewritten(p))' = Cuts(Rewritten(p))
    <3>1. Rewritten(p)' = Rewritten(p)
      BY <2>1 DEF Rewritten
    <3> QED
      BY <3>1 DEF Cuts, Cut
  <2>4. FilesOK'
    BY <2>1, <2>2, <2>3 DEF TreeInv, FilesOK, Existing
  <2>5. ProgramOK'
    BY <2>1, <2>2 DEF TreeInv, ProgramOK
  <2>6. Rewrite(files[makefile])' = Rewrite(files[makefile]) /\ Rewritten(makefile)' = Rewritten(makefile)
    BY <2>1 DEF Rewrite, Rewritten
  <2>7. Cuts(Rewritten(makefile))' = Cuts(Rewritten(makefile))
    BY <2>6 DEF Cuts, Cut
  <2>8. LinesOK'
    BY <2>1, <2>6, <2>7 DEF TreeInv, LinesOK
  <2> QED
    BY <2>4, <2>5, <2>8 DEF TreeInv
<1>12. CASE Done
  BY <1>11, <1>12 DEF Done
<1> QED
  BY <1>1, <1>2, <1>3, <1>4, <1>5, <1>6, <1>7, <1>8, <1>9, <1>10, <1>11, <1>12 DEF Next

LEMMA SpecTree == Spec => []TreeInv
  BY InitTree, TreeStep, PTL DEF Spec

(* Variables keep their types, no Makefile appears or goes however often   *)
(* builds are killed, and none grows by a line.  (apply_to_file)           *)
THEOREM MakefileTypes == Spec => []TypeOK
<1>1. TreeInv => TypeOK
  <2> SUFFICES ASSUME TreeInv
               PROVE  TypeOK
    OBVIOUS
  <2>1. Existing = {p \in Paths : first[p] # Absent}
    BY DEF TreeInv, FilesOK, Existing
  <2>2. \A p \in Existing : Len(files[p]) <= Len(first[p])
    BY FileIs DEF TreeInv
  <2> QED
    BY <2>1, <2>2 DEF TreeInv, ProgramOK, TypeOK, Steps
<1> QED
  BY <1>1, SpecTree, PTL

(* What has been rewritten, or what a killed build left of it, is rewritten *)
(* to itself, whatever is on its lines: sorting is added once.             *)
(* (canonicalize_make_text)                                                *)
THEOREM RewritingSettles == Spec => []Settled
<1>1. TreeInv => Settled
  <2> SUFFICES ASSUME TreeInv, pc = "open", files[makefile] # first[makefile]
               PROVE  lines = files[makefile]
    BY DEF Settled
  <2>1. makefile \in Existing /\ lines = Rewrite(files[makefile])
    BY DEF TreeInv, ProgramOK, LinesOK
  <2>2. Rewrite(files[makefile]) = files[makefile]
    BY <2>1, FileIs DEF TreeInv
  <2> QED
    BY <2>1, <2>2
<1> QED
  BY <1>1, SpecTree, PTL

(* A Makefile is the old one, the new one, or a beginning of the new one,  *)
(* and the last only where its writing was cut short.  Of a torn one        *)
(* the next build makes nothing else.  (apply_to_file)                     *)
THEOREM MakefilesAreWhole == Spec => []WholeOrTorn
<1>1. TreeInv => WholeOrTorn
  BY DEF TreeInv, FilesOK, WholeOrTorn
<1> QED
  BY <1>1, SpecTree, PTL

-----------------------------------------------------------------------------
(* What make reads, when it runs in the directory that fixMakefile looks in *)
(* and there is one Makefile in each.                                       *)

OwnMakefile ==
    /\ \A c \in Commands : c.make => MakeDir(c) = c.where
    /\ \A f \in Projects, d \in Dirs : \A m, n \in Names :
           f[<<d, m>>] # Absent /\ f[<<d, n>>] # Absent => m = n

(* Of the lines alone: rewritten, they have their listings sorted. *)
LinesAreSorted ==
    \A f \in Projects, p \in Paths :
        f[p] # Absent => \A i \in 1..Len(f[p]) : ListingsSorted(Canonical(f[p][i]))

Renewed(p) == files[p] = Rewritten(p) \/ p \in torn

ReadyOK ==
    /\ pc \in {"read", "open", "write"} => command.make /\ makefile[1] = MakeDir(command)
    /\ pc = "run" /\ command.make => \A p \in Existing : p[1] = command.where => Renewed(p)
    /\ seen # NotRun => pc = "idle" /\ seen \in Existing /\ Renewed(seen)

LEMMA PathIs == \A p \in Paths : p[1] \in Dirs /\ p[2] \in Names /\ p = <<p[1], p[2]>>
  BY DEF Paths

LEMMA OneMakefile ==
    ASSUME TreeInv, OwnMakefile, NEW p \in Existing, NEW q \in Existing, p[1] = q[1]
    PROVE  p = q
<1>1. p \in Paths /\ q \in Paths /\ first[p] # Absent /\ first[q] # Absent /\ first \in Projects
  BY DEF TreeInv, FilesOK, Existing
<1>2. /\ p[1] \in Dirs /\ p[2] \in Names /\ p = <<p[1], p[2]>>
      /\ q[2] \in Names /\ q = <<p[1], q[2]>>
  BY <1>1, PathIs
<1>3. p[2] = q[2]
  BY <1>1, <1>2 DEF OwnMakefile
<1> QED
  BY <1>2, <1>3

LEMMA ReadyStep == TreeInv /\ TreeInv' /\ OwnMakefile /\ ReadyOK /\ [Next]_vars => ReadyOK'
<1> SUFFICES ASSUME TreeInv, TreeInv', OwnMakefile, ReadyOK, [Next]_vars
             PROVE  ReadyOK'
  OBVIOUS
<1> USE DEF disk
<1>1. ASSUME NEW c \in Commands, Start(c)
      PROVE  ReadyOK'
  BY <1>1 DEF Start, ReadyOK
<1>2. CASE Skip
  <2>1. pc = "fix" /\ pc' = "run" /\ seen' = seen /\ command' = command /\ files' = files /\ torn' = torn
    BY <1>2 DEF Skip
  <2>2. ASSUME command.make, NEW p \in Existing', p[1] = command.where
        PROVE  FALSE
    <3>1. p \in Paths /\ files[p] # Absent
      BY <2>1, <2>2 DEF Existing
    <3>2. Found(Candidates, MakeDir(command)) = 0
      BY <1>2, <2>2 DEF Skip
    <3>3. MakeDir(command) = command.where
      BY <2>2 DEF OwnMakefile, TreeInv, ProgramOK
    <3>4. p[2] \in Names /\ p = <<p[1], p[2]>>
      BY <3>1, PathIs
    <3>5. \A n \in Names : files[<<MakeDir(command), n>>] = Absent
      BY <3>2, FoundIs
    <3> QED
      BY <2>2, <3>1, <3>3, <3>4, <3>5
  <2>3. seen = NotRun
    BY <2>1 DEF ReadyOK
  <2> QED
    BY <2>1, <2>2, <2>3 DEF ReadyOK
<1>3. CASE FindMakefile
  <2>1. pc = "fix" /\ pc' = "read" /\ seen' = seen /\ command' = command /\ command.make
    BY <1>3 DEF FindMakefile
  <2>2. PICK dir, k : dir = MakeDir(command) /\ k = Found(Candidates, dir)
    OBVIOUS
  <2>3. makefile' = <<dir, Candidates[k]>>
    BY <1>3, <2>2 DEF FindMakefile
  <2>4. makefile'[1] = MakeDir(command)'
    BY <2>1, <2>2, <2>3 DEF MakeDir
  <2>5. seen = NotRun
    BY <2>1 DEF ReadyOK
  <2> QED
    BY <2>1, <2>4, <2>5 DEF ReadyOK
<1>4. CASE ReadLines \/ CannotOpen \/ Open \/ Flush
  <2>1. /\ pc \in {"read", "open", "write"} /\ pc' \in {"idle", "open", "write"}
        /\ seen' = seen /\ command' = command /\ makefile' = makefile
    BY <1>4 DEF ReadLines, CannotOpen, Open, Flush
  <2>2. seen = NotRun
    BY <2>1 DEF ReadyOK
  <2>3. MakeDir(command)' = MakeDir(command)
    BY <2>1 DEF MakeDir
  <2> QED
    BY <2>1, <2>2, <2>3 DEF ReadyOK
<1>5. CASE Close
  <2>1. /\ pc = "write" /\ pc' = "run" /\ seen' = seen /\ command' = command
        /\ files' = [files EXCEPT ![makefile] = lines] /\ first' = first /\ torn' = torn
    BY <1>5 DEF Close, WriteRest
  <2>2. seen = NotRun
    BY <2>1 DEF ReadyOK
  <2>3. makefile \in Existing /\ makefile \in Paths /\ files'[makefile] = lines
    BY <2>1 DEF TreeInv, ProgramOK, FilesOK
  <2>4. makefile \in torn \/ lines = Rewritten(makefile)
    BY <2>1 DEF TreeInv, LinesOK
  <2>5. ASSUME command.make, NEW p \in Existing', p[1] = command.where
        PROVE  Renewed(p)'
    <3>1. p \in Existing
      BY <2>1 DEF TreeInv, FilesOK, Existing
    <3>2. makefile[1] = command.where
      BY <2>1, <2>5 DEF OwnMakefile, TreeInv, ProgramOK, ReadyOK
    <3>3. p = makefile
      BY <2>3, <2>5, <3>1, <3>2, OneMakefile
    <3>4. Rewritten(p)' = Rewritten(p)
      BY <2>1 DEF Rewritten
    <3> QED
      BY <2>1, <2>3, <2>4, <3>3, <3>4 DEF Renewed
  <2> QED
    BY <2>1, <2>2, <2>5 DEF ReadyOK
<1>6. CASE RunBuild
  <2>1. pc = "run" /\ pc' = "idle" /\ files' = files /\ first' = first /\ torn' = torn
    BY <1>6 DEF RunBuild
  <2>2. PICK k : k = Found(MakesOrder, command.where)
    OBVIOUS
  <2>3. seen' = (IF command.make /\ k # 0 THEN <<command.where, MakesOrder[k]>> ELSE NotRun)
    BY <1>6, <2>2 DEF RunBuild
  <2>4. ASSUME seen' # NotRun
        PROVE  seen' \in Existing' /\ Renewed(seen)'
    <3>1. command.make /\ k # 0 /\ seen' = <<command.where, MakesOrder[k]>>
      BY <2>3, <2>4
    <3>2. MakesOrder[k] \in Names /\ files[<<command.where, MakesOrder[k]>>] # Absent
      BY <2>2, <3>1, FoundIs
    <3>3. command.where \in Dirs
      BY TreesAre DEF TreeInv, ProgramOK
    <3>4. PICK p : p = <<command.where, MakesOrder[k]>>
      OBVIOUS
    <3>5. p \in Existing /\ p[1] = command.where
      BY <3>2, <3>3, <3>4 DEF Existing, Paths
    <3>6. Renewed(p)
      BY <2>1, <3>1, <3>5 DEF ReadyOK
    <3>7. Existing' = Existing
      BY <2>1 DEF Existing
    <3>8. Rewritten(p)' = Rewritten(p)
      BY <2>1 DEF Rewritten
    <3>9. seen' = p
      BY <3>1, <3>4
    <3>10. files'[p] = Rewritten(p)' \/ p \in torn'
      BY <2>1, <3>6, <3>8 DEF Renewed
    <3>11. Renewed(seen)'
      BY <2>1, <3>9, <3>10 DEF Renewed, Rewritten
    <3> QED
      BY <3>5, <3>7, <3>9, <3>11
  <2> QED
    BY <2>1, <2>4 DEF ReadyOK
<1>7. CASE Crash
  BY <1>7 DEF Crash, ReadyOK
<1>10. CASE CloseFullDisk
  <2>1. /\ pc = "write" /\ pc' = "run" /\ seen' = seen /\ command' = command
        /\ files' = files /\ torn' = torn \cup {makefile}
    BY <1>10 DEF CloseFullDisk
  <2>2. seen = NotRun
    BY <2>1 DEF ReadyOK
  <2>3. makefile \in Existing
    BY <2>1 DEF TreeInv, ProgramOK
  <2>4. ASSUME command.make, NEW p \in Existing', p[1] = command.where
        PROVE  Renewed(p)'
    <3>1. p \in Existing
      BY <2>1 DEF Existing
    <3>2. makefile[1] = command.where
      BY <2>1, <2>4 DEF OwnMakefile, TreeInv, ProgramOK, ReadyOK
    <3>3. p = makefile
      BY <2>3, <2>4, <3>1, <3>2, OneMakefile
    <3> QED
      BY <2>1, <3>3 DEF Renewed
  <2> QED
    BY <2>1, <2>2, <2>4 DEF ReadyOK
<1>8. CASE UNCHANGED vars
  <2>1. /\ files' = files /\ first' = first /\ pc' = pc /\ command' = command /\ makefile' = makefile
        /\ lines' = lines /\ torn' = torn /\ seen' = seen /\ builds' = builds
    BY <1>8 DEF vars
  <2>2. Existing' = Existing /\ MakeDir(command)' = MakeDir(command)
    BY <2>1 DEF Existing, MakeDir
  <2>3. ASSUME NEW p
        PROVE  Renewed(p)' <=> Renewed(p)
    <3>1. Rewritten(p)' = Rewritten(p)
      BY <2>1 DEF Rewritten
    <3> QED
      BY <2>1, <3>1 DEF Renewed
  <2>4. Renewed(seen)' <=> Renewed(seen)
    BY <2>1 DEF Renewed, Rewritten
  <2> QED
    BY <2>1, <2>2, <2>3, <2>4 DEF ReadyOK
<1>9. CASE Done
  BY <1>8, <1>9 DEF Done
<1> QED
  BY <1>1, <1>2, <1>3, <1>4, <1>5, <1>6, <1>7, <1>8, <1>9, <1>10 DEF Next

(* The Makefile that make reads is all there and rewritten, unless it was  *)
(* torn.  (fixMakefile finds the file make will read; apply_to_file has    *)
(* written it when the build runs.)  That a rewritten line has its         *)
(* listings sorted is a hypothesis.                                        *)
THEOREM MakeReadsWhatIsSorted ==
    ASSUME OwnMakefile, LinesAreSorted
    PROVE  Spec => []MakeReadsSorted
<1>1. Init => ReadyOK
  BY DEF Init, ReadyOK
<1>2. TreeInv /\ ReadyOK => MakeReadsSorted
  <2> SUFFICES ASSUME TreeInv, ReadyOK, seen # NotRun, seen \notin torn
               PROVE  /\ Len(files[seen]) = Len(first[seen])
                      /\ \A i \in 1..Len(files[seen]) : ListingsSorted(files[seen][i])
    BY DEF MakeReadsSorted
  <2>1. seen \in Existing /\ files[seen] = Rewritten(seen)
    BY DEF ReadyOK, Renewed
  <2>2. /\ seen \in Paths /\ first[seen] \in Contents
        /\ Rewritten(seen) = Rewrite(first[seen]) /\ Len(Rewritten(seen)) = Len(first[seen])
    BY <2>1, FirstIs DEF TreeInv
  <2>3. first \in Projects /\ first[seen] # Absent
    BY <2>2, TreesAre DEF TreeInv, FilesOK
  <2>4. \A i \in 1..Len(first[seen]) : files[seen][i] = Canonical(first[seen][i])
    BY <2>1, <2>2, RewriteIs
  <2>5. \A i \in 1..Len(first[seen]) : ListingsSorted(Canonical(first[seen][i]))
    BY <2>2, <2>3 DEF LinesAreSorted
  <2>6. Len(files[seen]) = Len(first[seen])
    BY <2>1, <2>2
  <2>7. ASSUME NEW i \in 1..Len(files[seen])
        PROVE  ListingsSorted(files[seen][i])
    BY <2>4, <2>5, <2>6
  <2> QED
    BY <2>6, <2>7
<1>3. TreeInv /\ TreeInv' /\ ReadyOK /\ [Next]_vars => ReadyOK'
  BY ReadyStep
<1> QED
  BY <1>1, <1>2, <1>3, SpecTree, PTL DEF Spec
=============================================================================
