----------------------- MODULE CommandParsingProofs -----------------------
(***************************************************************************)
(* Proofs about module CommandParsing, for any commands: that the loop over *)
(* a command's arguments finds what the tool's conventions say, that the    *)
(* edges of a process are its commands, and that parsing implements the     *)
(* first phase of BuildGraph.                                              *)
(***************************************************************************)
EXTENDS CommandParsing, SequenceTheorems, FiniteSetTheorems, TLAPS

(* Least elements. *)
LEMMA Least ==
    ASSUME NEW T, T \subseteq Nat, T # {}
    PROVE  \E m \in T : \A x \in T : m <= x
<1>1. PICK m \in T : \A x \in T : <<x, m>> \notin OpToRel(<, Nat)
  BY NatLessThanWellFounded, WFMin
<1>2. \A x \in T : ~(x < m)
  BY <1>1 DEF OpToRel
<1> QED
  BY <1>2

(* What holds at 0 and goes up to n. *)
LEMMA Climb ==
    ASSUME NEW n \in Nat, NEW S, 0 \in S, \A j \in 0..n-1 : j \in S => j + 1 \in S
    PROVE  n \in S /\ \A j \in 0..n : j \in S
<1> SUFFICES ASSUME NEW j \in 0..n, j \notin S
             PROVE  FALSE
  OBVIOUS
<1> DEFINE T == {k \in 0..n : k \notin S}
<1>1. PICK m \in T : \A x \in T : m <= x
  <2>1. T \subseteq Nat /\ T # {}
    OBVIOUS
  <2> HIDE DEF T
  <2> QED
    BY <2>1, Least
<1>2. m \in 1..n /\ m \notin S
  OBVIOUS
<1>3. m - 1 \in S
  <2>1. m - 1 \in 0..n-1 /\ ~(m <= m - 1)
    BY <1>2
  <2>2. m - 1 \in 0..n
    BY <2>1
  <2> QED
    BY <1>1, <2>1, <2>2
<1>4. m - 1 + 1 = m
  BY <1>2
<1> QED
  BY <1>2, <1>3, <1>4

(* A value and a step from each to the next determine a sequence of values. *)
Iterated(n, V, c, step) ==
    \E h \in [0..n -> V] : h[0] = c /\ \A k \in 1..n : h[k] = step[k][h[k - 1]]

LEMMA Recursion ==
    ASSUME NEW n \in Nat, NEW V, NEW c \in V, NEW step \in [1..n -> [V -> V]]
    PROVE  Iterated(n, V, c, step)
<1> DEFINE Steps(h, m) == h[0] = c /\ \A k \in 1..m : h[k] = step[k][h[k - 1]]
           S == {m \in 0..n : \E h \in [0..m -> V] : Steps(h, m)}
<1>1. 0 \in S
  <2> DEFINE h == [k \in 0..0 |-> c]
  <2>1. h \in [0..0 -> V] /\ Steps(h, 0) /\ 0 \in 0..n
    OBVIOUS
  <2> QED
    BY <2>1
<1>2. ASSUME NEW m \in 0..n-1, m \in S
      PROVE  m + 1 \in S
  <2>1. PICK h \in [0..m -> V] : Steps(h, m)
    BY <1>2
  <2> DEFINE v == step[m + 1][h[m]]
             e == [k \in 0..m+1 |-> IF k = m + 1 THEN v ELSE h[k]]
  <2>2. v \in V
    <3>1. step[m + 1] \in [V -> V] /\ h[m] \in V
      OBVIOUS
    <3> QED
      BY <3>1
  <2>3. e \in [0..m+1 -> V] /\ e[m + 1] = v /\ \A k \in 0..m : e[k] = h[k]
    BY <2>2
  <2> HIDE DEF e, v
  <2>4. ASSUME NEW k \in 1..m+1
        PROVE  e[k] = step[k][e[k - 1]]
    <3>1. CASE k = m + 1
      <4>1. k - 1 = m /\ m \in 0..m
        BY <3>1
      <4>2. e[k - 1] = h[m]
        BY <2>3, <4>1
      <4> QED
        BY <2>3, <3>1, <4>2 DEF v
    <3>2. CASE k # m + 1
      <4>1. k \in 1..m /\ k - 1 \in 0..m /\ k \in 0..m
        BY <3>2
      <4> QED
        BY <2>1, <2>3, <4>1
    <3> QED
      BY <3>1, <3>2
  <2>5. Steps(e, m + 1) /\ m + 1 \in 0..n
    <3>1. e[0] = c
      BY <2>1, <2>3
    <3> QED
      BY <2>4, <3>1
  <2> HIDE DEF Steps
  <2> QED
    BY <2>3, <2>5
<1>3. n \in S
  <2> HIDE DEF S
  <2> QED
    BY <1>1, <1>2, Climb
<1> QED
  BY <1>3 DEF Iterated

-----------------------------------------------------------------------------
(* Selecting. *)

(* The rounds of Select. *)
Rounds(h, s, ks) ==
    /\ h[0] = <<>>
    /\ \A k \in 1..Len(s) : h[k] = IF k \in ks THEN Append(h[k - 1], s[k]) ELSE h[k - 1]

LEMMA SelectRounds ==
    ASSUME NEW S, NEW s \in Seq(S), NEW ks
    PROVE  \E h \in [0..Len(s) -> Seq(S)] : Rounds(h, s, ks) /\ Select(s, ks) = h[Len(s)]
<1> DEFINE n == Len(s)
           step == [k \in 1..n |-> [v \in Seq(S) |-> IF k \in ks THEN Append(v, s[k]) ELSE v]]
<1>0. n \in Nat /\ <<>> \in Seq(S)
  OBVIOUS
<1>1. step \in [1..n -> [Seq(S) -> Seq(S)]]
  <2>1. ASSUME NEW k \in 1..n, NEW v \in Seq(S)
        PROVE  (IF k \in ks THEN Append(v, s[k]) ELSE v) \in Seq(S)
    <3>1. s[k] \in S
      OBVIOUS
    <3> QED
      BY <3>1
  <2> QED
    BY <2>1
<1>2. PICK h \in [0..n -> Seq(S)] : h[0] = <<>> /\ \A k \in 1..n : h[k] = step[k][h[k - 1]]
  <2> DEFINE V == Seq(S)
             c == <<>>
  <2>1. n \in Nat /\ c \in V /\ step \in [1..n -> [V -> V]]
    BY <1>0, <1>1
  <2> HIDE DEF step, n, V, c
  <2>2. Iterated(n, V, c, step)
    BY <2>1, Recursion
  <2> QED
    BY <2>2 DEF V, c, Iterated
<1>3. ASSUME NEW k \in 1..n
      PROVE  h[k] = IF k \in ks THEN Append(h[k - 1], s[k]) ELSE h[k - 1]
  <2>1. h[k - 1] \in Seq(S)
    <3>1. k - 1 \in 0..n
      BY <1>0
    <3> QED
      BY <3>1
  <2> QED
    BY <1>2, <2>1
<1> DEFINE Is(x) == x = [k \in 0..Len(s) |->
                            IF k = 0 THEN <<>>
                            ELSE IF k \in ks THEN Append(x[k - 1], s[k]) ELSE x[k - 1]]
           upto == CHOOSE x : x = [k \in 0..Len(s) |->
                            IF k = 0 THEN <<>>
                            ELSE IF k \in ks THEN Append(x[k - 1], s[k]) ELSE x[k - 1]]
<1>4. Is(h)
  <2>1. h = [k \in 0..n |-> h[k]]
    OBVIOUS
  <2>2. \A k \in 0..n : k # 0 => k \in 1..n
    BY <1>0
  <2>3. \A k \in 0..n : h[k] = IF k = 0 THEN <<>>
                               ELSE IF k \in ks THEN Append(h[k - 1], s[k]) ELSE h[k - 1]
    BY <1>2, <1>3, <2>2
  <2> HIDE DEF step
  <2> QED
    BY <2>1, <2>3, Zenon
<1>5. Is(upto)
  BY <1>4, Zenon
<1>6. Select(s, ks) = upto[Len(s)]
  BY Zenon DEF Select
<1>7. \A k \in 0..n : upto[k] = IF k = 0 THEN <<>>
                                ELSE IF k \in ks THEN Append(upto[k - 1], s[k]) ELSE upto[k - 1]
  BY <1>5, Zenon
<1> HIDE DEF upto, Is, step
<1> DEFINE U == {k \in 0..n : upto[k] = h[k]}
<1>8. 0 \in U
  BY <1>0, <1>2, <1>7
<1>9. ASSUME NEW k \in 0..n-1, k \in U
      PROVE  k + 1 \in U
  <2>1. k + 1 \in 1..n /\ k + 1 \in 0..n /\ k + 1 # 0 /\ k + 1 - 1 = k
    BY <1>0
  <2>2. upto[k + 1] = IF k + 1 \in ks THEN Append(upto[k], s[k + 1]) ELSE upto[k]
    BY <1>7, <2>1
  <2>3. h[k + 1] = IF k + 1 \in ks THEN Append(h[k], s[k + 1]) ELSE h[k]
    BY <1>3, <2>1
  <2> QED
    BY <1>9, <2>1, <2>2, <2>3
<1>10. n \in U
  <2> HIDE DEF U
  <2> QED
    BY <1>0, <1>8, <1>9, Climb
<1> QED
  BY <1>2, <1>3, <1>6, <1>10 DEF Rounds

(* Of nothing nothing is selected. *)
LEMMA SelectNone == \A ks : Select(<<>>, ks) = <<>>
<1> SUFFICES ASSUME NEW ks
             PROVE  Select(<<>>, ks) = <<>>
  OBVIOUS
<1> DEFINE e == <<>>
<1>1. e \in Seq({}) /\ Len(e) = 0
  OBVIOUS
<1> HIDE DEF e
<1>2. PICK h \in [0..Len(e) -> Seq({})] : Rounds(h, e, ks) /\ Select(e, ks) = h[Len(e)]
  BY <1>1, SelectRounds
<1> QED
  BY <1>1, <1>2 DEF Rounds, e

(* Whether a last element is selected does not concern those before it.    *)
Agree(s, ks, js) == \A k \in 1..Len(s) : k \in ks <=> k \in js

LEMMA SelectAppend ==
    ASSUME NEW S, NEW s \in Seq(S), NEW x \in S, NEW ks, NEW js, Agree(s, ks, js)
    PROVE  /\ Select(s, ks) \in Seq(S)
           /\ Select(Append(s, x), js) = IF Len(s) + 1 \in js THEN Append(Select(s, ks), x)
                                         ELSE Select(s, ks)
<1> DEFINE n == Len(s)
           t == Append(s, x)
<1>1. n \in Nat /\ t \in Seq(S) /\ Len(t) = n + 1 /\ t[n + 1] = x /\ \A k \in 1..n : t[k] = s[k]
  OBVIOUS
<1>2. PICK h \in [0..n -> Seq(S)] : Rounds(h, s, ks) /\ Select(s, ks) = h[n]
  BY SelectRounds
<1> HIDE DEF t
<1>3. PICK g \in [0..Len(t) -> Seq(S)] : Rounds(g, t, js) /\ Select(t, js) = g[Len(t)]
  BY <1>1, SelectRounds
<1> HIDE DEF n
<1> DEFINE U == {k \in 0..n : g[k] = h[k]}
<1>4. 0 \in U
  BY <1>1, <1>2, <1>3 DEF Rounds
<1>5. ASSUME NEW k \in 0..n-1, k \in U
      PROVE  k + 1 \in U
  <2>1. k + 1 \in 1..n /\ k + 1 \in 0..n /\ k + 1 - 1 = k /\ k + 1 \in 1..Len(t)
    BY <1>1
  <2>2. g[k + 1] = IF k + 1 \in js THEN Append(g[k], t[k + 1]) ELSE g[k]
    BY <1>3, <2>1 DEF Rounds
  <2>3. h[k + 1] = IF k + 1 \in ks THEN Append(h[k], s[k + 1]) ELSE h[k]
    BY <1>2, <2>1 DEF Rounds, n
  <2>4. (k + 1 \in js <=> k + 1 \in ks) /\ t[k + 1] = s[k + 1]
    BY <1>1, <2>1 DEF n, Agree
  <2> QED
    BY <1>5, <2>1, <2>2, <2>3, <2>4
<1>6. g[n] = h[n]
  <2> HIDE DEF U
  <2>1. n \in U
    BY <1>1, <1>4, <1>5, Climb
  <2> QED
    BY <2>1 DEF U
<1>7. g[n + 1] = IF n + 1 \in js THEN Append(g[n], x) ELSE g[n]
  <2>1. n + 1 \in 1..Len(t) /\ n + 1 - 1 = n
    BY <1>1
  <2> QED
    BY <1>1, <1>3, <2>1 DEF Rounds
<1>8. h[n] \in Seq(S)
  BY <1>1
<1> QED
  BY <1>2, <1>3, <1>6, <1>7, <1>8 DEF n, t

-----------------------------------------------------------------------------
(* The values of flags. *)

IsFlagOf(args, j) == Kind[args[j]] \in {"-o", "skip"}

(* An argument is a value if the one before it takes one and is none itself. *)
LEMMA Values ==
    ASSUME NEW args \in Seq(Words)
    PROVE  \A j \in 1..Len(args) :
              IsValue(args)[j] = (j > 1 /\ IsFlagOf(args, j - 1) /\ ~IsValue(args)[j - 1])
<1> DEFINE n == Len(args)
           step == [k \in 1..n |-> [v \in BOOLEAN |-> k > 1 /\ IsFlagOf(args, k - 1) /\ ~v]]
           c == FALSE
<1>0. n \in Nat /\ c \in BOOLEAN
  OBVIOUS
<1>1. step \in [1..n -> [BOOLEAN -> BOOLEAN]]
  OBVIOUS
<1>2. PICK h \in [0..n -> BOOLEAN] : \A k \in 1..n : h[k] = step[k][h[k - 1]]
  <2> DEFINE V == BOOLEAN
  <2>1. c \in V /\ step \in [1..n -> [V -> V]]
    BY <1>0, <1>1
  <2> HIDE DEF step, n, c, V
  <2>2. Iterated(n, V, c, step)
    BY <1>0, <2>1, Recursion
  <2> QED
    BY <2>2 DEF V, Iterated
<1>3. ASSUME NEW k \in 1..n
      PROVE  h[k] = (k > 1 /\ IsFlagOf(args, k - 1) /\ ~h[k - 1])
  <2>1. h[k - 1] \in BOOLEAN
    <3>1. k - 1 \in 0..n
      BY <1>0
    <3> QED
      BY <3>1
  <2>2. PICK b \in BOOLEAN : b = h[k - 1]
    BY <2>1
  <2>3. h[k] = step[k][b]
    BY <1>2, <2>2
  <2>4. step[k][b] = (k > 1 /\ IsFlagOf(args, k - 1) /\ ~b)
    OBVIOUS
  <2> QED
    BY <2>2, <2>3, <2>4, Zenon
<1> DEFINE Is(x) == x = [j \in 1..Len(args) |->
                            j > 1 /\ Kind[args[j - 1]] \in {"-o", "skip"} /\ ~x[j - 1]]
           y == [j \in 1..n |-> h[j]]
           value == CHOOSE x : x = [j \in 1..Len(args) |->
                            j > 1 /\ Kind[args[j - 1]] \in {"-o", "skip"} /\ ~x[j - 1]]
<1> HIDE DEF step
<1>4. Is(y)
  <2>1. \A j \in 1..n : j > 1 => j - 1 \in 1..n
    BY <1>0
  <2>2. \A j \in 1..n : j > 1 => y[j - 1] = h[j - 1]
    BY <2>1, Zenon
  <2>3. \A j \in 1..n : h[j] = (j > 1 /\ Kind[args[j - 1]] \in {"-o", "skip"} /\ ~y[j - 1])
    BY <1>3, <2>2, Zenon DEF IsFlagOf
  <2> QED
    BY <2>3, Zenon
<1> HIDE DEF y
<1>5. Is(value)
  BY <1>4, Zenon
<1>6. IsValue(args) = value
  BY Zenon DEF IsValue
<1> HIDE DEF value
<1> QED
  BY <1>5, <1>6, Zenon DEF IsFlagOf

-----------------------------------------------------------------------------
(* The text. *)

(* f[k] is the first k pieces of g, put together. *)
Joined(n, L, g, f) ==
    /\ n \in Nat /\ g \in [1..n -> Seq(L)] /\ f \in [0..n -> Seq(L)]
    /\ f[0] = <<>> /\ \A k \in 1..n : f[k] = f[k - 1] \o g[k]
IsJoined(n, L, g, whole) == \E f : Joined(n, L, g, f) /\ whole = f[n]

LEMMA FlattenRounds ==
    ASSUME NEW n \in Nat, NEW L, NEW g \in [1..n -> Seq(L)]
    PROVE  IsJoined(n, L, g, FlattenSeq(g))
<1> DEFINE V == Seq(L)
           c == <<>>
           step == [k \in 1..n |-> [v \in V |-> v \o g[k]]]
<1>0. c \in V /\ g \in Seq(V) /\ Len(g) = n
  BY SeqDef
<1>1. step \in [1..n -> [V -> V]]
  OBVIOUS
<1>2. PICK f \in [0..n -> V] : f[0] = c /\ \A k \in 1..n : f[k] = step[k][f[k - 1]]
  <2>1. c \in V
    BY <1>0
  <2> HIDE DEF step, V, c
  <2>2. Iterated(n, V, c, step)
    BY <1>1, <2>1, Recursion
  <2> QED
    BY <2>2 DEF Iterated
<1>3. ASSUME NEW k \in 1..n
      PROVE  f[k] = f[k - 1] \o g[k]
  <2>1. f[k - 1] \in V
    <3>1. k - 1 \in 0..n
      OBVIOUS
    <3> HIDE DEF V
    <3> QED
      BY <3>1
  <2> QED
    BY <1>2, <2>1
<1>4. FlattenSeq(g) = f[n]
  <2>1. CASE n = 0
    <3>1. g = <<>>
      BY <1>0, <2>1, EmptySeq
    <3> QED
      BY <1>0, <1>2, <2>1, <3>1 DEF FlattenSeq
  <2>2. CASE n # 0
    <3> DEFINE Is(x) == x = [k \in 1..Len(g) |-> IF k = 1 THEN g[k] ELSE x[k - 1] \o g[k]]
               y == [k \in 1..n |-> f[k]]
               flatten == CHOOSE x : x = [k \in 1..Len(g) |-> IF k = 1 THEN g[k] ELSE x[k - 1] \o g[k]]
    <3>1. Is(y)
      <4>1. \A k \in 1..n : k # 1 => k - 1 \in 1..n /\ y[k - 1] = f[k - 1]
        OBVIOUS
      <4>2. ASSUME NEW k \in 1..n, k = 1
            PROVE  f[k] = g[k]
        <5>0. k - 1 = 0 /\ f[0] = <<>>
          BY <1>2, <4>2
        <5>1. f[k] = <<>> \o g[k]
          BY <1>3, <5>0, Zenon
        <5>2. g[k] \in Seq(L)
          OBVIOUS
        <5> QED
          BY <5>1, <5>2
      <4> HIDE DEF y
      <4>3. \A k \in 1..n : f[k] = IF k = 1 THEN g[k] ELSE y[k - 1] \o g[k]
        BY <1>3, <4>1, <4>2
      <4> QED
        BY <1>0, <4>3, Zenon DEF y
    <3>2. Is(flatten)
      BY <3>1, Zenon
    <3>3. FlattenSeq(g) = flatten[Len(g)]
      <4>1. Len(g) # 0
        BY <1>0, <2>2
      <4> QED
        BY <4>1, Zenon DEF FlattenSeq
    <3>4. \A k \in 1..n : flatten[k] = IF k = 1 THEN g[k] ELSE flatten[k - 1] \o g[k]
      BY <1>0, <3>2, Zenon
    <3> HIDE DEF flatten, Is, y, step
    <3> DEFINE U == {j \in 0..n : j # 0 => flatten[j] = f[j]}
    <3>5. 0 \in U
      OBVIOUS
    <3>6. ASSUME NEW j \in 0..n-1, j \in U
          PROVE  j + 1 \in U
      <4>1. j + 1 \in 1..n /\ j + 1 \in 0..n /\ j + 1 - 1 = j
        OBVIOUS
      <4>2. CASE j = 0
        <5>1. j + 1 = 1 /\ f[0] = <<>>
          BY <1>2, <4>2
        <5>2. 1 \in 1..n /\ 1 - 1 = 0
          BY <4>1, <5>1
        <5>3. f[1] = f[0] \o g[1]
          BY <1>3, <5>2, Zenon
        <5>4. g[1] \in Seq(L)
          BY <5>2
        <5>5. f[1] = g[1] /\ flatten[1] = g[1]
          BY <3>4, <5>1, <5>2, <5>3, <5>4
        <5> QED
          BY <4>1, <5>1, <5>5
      <4>3. CASE j # 0
        <5>1. PICK k \in 1..n : k = j + 1 /\ k - 1 = j /\ k # 1
          BY <4>1, <4>3
        <5>2. flatten[k] = flatten[k - 1] \o g[k]
          BY <3>4, <5>1, Zenon
        <5>3. f[k] = f[k - 1] \o g[k]
          BY <1>3, Zenon
        <5>4. flatten[j] = f[j]
          BY <3>6, <4>3
        <5>5. flatten[k] = f[k]
          BY <5>1, <5>2, <5>3, <5>4, Zenon
        <5> QED
          BY <4>1, <5>1, <5>5
      <4> QED
        BY <4>2, <4>3
    <3>7. n \in U
      <4> HIDE DEF U
      <4> QED
        BY <3>5, <3>6, Climb
    <3> QED
      BY <1>0, <2>2, <3>3, <3>7
  <2> QED
    BY <2>1, <2>2
<1> HIDE DEF step
<1> QED
  BY <1>2, <1>3, <1>4 DEF IsJoined, Joined

(* Where the elements of the second of two sequences come to be. *)
LEMMA Behind ==
    ASSUME NEW L, NEW s \in Seq(L), NEW t \in Seq(L), NEW j \in 1..Len(t)
    PROVE  Len(s) + j \in 1..Len(s \o t) /\ (s \o t)[Len(s) + j] = t[j]
OBVIOUS

(* Every piece is where it was put. *)
Placed(n, g, f) ==
    \A b \in 1..n : \A j \in 1..Len(g[b]) : f[n][Len(f[b - 1]) + j] = g[b][j]

LEMMA PieceIsThere ==
    ASSUME NEW n, NEW L, NEW g, NEW f, Joined(n, L, g, f)
    PROVE  Placed(n, g, f)
<1> SUFFICES ASSUME NEW b \in 1..n, NEW j \in 1..Len(g[b])
             PROVE  f[n][Len(f[b - 1]) + j] = g[b][j]
  BY DEF Placed
<1> USE DEF Joined
<1> DEFINE x == Len(f[b - 1]) + j
           There(m) == x \in 1..Len(f[m]) /\ f[m][x] = g[b][j]
           U == {m \in 0..n-b : There(b + m)}
<1>0. ASSUME NEW k \in 1..n
      PROVE  /\ f[k - 1] \in Seq(L) /\ f[k] \in Seq(L) /\ g[k] \in Seq(L)
             /\ f[k] = f[k - 1] \o g[k]
  <2>1. k - 1 \in 0..n /\ k \in 0..n
    OBVIOUS
  <2>2. f[k - 1] \in Seq(L) /\ f[k] \in Seq(L)
    BY <2>1 DEF Joined
  <2>3. g[k] \in Seq(L)
    OBVIOUS
  <2>4. f[k] = f[k - 1] \o g[k]
    BY Zenon DEF Joined
  <2> QED
    BY <2>2, <2>3, <2>4
<1>2. 0 \in U
  <2>1. There(b)
    <3>1. PICK s \in Seq(L), t \in Seq(L) : s = f[b - 1] /\ t = g[b] /\ f[b] = s \o t
      BY <1>0
    <3>2. j \in 1..Len(t) /\ x = Len(s) + j
      BY <3>1
    <3>3. Len(s) + j \in 1..Len(s \o t) /\ (s \o t)[Len(s) + j] = t[j]
      BY <3>2, Behind
    <3> HIDE DEF x
    <3> QED
      BY <3>1, <3>2, <3>3, Zenon
  <2>2. b + 0 = b /\ 0 \in 0..n-b
    OBVIOUS
  <2> HIDE DEF There
  <2> QED
    BY <2>1, <2>2
<1>3. ASSUME NEW m \in 0..n-b-1, m \in U
      PROVE  m + 1 \in U
  <2>1. /\ b + m \in 0..n /\ b + (m + 1) \in 1..n /\ b + (m + 1) - 1 = b + m
        /\ m + 1 \in 0..n-b
    OBVIOUS
  <2>2. PICK k \in 1..n : k = b + (m + 1) /\ k - 1 = b + m
    BY <2>1
  <2>3. There(k - 1)
    BY <1>3, <2>2
  <2>4. There(k)
    <3>1. PICK s \in Seq(L), t \in Seq(L) : s = f[k - 1] /\ t = g[k] /\ f[k] = s \o t
      BY <1>0
    <3>2. x \in 1..Len(s) /\ s[x] = g[b][j]
      BY <2>3, <3>1
    <3>3. Len(s \o t) = Len(s) + Len(t) /\ (s \o t)[x] = s[x]
      BY <3>2
    <3> HIDE DEF x
    <3> QED
      BY <3>1, <3>2, <3>3
  <2> HIDE DEF There
  <2> QED
    BY <2>1, <2>2, <2>4
<1>4. n - b \in Nat /\ b + (n - b) = n
  OBVIOUS
<1>5. n - b \in U
  <2> HIDE DEF U
  <2>1. PICK d \in Nat : d = n - b
    BY <1>4
  <2>2. \A m \in 0..d-1 : m \in U => m + 1 \in U
    BY <1>3, <2>1
  <2>3. d \in U
    BY <1>2, <2>2, Climb
  <2> QED
    BY <2>1, <2>3
<1> QED
  BY <1>4, <1>5

(* How the text is made of the blocks, which are in some order: the b-th   *)
(* begins after the place off[b - 1].                                      *)
Shape(order, off) ==
    LET n == Cardinality(DOMAIN trace) IN
    /\ trace \in Traces /\ n \in Nat /\ n <= Cardinality(Pids)
    /\ order \in [1..n -> DOMAIN trace]
    /\ \A b, c \in 1..n : b # c => order[b] # order[c]
    /\ \A p \in DOMAIN trace : \E b \in 1..n : order[b] = p
    /\ off \in [0..n -> Nat] /\ off[0] = 0 /\ Len(text) = off[n]
    /\ \A b \in 1..n :
          /\ off[b] = off[b - 1] + 1 + Len(trace[order[b]])
          /\ text[off[b - 1] + 1] = Header(order[b])
          /\ \A k \in 1..Len(trace[order[b]]) :
                text[off[b - 1] + 1 + k] = ExecLine(trace[order[b]][k])

(* What a process executed. *)
LEMMA Executed ==
    ASSUME NEW t \in Traces, NEW p \in DOMAIN t
    PROVE  /\ p \in Pids /\ p \in Nat
           /\ t[p] \in Seq(ToSet(t[p])) /\ Len(t[p]) \in 1..MaxExecs /\ Len(t[p]) \in Nat
           /\ \A k \in 1..Len(t[p]) : t[p][k] \in ToSet(t[p]) /\ t[p][k].args \in Seq(Words)
<1>1. p \in Pids /\ p \in Nat /\ t[p] \in Seq(ToSet(t[p])) /\ Len(t[p]) \in 1..MaxExecs
  BY ParsingAssumption
<1>2. \A k \in 1..Len(t[p]) : t[p][k] \in ToSet(t[p])
  BY <1>1
<1>3. \A c \in ToSet(t[p]) : c.args \in Seq(Words)
  BY ParsingAssumption
<1>4. Len(t[p]) \in Nat
  BY <1>1
<1> QED
  BY <1>1, <1>2, <1>3, <1>4

(* A block is a header and a line per command. *)
LEMMA BlockLines ==
    ASSUME trace \in Traces, NEW p \in DOMAIN trace
    PROVE  \E L : /\ Block(p) \in Seq(L) /\ Len(Block(p)) = 1 + Len(trace[p])
                  /\ Block(p)[1] = Header(p)
                  /\ \A k \in 1..Len(trace[p]) : Block(p)[1 + k] = ExecLine(trace[p][k])
<1> DEFINE n == Len(trace[p])
           g == [k \in 1..n |-> ExecLine(trace[p][k])]
           h == Header(p)
           L == {h} \cup {g[k] : k \in 1..n}
<1>1. n \in Nat
  BY Executed
<1>2. g \in Seq(L) /\ Len(g) = n
  <2>1. g \in [1..n -> L]
    OBVIOUS
  <2>2. DOMAIN g = 1..n
    OBVIOUS
  <2> HIDE DEF g, L, n
  <2>3. g \in Seq(L)
    BY <1>1, <2>1, SeqDef
  <2> QED
    BY <1>1, <2>2, <2>3
<1>3. h \in L
  OBVIOUS
<1>4. Block(p) = <<h>> \o g
  BY DEF Block
<1>5. \A k \in 1..n : g[k] = ExecLine(trace[p][k])
  OBVIOUS
<1> HIDE DEF g, L, h
<1>6. /\ <<h>> \o g \in Seq(L) /\ Len(<<h>> \o g) = 1 + n
      /\ (<<h>> \o g)[1] = h
      /\ \A k \in 1..n : (<<h>> \o g)[1 + k] = g[k]
  BY <1>2, <1>3
<1> QED
  BY <1>4, <1>5, <1>6 DEF h

LEMMA InitShape == Init => \E order, off : Shape(order, off)
<1> SUFFICES ASSUME Init
             PROVE  \E order, off : Shape(order, off)
  OBVIOUS
<1> DEFINE D == DOMAIN trace
           n == Cardinality(D)
<1>1. trace \in Traces /\ D \subseteq Pids /\ IsFiniteSet(D) /\ n \in Nat /\ n <= Cardinality(Pids)
  <2>1. trace \in Traces /\ D \subseteq Pids /\ IsFiniteSet(Pids)
    BY ParsingAssumption DEF Init
  <2> HIDE DEF D
  <2> QED
    BY <2>1, FS_Subset, FS_CardinalityType
<1>2. PICK order \in SetToSeqs(D) : text = FlattenSeq([k \in DOMAIN order |-> Block(order[k])])
  BY DEF Init
<1>3. order \in [1..n -> D] /\ \A b, c \in 1..n : b # c => order[b] # order[c]
  BY DEF SetToSeqs
<1>4. \A p \in D : \E b \in 1..n : order[b] = p
  <2>1. order \in Injection(1..n, D)
    BY <1>3 DEF Injection, IsInjective
  <2>2. IsFiniteSet(1..n) /\ Cardinality(1..n) = n
    BY <1>1, FS_Interval
  <2>3. order \in Surjection(1..n, D)
    <3> HIDE DEF D
    <3> QED
      BY <1>1, <2>1, <2>2, FS_Injection
  <2> QED
    BY <2>3 DEF Surjection
<1> DEFINE g == [k \in 1..n |-> Block(order[k])]
           L == UNION {{Block(p)[j] : j \in 1..Len(Block(p))} : p \in D}
<1>5. ASSUME NEW b \in 1..n
      PROVE  /\ g[b] \in Seq(L) /\ Len(g[b]) = 1 + Len(trace[order[b]])
             /\ Len(trace[order[b]]) \in Nat
             /\ g[b][1] = Header(order[b])
             /\ \A k \in 1..Len(trace[order[b]]) : g[b][1 + k] = ExecLine(trace[order[b]][k])
  <2>1. order[b] \in D
    BY <1>3
  <2> DEFINE p == order[b]
  <2>2. PICK K : /\ Block(p) \in Seq(K) /\ Len(Block(p)) = 1 + Len(trace[p])
                 /\ Block(p)[1] = Header(p)
                 /\ \A k \in 1..Len(trace[p]) : Block(p)[1 + k] = ExecLine(trace[p][k])
    BY <1>1, <2>1, BlockLines
  <2>3. \A j \in 1..Len(Block(p)) : Block(p)[j] \in L
    BY <2>1
  <2>4. Block(p) \in Seq(L)
    <3> HIDE DEF L, p
    <3> QED
      BY <2>2, <2>3
  <2>5. g[b] = Block(p) /\ Len(trace[p]) \in Nat
    BY <1>1, <2>1, Executed
  <2> HIDE DEF g, L
  <2> QED
    BY <2>2, <2>4, <2>5
<1>6. text = FlattenSeq(g) /\ DOMAIN g = 1..n
  <2>1. DOMAIN order = 1..n
    BY <1>3
  <2> QED
    BY <1>2, <2>1
<1>7. g \in [1..n -> Seq(L)]
  <2>1. g = [k \in 1..n |-> g[k]]
    OBVIOUS
  <2> HIDE DEF g, L, n
  <2> QED
    BY <1>5, <2>1
<1> HIDE DEF g, L, n, D
<1>8. PICK f : Joined(n, L, g, f) /\ FlattenSeq(g) = f[n]
  <2>1. IsJoined(n, L, g, FlattenSeq(g))
    BY <1>1, <1>7, FlattenRounds
  <2> QED
    BY <2>1, Zenon DEF IsJoined
<1>80. f \in [0..n -> Seq(L)] /\ f[0] = <<>> /\ \A k \in 1..n : f[k] = f[k - 1] \o g[k]
  BY <1>8, Zenon DEF Joined
<1> DEFINE off == [k \in 0..n |-> Len(f[k])]
<1>9. off \in [0..n -> Nat] /\ \A k \in 0..n : off[k] = Len(f[k])
  <2>1. \A k \in 0..n : Len(f[k]) \in Nat
    BY <1>80
  <2> QED
    BY <2>1
<1> HIDE DEF off
<1>10. off[0] = 0 /\ Len(text) = off[n]
  <2>1. 0 \in 0..n /\ n \in 0..n
    BY <1>1
  <2> QED
    BY <1>6, <1>8, <1>80, <1>9, <2>1
<1>11. ASSUME NEW b \in 1..n
       PROVE  /\ off[b] = off[b - 1] + 1 + Len(trace[order[b]])
              /\ \A j \in 1..Len(g[b]) : text[off[b - 1] + j] = g[b][j]
  <2>1. b \in 0..n /\ b - 1 \in 0..n
    BY <1>1
  <2>2. PICK s \in Seq(L), t \in Seq(L) : s = f[b - 1] /\ t = g[b]
    BY <1>5, <1>80, <2>1
  <2>3. f[b] = s \o t
    BY <1>80, <2>2, Zenon
  <2>4. Len(s \o t) = Len(s) + Len(t) /\ Len(s) \in Nat
    OBVIOUS
  <2>5. off[b] = off[b - 1] + Len(g[b]) /\ off[b - 1] \in Nat
    BY <1>9, <2>1, <2>2, <2>3, <2>4
  <2>6. ASSUME NEW j \in 1..Len(g[b])
        PROVE  f[n][Len(f[b - 1]) + j] = g[b][j]
    <3>1. Placed(n, g, f)
      BY <1>8, PieceIsThere
    <3> QED
      BY <3>1 DEF Placed
  <2>7. text = f[n] /\ off[b - 1] = Len(f[b - 1])
    BY <1>6, <1>8, <1>9, <2>1
  <2>8. off[b] = off[b - 1] + 1 + Len(trace[order[b]])
    <3>1. PICK m \in Nat, o \in Nat : m = Len(trace[order[b]]) /\ o = off[b - 1]
      BY <1>5, <2>5
    <3>2. Len(g[b]) = 1 + m
      BY <1>5, <3>1
    <3>3. off[b] = o + (1 + m)
      BY <2>5, <3>1, <3>2
    <3>4. o + (1 + m) = o + 1 + m
      OBVIOUS
    <3> QED
      BY <3>1, <3>3, <3>4
  <2> QED
    BY <2>6, <2>7, <2>8
<1>12. ASSUME NEW b \in 1..n
       PROVE  /\ text[off[b - 1] + 1] = Header(order[b])
              /\ \A k \in 1..Len(trace[order[b]]) :
                    text[off[b - 1] + 1 + k] = ExecLine(trace[order[b]][k])
  <2>1. b - 1 \in 0..n /\ off[b - 1] \in Nat
    BY <1>1, <1>9
  <2>0. PICK m \in Nat, o \in Nat : m = Len(trace[order[b]]) /\ o = off[b - 1]
    BY <1>5, <2>1
  <2>2. text[off[b - 1] + 1] = g[b][1]
    <3>1. Len(g[b]) = 1 + m
      BY <1>5, <2>0
    <3>2. 1 \in 1..Len(g[b])
      BY <3>1
    <3> QED
      BY <1>11, <3>2
  <2>3. ASSUME NEW k \in 1..Len(trace[order[b]])
        PROVE  text[off[b - 1] + 1 + k] = ExecLine(trace[order[b]][k])
    <3>1. 1 + k \in 1..Len(g[b]) /\ off[b - 1] + (1 + k) = off[b - 1] + 1 + k
      <4>1. Len(g[b]) = 1 + m
        BY <1>5, <2>0
      <4> QED
        BY <2>0, <4>1
    <3>2. text[off[b - 1] + (1 + k)] = g[b][1 + k]
      BY <1>11, <3>1
    <3>3. g[b][1 + k] = ExecLine(trace[order[b]][k])
      BY <1>5
    <3> QED
      BY <3>1, <3>2, <3>3
  <2> QED
    BY <1>5, <2>2, <2>3
<1>13. Shape(order, off)
  BY <1>1, <1>3, <1>4, <1>9, <1>10, <1>11, <1>12 DEF Shape, n, D
<1> QED
  BY <1>13

-----------------------------------------------------------------------------
(* The loops over the arguments of a command. *)

ValuePlaces(args) == {j \in 1..Len(args) : IsValue(args)[j]}

LEMMA ValuePlace ==
    ASSUME NEW args \in Seq(Words), NEW j \in 1..Len(args)
    PROVE  j \in ValuePlaces(args) <=> (j > 1 /\ IsFlagOf(args, j - 1) /\ j - 1 \notin ValuePlaces(args))
<1>1. IsValue(args)[j] = (j > 1 /\ IsFlagOf(args, j - 1) /\ ~IsValue(args)[j - 1])
  BY Values
<1>2. j > 1 => j - 1 \in 1..Len(args)
  OBVIOUS
<1> QED
  BY <1>1, <1>2, Zenon DEF ValuePlaces

(* The places of what a compiler is told to make, and of what it reads. *)
NamedPlaces(args) ==
    {j \in 2..Len(args) : j \in ValuePlaces(args) /\ Kind[args[j - 1]] = "-o"}
ReadPlaces(args) ==
    {j \in 1..Len(args) :
        j \notin ValuePlaces(args) /\ Kind[args[j]] \in {"source", "object", "archive", "shared"}}
MemberPlaces(args) == {j \in 3..Len(args) : IsInput(args[j])}

(* The words at some places, as far as they have been read. *)
Below(args, places, m) == {args[j] : j \in {k \in places : k < m}}

(* What the loop for compilers knows. *)
CompilerLoop(args) ==
    /\ next_is_output <=> (arg > 1 /\ Kind[args[arg - 1]] = "-o" /\ arg - 1 \notin ValuePlaces(args))
    /\ next_is_skip <=> (arg > 1 /\ Kind[args[arg - 1]] = "skip" /\ arg - 1 \notin ValuePlaces(args))
    /\ ToSet(edge.inputs) = Below(args, ReadPlaces(args), arg)
    /\ \/ edge.output = NoOutput /\ \A k \in NamedPlaces(args) : k >= arg
       \/ \E j \in NamedPlaces(args) :
             j < arg /\ edge.output = args[j] /\ \A k \in NamedPlaces(args) : k < arg => k <= j

ArLoop(args) ==
    /\ edge.output = IF arg > 2 THEN args[2] ELSE NoOutput
    /\ ToSet(edge.inputs) = Below(args, MemberPlaces(args), arg)

Loop(tool, args) ==
    /\ tool = "ar" => ArLoop(args)
    /\ tool = "ranlib" => edge.output = NoOutput
    /\ tool \notin {"ar", "ranlib"} => CompilerLoop(args)

(* The command c is being read. *)
ReadingOf(c) ==
    /\ c.args \in Seq(Words) /\ c.program \in Programs /\ IsBuildTool(c.program)
    /\ edge \in [command : {NormalizeTool(c.program)}, pid : {current_pid}, args : {c.args},
                 inputs : Seq(Words), output : Words \cup {NoOutput}]
    /\ arg \in 1..Len(c.args)+1
    /\ Loop(NormalizeTool(c.program), c.args)

ArConvention(c) ==
    NormalizeTool(c.program) = "ar" =>
        /\ Len(c.args) >= 2
        /\ HasDash(c.args[1]) \/ Kind[c.args[1]] = "bare"
        /\ ~HasDash(c.args[2]) /\ Kind[c.args[2]] # "bare"

LEMMA NoToolHasNoName == "" \notin ToSet(BuildTools)
<1>1. DOMAIN BuildTools = 1..15
  BY DEF BuildTools
<1>2. \A k \in 1..15 : BuildTools[k] # ""
  <2>1. /\ BuildTools[1] # ""
        /\ BuildTools[2] # ""
        /\ BuildTools[3] # ""
        /\ BuildTools[4] # ""
        /\ BuildTools[5] # ""
        /\ BuildTools[6] # ""
        /\ BuildTools[7] # ""
        /\ BuildTools[8] # ""
        /\ BuildTools[9] # ""
        /\ BuildTools[10] # ""
        /\ BuildTools[11] # ""
        /\ BuildTools[12] # ""
        /\ BuildTools[13] # ""
        /\ BuildTools[14] # ""
        /\ BuildTools[15] # ""
    BY DEF BuildTools
  <2>2. \A k \in 1..15 : k \in {1, 2, 3, 4, 5, 6, 7, 8, 9, 10, 11, 12, 13, 14, 15}
    OBVIOUS
  <2> QED
    BY <2>1, <2>2
<1> QED
  BY <1>1, <1>2 DEF ToSet

LEMMA NoEdgeIsNone ==
    ASSUME NEW c, ReadingOf(c)
    PROVE  edge # NoEdge
<1>1. edge.command = NormalizeTool(c.program) /\ NormalizeTool(c.program) # ""
  BY NoToolHasNoName DEF ReadingOf, IsBuildTool
<1>2. NoEdge.command = ""
  BY DEF NoEdge
<1> QED
  BY <1>1, <1>2

LEMMA ToSetAppend ==
    ASSUME NEW S, NEW s \in Seq(S), NEW x \in S
    PROVE  Append(s, x) \in Seq(S) /\ ToSet(Append(s, x)) = ToSet(s) \cup {x}
<1>1. /\ Append(s, x) \in Seq(S) /\ Len(Append(s, x)) = Len(s) + 1 /\ Append(s, x)[Len(s) + 1] = x
      /\ \A k \in 1..Len(s) : Append(s, x)[k] = s[k]
      /\ DOMAIN s = 1..Len(s) /\ DOMAIN Append(s, x) = 1..Len(s)+1 /\ Len(s) \in Nat
  OBVIOUS
<1> DEFINE t == Append(s, x)
           n == Len(s)
<1> HIDE DEF t, n
<1>2. /\ n \in Nat /\ t[n + 1] = x /\ \A k \in 1..n : t[k] = s[k]
      /\ DOMAIN s = 1..n /\ DOMAIN t = 1..n+1
  BY <1>1 DEF t, n
<1>3. \A k \in 1..n+1 : k \in 1..n \/ k = n + 1
  BY <1>2
<1>4. {t[k] : k \in DOMAIN t} = {s[k] : k \in DOMAIN s} \cup {x}
  <2>1. n + 1 \in 1..n+1 /\ \A k \in 1..n : k \in 1..n+1
    BY <1>2
  <2> QED
    BY <1>2, <1>3, <2>1
<1> QED
  BY <1>1, <1>4 DEF ToSet, t

(* The next word at one of the places, or not. *)
LEMMA BelowNext ==
    ASSUME NEW args, NEW places, places \subseteq Nat, NEW m \in Nat
    PROVE  /\ m \in places => Below(args, places, m + 1) = Below(args, places, m) \cup {args[m]}
           /\ m \notin places => Below(args, places, m + 1) = Below(args, places, m)
<1>1. \A k \in places : k < m + 1 <=> k < m \/ k = m
  <2>1. \A k \in Nat : k < m + 1 <=> k < m \/ k = m
    OBVIOUS
  <2> QED
    BY <2>1
<1> QED
  BY <1>1 DEF Below

(* What every round of a loop has in common. *)
LEMMA Round ==
    ASSUME NEW c, ReadingOf(c), InArgs
    PROVE  /\ arg \in 1..Len(c.args) /\ arg \in Nat /\ Len(c.args) \in Nat
           /\ Arg = c.args[arg] /\ Arg \in Words /\ Kind[Arg] \in Kinds
           /\ edge.command = NormalizeTool(c.program)
           /\ edge.inputs \in Seq(Words) /\ edge.args = c.args
<1>1. edge.args = c.args /\ arg <= Len(edge.args)
  BY DEF ReadingOf, InArgs
<1>2. arg \in 1..Len(c.args) /\ arg \in Nat /\ Len(c.args) \in Nat
  BY <1>1 DEF ReadingOf
<1>3. Arg = c.args[arg] /\ Arg \in Words
  BY <1>1, <1>2 DEF Arg, ReadingOf
<1> QED
  BY <1>1, <1>2, <1>3, ParsingAssumption DEF ReadingOf

(* What a round does to the edge does not change whose it is. *)
LEMMA RoundKeeps ==
    ASSUME NEW c, ReadingOf(c), InArgs, current_pid' = current_pid,
           Pass \/ Output(Arg) \/ Input(Arg),
           arg' \in 1..Len(c.args)+1,
           Loop(NormalizeTool(c.program), c.args)'
    PROVE  ReadingOf(c)'
<1>1. edge' \in [command : {NormalizeTool(c.program)}, pid : {current_pid}, args : {c.args},
                 inputs : Seq(Words), output : Words \cup {NoOutput}]
  <2>1. Append(edge.inputs, Arg) \in Seq(Words)
    BY Round
  <2> QED
    BY <2>1, Round DEF ReadingOf, Pass, Output, Input
<1> QED
  BY <1>1 DEF ReadingOf

LEMMA RoundInputs ==
    ASSUME NEW c, ReadingOf(c), InArgs
    PROVE  /\ Pass => edge'.inputs = edge.inputs /\ edge'.output = edge.output
           /\ Output(Arg) => edge'.inputs = edge.inputs /\ edge'.output = Arg
           /\ Input(Arg) => /\ ToSet(edge'.inputs) = ToSet(edge.inputs) \cup {Arg}
                            /\ edge'.output = edge.output
<1>1. ToSet(Append(edge.inputs, Arg)) = ToSet(edge.inputs) \cup {Arg}
  BY Round, ToSetAppend
<1> QED
  BY <1>1 DEF ReadingOf, Pass, Output, Input

LEMMA ArRound ==
    ASSUME NEW c, ReadingOf(c), ArConvention(c), ArArg
    PROVE  ReadingOf(c)'
<1> DEFINE args == c.args
<1>0. InArgs /\ NormalizeTool(c.program) = "ar" /\ arg' = arg + 1 /\ current_pid' = current_pid
  BY Round DEF ArArg
<1>1. /\ arg \in 1..Len(args) /\ arg \in Nat /\ Len(args) \in Nat
      /\ Arg = args[arg] /\ Arg \in Words /\ Kind[Arg] \in Kinds
  BY <1>0, Round
<1>2. ArLoop(args)
  BY <1>0 DEF ReadingOf, Loop
<1>3. /\ Len(args) >= 2 /\ args[2] \in Words
      /\ HasDash(args[1]) \/ Kind[args[1]] = "bare"
      /\ ~HasDash(args[2]) /\ Kind[args[2]] # "bare"
  BY <1>0 DEF ArConvention, ReadingOf
<1>4. edge.output # NoOutput <=> arg > 2
  BY <1>2, <1>3, ParsingAssumption DEF ArLoop
<1>5. /\ arg \in MemberPlaces(args) <=> (arg > 2 /\ IsInput(Arg))
      /\ MemberPlaces(args) \subseteq Nat
  BY <1>1 DEF MemberPlaces
<1>6. HasDash(Arg) => ~IsInput(Arg)
  BY <1>1 DEF HasDash, IsInput
<1>7. \/ arg = 2 /\ Output(Arg)
      \/ arg > 2 /\ IsInput(Arg) /\ Input(Arg)
      \/ arg # 2 /\ (arg > 2 => ~IsInput(Arg)) /\ Pass
  <2>1. CASE arg = 1
    BY <1>1, <1>3, <1>4, <2>1 DEF ArArg
  <2>2. CASE arg = 2
    BY <1>1, <1>3, <1>4, <2>2 DEF ArArg
  <2>3. CASE arg > 2
    BY <1>1, <1>4, <1>6, <2>3 DEF ArArg
  <2> QED
    BY <1>1, <2>1, <2>2, <2>3
<1>8. ArLoop(args)'
  <2>1. /\ arg \in MemberPlaces(args) => Below(args, MemberPlaces(args), arg + 1)
                                            = Below(args, MemberPlaces(args), arg) \cup {Arg}
        /\ arg \notin MemberPlaces(args) => Below(args, MemberPlaces(args), arg + 1)
                                            = Below(args, MemberPlaces(args), arg)
    BY <1>1, <1>5, BelowNext
  <2>2. ToSet(edge'.inputs) = Below(args, MemberPlaces(args), arg')
    <3>1. CASE arg = 2 /\ Output(Arg)
      BY <1>0, <1>2, <1>5, <2>1, <3>1, RoundInputs DEF ArLoop
    <3>2. CASE arg > 2 /\ IsInput(Arg) /\ Input(Arg)
      BY <1>0, <1>2, <1>5, <2>1, <3>2, RoundInputs DEF ArLoop
    <3>3. CASE arg # 2 /\ (arg > 2 => ~IsInput(Arg)) /\ Pass
      BY <1>0, <1>2, <1>5, <2>1, <3>3, RoundInputs DEF ArLoop
    <3> QED
      BY <1>7, <3>1, <3>2, <3>3
  <2>3. edge'.output = IF arg' > 2 THEN args[2] ELSE NoOutput
    BY <1>0, <1>1, <1>2, <1>7, RoundInputs DEF ArLoop
  <2> QED
    BY <2>2, <2>3 DEF ArLoop
<1> QED
  BY <1>0, <1>1, <1>7, <1>8, RoundKeeps DEF Loop

LEMMA RanlibRound ==
    ASSUME NEW c, ReadingOf(c), RanlibArg
    PROVE  ReadingOf(c)'
<1>0. InArgs /\ NormalizeTool(c.program) = "ranlib" /\ current_pid' = current_pid
  BY Round DEF RanlibArg
<1>1. Pass \/ Input(Arg)
  BY DEF RanlibArg
<1>2. arg' \in 1..Len(c.args)+1
  BY <1>0, Round DEF RanlibArg
<1>3. edge'.output = NoOutput
  BY <1>0, <1>1, RoundInputs DEF ReadingOf, Loop
<1> QED
  BY <1>0, <1>1, <1>2, <1>3, RoundKeeps DEF Loop

LEMMA CompilerRound ==
    ASSUME NEW c, ReadingOf(c), CompilerArg
    PROVE  ReadingOf(c)'
<1> DEFINE args == c.args
           VP == ValuePlaces(args)
           NP == NamedPlaces(args)
           RP == ReadPlaces(args)
<1>0. /\ InArgs /\ NormalizeTool(c.program) \notin {"ar", "ranlib"}
      /\ arg' = arg + 1 /\ current_pid' = current_pid
  BY Round DEF CompilerArg
<1>1. /\ arg \in 1..Len(args) /\ arg \in Nat /\ Len(args) \in Nat
      /\ Arg = args[arg] /\ Arg \in Words /\ Kind[Arg] \in Kinds
  BY <1>0, Round
<1>2. CompilerLoop(args)
  BY <1>0 DEF ReadingOf, Loop
<1>3. arg \in VP <=> (next_is_output \/ next_is_skip)
  <2>1. arg \in VP <=> (arg > 1 /\ IsFlagOf(args, arg - 1) /\ arg - 1 \notin VP)
    BY <1>1, ValuePlace DEF ReadingOf
  <2> QED
    BY <1>2, <2>1 DEF CompilerLoop, IsFlagOf
<1>4. arg \in NP <=> next_is_output
  <2>1. next_is_output => arg \in 2..Len(args)
    BY <1>1, <1>2 DEF CompilerLoop
  <2>2. arg \in NP <=> (arg \in 2..Len(args) /\ arg \in VP /\ Kind[args[arg - 1]] = "-o")
    BY DEF NamedPlaces
  <2> QED
    BY <1>2, <1>3, <2>1, <2>2 DEF CompilerLoop
<1>5. arg \in RP <=> (arg \notin VP /\ (IsInput(Arg) \/ IsShared(Arg)))
  BY <1>1 DEF ReadPlaces, IsInput, IsShared
<1>6. RP \subseteq Nat /\ NP \subseteq Nat
  BY DEF ReadPlaces, NamedPlaces
<1>7. /\ next_is_output /\ arg \in VP => Output(Arg)
      /\ arg \in VP /\ ~next_is_output => Pass
      /\ arg \notin VP /\ arg \in RP => Input(Arg)
      /\ arg \notin VP /\ arg \notin RP => Pass
  BY <1>1, <1>3, <1>5 DEF CompilerArg, IsInput, IsShared, TakesValue
<1>8. /\ next_is_output' <=> (Kind[Arg] = "-o" /\ arg \notin VP)
      /\ next_is_skip' <=> (Kind[Arg] = "skip" /\ arg \notin VP)
  BY <1>1, <1>2, <1>3 DEF CompilerArg, Stays, Flags, IsInput, IsShared, TakesValue, CompilerLoop
<1>9. ToSet(edge'.inputs) = Below(args, RP, arg + 1)
  <2>1. /\ arg \in RP => Below(args, RP, arg + 1) = Below(args, RP, arg) \cup {Arg}
        /\ arg \notin RP => Below(args, RP, arg + 1) = Below(args, RP, arg)
    BY <1>1, <1>6, BelowNext
  <2> QED
    BY <1>0, <1>2, <1>3, <1>5, <1>7, <2>1, RoundInputs DEF CompilerLoop
<1>10. edge'.output = IF arg \in NP THEN Arg ELSE edge.output
  BY <1>0, <1>3, <1>4, <1>7, RoundInputs
<1> HIDE DEF args, VP, NP, RP
<1>11. \/ edge'.output = NoOutput /\ \A k \in NP : k >= arg + 1
       \/ \E j \in NP :
             j < arg + 1 /\ edge'.output = args[j] /\ \A k \in NP : k < arg + 1 => k <= j
  <2>1. CASE arg \in NP
    BY <1>1, <1>6, <1>10, <2>1
  <2>2. CASE arg \notin NP
    <3>0. \A k \in NP : k \in Nat /\ k # arg
      BY <1>6, <2>2
    <3>1. \A k \in NP : k < arg + 1 <=> k < arg
      BY <1>1, <3>0
    <3>2. \A k \in NP : k >= arg + 1 <=> k >= arg
      BY <1>1, <3>0
    <3>3. edge'.output = edge.output
      BY <1>10, <2>2
    <3>4. \/ edge.output = NoOutput /\ \A k \in NP : k >= arg
          \/ \E j \in NP : j < arg /\ edge.output = args[j] /\ \A k \in NP : k < arg => k <= j
      BY <1>2 DEF CompilerLoop, args, NP
    <3> QED
      BY <3>1, <3>2, <3>3, <3>4
  <2> QED
    BY <2>1, <2>2
<1>12. CompilerLoop(args)'
  <2>1. arg' > 1 /\ arg' - 1 = arg
    BY <1>0, <1>1
  <2> QED
    BY <1>0, <1>1, <1>8, <1>9, <1>11, <2>1 DEF CompilerLoop, VP, NP, RP, args
<1> QED
  <2>1. Pass \/ Output(Arg) \/ Input(Arg)
    BY <1>3, <1>7
  <2>2. arg' \in 1..Len(c.args)+1
    BY <1>0, <1>1 DEF args
  <2> QED
    BY <1>0, <1>12, <2>1, <2>2, RoundKeeps DEF Loop, args

(* The edge a command leaves behind is the one its tool's conventions say. *)
LEMMA LoopEnds ==
    ASSUME NEW c, ReadingOf(c), ArConvention(c), ~InArgs
    PROVE  /\ Complete(edge) <=> BelongsInGraph(c)
           /\ Complete(edge) => AsSet(edge) = EdgeOf(c)
<1> DEFINE args == c.args
           tool == NormalizeTool(c.program)
           n == Len(args)
<1>1. n \in Nat /\ args \in Seq(Words) /\ edge.args = args /\ edge.inputs \in Seq(Words)
  BY DEF ReadingOf
<1>2. arg = n + 1
  <2>1. edge # NoEdge /\ arg \in 1..n+1
    BY NoEdgeIsNone DEF ReadingOf
  <2> QED
    BY <1>1, <2>1 DEF InArgs
<1>3. edge.command = tool /\ IsBuildTool(c.program)
  BY DEF ReadingOf
<1>4. ToSet(edge.inputs) = {} <=> edge.inputs = <<>>
  <2>1. ToSet(edge.inputs) = {edge.inputs[k] : k \in 1..Len(edge.inputs)}
    BY <1>1 DEF ToSet
  <2>2. CASE edge.inputs = <<>>
    BY <2>1, <2>2
  <2>3. CASE edge.inputs # <<>>
    <3>1. 1 \in 1..Len(edge.inputs)
      BY <1>1, <2>3, EmptySeq
    <3> QED
      BY <2>1, <2>3, <3>1
  <2> QED
    BY <2>2, <2>3
<1>5. /\ EdgeOf(c).command = tool /\ EdgeOf(c).inputs = Read(tool, args)
      /\ EdgeOf(c).output = Made(tool, args)
      /\ EdgeOf(c) = [command |-> tool, inputs |-> Read(tool, args), output |-> Made(tool, args)]
  BY DEF EdgeOf
<1>6. /\ tool # "ranlib" => Read(tool, args) = ToSet(edge.inputs)
      /\ Made(tool, args) = edge.output
  <2>1. CASE tool = "ar"
    <3>1. ArLoop(args)
      BY <2>1 DEF ReadingOf, Loop
    <3>2. n >= 2
      BY <2>1 DEF ArConvention
    <3>3. Read(tool, args) = {args[j] : j \in MemberPlaces(args)}
      BY <2>1 DEF Read, MemberPlaces
    <3>4. {j \in MemberPlaces(args) : j < arg} = MemberPlaces(args)
      BY <1>1, <1>2 DEF MemberPlaces
    <3>5. arg > 2
      BY <1>1, <1>2, <3>2
    <3> QED
      BY <2>1, <3>1, <3>3, <3>4, <3>5 DEF ArLoop, Below, Made
  <2>2. CASE tool = "ranlib"
    BY <2>2 DEF ReadingOf, Loop, Made
  <2>3. CASE tool \notin {"ar", "ranlib"}
    <3>1. CompilerLoop(args)
      BY <2>3 DEF ReadingOf, Loop
    <3>2. ReadPlaces(args) = {k \in 1..Len(args) :
                                /\ ~IsValue(args)[k]
                                /\ Kind[args[k]] \in {"source", "object", "archive", "shared"}}
      BY Zenon DEF ReadPlaces, ValuePlaces
    <3>3. Read(tool, args) = {args[j] : j \in ReadPlaces(args)}
      BY <2>3, <3>2, Zenon DEF Read
    <3>4. {j \in ReadPlaces(args) : j < arg} = ReadPlaces(args)
      BY <1>1, <1>2 DEF ReadPlaces
    <3>5. \A j \in 2..n : j \in 1..n
      BY <1>1
    <3>6. NamedPlaces(args) = {j \in 2..Len(args) : IsValue(args)[j] /\ Kind[args[j - 1]] = "-o"}
      BY <3>5, Zenon DEF NamedPlaces, ValuePlaces
    <3>7. Made(tool, args) = IF NamedPlaces(args) = {} THEN NoOutput
                             ELSE args[CHOOSE j \in NamedPlaces(args) :
                                           \A k \in NamedPlaces(args) : k <= j]
      <4> DEFINE named == {j \in 2..Len(args) : IsValue(args)[j] /\ Kind[args[j - 1]] = "-o"}
                 last(S) == CHOOSE j \in S : \A k \in S : k <= j
      <4>1. tool # "ar" /\ tool # "ranlib"
        BY <2>3
      <4>2. Made(tool, args) = IF tool = "ar" THEN args[2]
                               ELSE IF named = {} \/ tool = "ranlib" THEN NoOutput
                               ELSE args[last(named)]
        BY Zenon DEF Made
      <4>3. named = NamedPlaces(args)
        BY <3>6
      <4> HIDE DEF named, last
      <4>4. Made(tool, args) = IF NamedPlaces(args) = {} THEN NoOutput
                               ELSE args[last(NamedPlaces(args))]
        BY <4>1, <4>2, <4>3
      <4> QED
        BY <4>4 DEF last
    <3>8. \A j \in NamedPlaces(args) : j \in Nat /\ j < arg
      BY <1>1, <1>2 DEF NamedPlaces
    <3>9. Made(tool, args) = edge.output
      <4>1. CASE edge.output = NoOutput /\ \A k \in NamedPlaces(args) : k >= arg
        <5>1. NamedPlaces(args) = {}
          BY <1>1, <1>2, <3>8, <4>1
        <5> QED
          BY <3>7, <4>1, <5>1
      <4>2. CASE \E j \in NamedPlaces(args) :
                    j < arg /\ edge.output = args[j] /\ \A k \in NamedPlaces(args) : k < arg => k <= j
        <5>1. PICK j \in NamedPlaces(args) :
                    edge.output = args[j] /\ \A k \in NamedPlaces(args) : k <= j
          BY <3>8, <4>2
        <5> DEFINE last == CHOOSE m \in NamedPlaces(args) : \A k \in NamedPlaces(args) : k <= m
        <5>2. last \in NamedPlaces(args) /\ \A k \in NamedPlaces(args) : k <= last
          BY <5>1, Zenon
        <5> HIDE DEF last
        <5>3. last = j
          BY <3>8, <5>1, <5>2
        <5>4. Made(tool, args) = args[last]
          BY <3>7, <5>1 DEF last
        <5> QED
          BY <5>1, <5>3, <5>4
      <4> QED
        BY <3>1, <4>1, <4>2 DEF CompilerLoop
    <3> QED
      BY <3>1, <3>3, <3>4, <3>9 DEF CompilerLoop, Below
  <2> QED
    BY <2>1, <2>2, <2>3
<1>7. tool = "ranlib" => edge.output = NoOutput
  BY DEF ReadingOf, Loop
<1>8. CASE tool = "ranlib"
  BY <1>5, <1>6, <1>7, <1>8 DEF Complete, BelongsInGraph
<1>9. CASE tool # "ranlib"
  BY <1>3, <1>4, <1>5, <1>6, <1>9 DEF Complete, BelongsInGraph, AsSet
<1> QED
  BY <1>8, <1>9

-----------------------------------------------------------------------------
(* What has been read so far. *)

(* What the first m commands of p have done. *)
SoFar(p, m) ==
    LET s == SubSeq(trace[p], 1, m)
        those == Select(s, Those(s))
    IN  [k \in DOMAIN those |-> EdgeOf(those[k])]

LEMMA SoFarNothing == \A p : SoFar(p, 0) = <<>>
<1> SUFFICES ASSUME NEW p
             PROVE  SoFar(p, 0) = <<>>
  OBVIOUS
<1>1. SubSeq(trace[p], 1, 0) = <<>>
  BY DEF SubSeq
<1>2. SoFar(p, 0) = [k \in DOMAIN <<>> |-> EdgeOf(<<>>[k])]
  BY <1>1, SelectNone DEF SoFar
<1> QED
  BY <1>2

(* Of a sequence and its image. *)
LEMMA ImageAppend ==
    ASSUME NEW S, NEW s \in Seq(S), NEW x \in S, NEW T, NEW F \in [S -> T]
    PROVE  [k \in DOMAIN Append(s, x) |-> F[Append(s, x)[k]]]
              = Append([k \in DOMAIN s |-> F[s[k]]], F[x])
<1> DEFINE g == [k \in DOMAIN s |-> F[s[k]]]
           t == Append(s, x)
           n == Len(s)
<1>1. n \in Nat /\ DOMAIN s = 1..n /\ t \in Seq(S) /\ DOMAIN t = 1..n+1 /\ t[n + 1] = x
      /\ \A k \in 1..n : t[k] = s[k] /\ s[k] \in S
  OBVIOUS
<1>2. g \in Seq(T) /\ Len(g) = n /\ \A k \in 1..n : g[k] = F[s[k]]
  <2>1. g \in [1..n -> T] /\ DOMAIN g = 1..n
    BY <1>1
  <2>2. g \in Seq(T)
    BY <1>1, <2>1, SeqDef
  <2> HIDE DEF g
  <2>3. Len(g) = n
    BY <1>1, <2>1, <2>2
  <2> QED
    BY <1>1, <2>3 DEF g
<1>3. F[x] \in T
  OBVIOUS
<1> HIDE DEF g, n, t
<1> DEFINE a == Append(g, F[x])
           e == [k \in DOMAIN t |-> F[t[k]]]
<1>4. /\ a \in Seq(T) /\ Len(a) = n + 1 /\ a[n + 1] = F[x]
      /\ \A k \in 1..n : a[k] = g[k]
  BY <1>1, <1>2, <1>3
<1>5. DOMAIN a = 1..n+1 /\ a = [k \in DOMAIN a |-> a[k]]
  BY <1>1, <1>4
<1> HIDE DEF a
<1>6. \A k \in 1..n+1 : a[k] = F[t[k]]
  <2>1. \A k \in 1..n+1 : k \in 1..n \/ k = n + 1
    BY <1>1
  <2> QED
    BY <1>1, <1>2, <1>4, <2>1
<1>7. e = a
  BY <1>1, <1>5, <1>6
<1> QED
  BY <1>7 DEF a, g, t

(* The next command adds what it does, if it belongs in the graph. *)
LEMMA SoFarNext ==
    ASSUME trace \in Traces, NEW p \in DOMAIN trace, NEW k \in 1..Len(trace[p])
    PROVE  SoFar(p, k) = IF BelongsInGraph(trace[p][k])
                         THEN Append(SoFar(p, k - 1), EdgeOf(trace[p][k])) ELSE SoFar(p, k - 1)
<1> DEFINE t == trace[p]
           C == ToSet(t)
           s == SubSeq(t, 1, k - 1)
           r == SubSeq(t, 1, k)
           x == t[k]
           F == [c \in C |-> EdgeOf(c)]
           T == {EdgeOf(c) : c \in C}
<1>1. t \in Seq(C) /\ Len(t) \in Nat
  BY Executed
<1>2. x \in C
  BY Executed
<1> HIDE DEF C, x
<1>3. s \in Seq(C) /\ Len(s) = k - 1 /\ r = Append(s, t[k])
  BY <1>1
<1>4. r = Append(s, x)
  BY <1>3 DEF x
<1> HIDE DEF s, r, t
<1>5. Agree(s, Those(s), Those(r))
  BY <1>2, <1>3, <1>4 DEF Those, Agree
<1>6. Len(s) + 1 \in Those(r) <=> BelongsInGraph(x)
  BY <1>2, <1>3, <1>4 DEF Those
<1>7. /\ Select(s, Those(s)) \in Seq(C)
      /\ Select(r, Those(r)) = IF BelongsInGraph(x) THEN Append(Select(s, Those(s)), x)
                               ELSE Select(s, Those(s))
  <2> DEFINE ks == Those(s)
             js == Those(r)
  <2>1. Agree(s, ks, js)
    BY <1>5
  <2> HIDE DEF ks, js
  <2>2. /\ Select(s, ks) \in Seq(C)
        /\ Select(Append(s, x), js) = IF Len(s) + 1 \in js THEN Append(Select(s, ks), x)
                                      ELSE Select(s, ks)
    BY <1>2, <1>3, <2>1, SelectAppend
  <2>3. Len(s) + 1 \in js <=> BelongsInGraph(x)
    BY <1>6 DEF js
  <2>4. Select(r, js) = IF BelongsInGraph(x) THEN Append(Select(s, ks), x) ELSE Select(s, ks)
    <3>1. Select(r, js) = Select(Append(s, x), js)
      BY <1>4
    <3>2. CASE BelongsInGraph(x)
      BY <2>2, <2>3, <3>1, <3>2
    <3>3. CASE ~BelongsInGraph(x)
      BY <2>2, <2>3, <3>1, <3>3
    <3> QED
      BY <3>2, <3>3
  <2> QED
    BY <2>2, <2>4 DEF ks, js
<1> DEFINE u == Select(s, Those(s))
           v == Select(r, Those(r))
<1>8. SoFar(p, k - 1) = [j \in DOMAIN u |-> EdgeOf(u[j])] /\ SoFar(p, k) = [j \in DOMAIN v |-> EdgeOf(v[j])]
  BY DEF SoFar, s, r, t
<1> HIDE DEF u, v
<1>9. u \in Seq(C) /\ v = IF BelongsInGraph(x) THEN Append(u, x) ELSE u
  BY <1>7 DEF u, v
<1>10. \A w \in Seq(C) : [j \in DOMAIN w |-> EdgeOf(w[j])] = [j \in DOMAIN w |-> F[w[j]]]
  <2>1. \A w \in Seq(C) : \A j \in DOMAIN w : w[j] \in C
    OBVIOUS
  <2> QED
    BY <2>1
<1>11. F \in [C -> T] /\ F[x] = EdgeOf(x)
  BY <1>2
<1> HIDE DEF F, T
<1>12. CASE BelongsInGraph(x)
  <2>1. v = Append(u, x) /\ Append(u, x) \in Seq(C)
    BY <1>2, <1>9, <1>12
  <2>2. [j \in DOMAIN Append(u, x) |-> F[Append(u, x)[j]]]
              = Append([j \in DOMAIN u |-> F[u[j]]], F[x])
    BY <1>2, <1>9, <1>11, ImageAppend
  <2>3. SoFar(p, k) = Append([j \in DOMAIN u |-> F[u[j]]], F[x])
    BY <1>8, <1>10, <2>1, <2>2
  <2>4. SoFar(p, k - 1) = [j \in DOMAIN u |-> F[u[j]]]
    BY <1>8, <1>9, <1>10
  <2> QED
    BY <1>11, <1>12, <2>3, <2>4 DEF x, t
<1>13. CASE ~BelongsInGraph(x)
  BY <1>8, <1>9, <1>13 DEF x, t
<1> QED
  BY <1>12, <1>13

LEMMA SoFarAll ==
    ASSUME trace \in Traces, NEW p \in DOMAIN trace
    PROVE  SoFar(p, Len(trace[p])) = Did(p)
<1>1. trace[p] \in Seq(ToSet(trace[p]))
  BY Executed
<1>2. SubSeq(trace[p], 1, Len(trace[p])) = trace[p]
  BY <1>1
<1> QED
  BY <1>2 DEF SoFar, Did

-----------------------------------------------------------------------------
(* The edges. *)

Edges == [command : {NormalizeTool(q) : q \in Programs}, pid : Pids, args : Seq(Words),
          inputs : Seq(Words), output : Words]

By(es, p) == AsSets(Select(es, {k \in 1..Len(es) : es[k].pid = p}))

LEMMA ByNobody == \A p : By(<<>>, p) = <<>>
<1> SUFFICES ASSUME NEW p
             PROVE  By(<<>>, p) = <<>>
  OBVIOUS
<1> DEFINE ks == {k \in 1..Len(<<>>) : <<>>[k].pid = p}
<1>1. Select(<<>>, ks) = <<>>
  BY SelectNone, Zenon
<1> HIDE DEF ks
<1>2. AsSets(<<>>) = <<>>
  BY DEF AsSets
<1> QED
  BY <1>1, <1>2, Zenon DEF By, ks

(* Another edge is its process's, after those it had. *)
LEMMA ByNext ==
    ASSUME NEW es \in Seq(Edges), NEW e \in Edges, NEW p
    PROVE  By(Append(es, e), p) = IF e.pid = p THEN Append(By(es, p), AsSet(e)) ELSE By(es, p)
<1> DEFINE fs == Append(es, e)
           ks == {k \in 1..Len(es) : es[k].pid = p}
           js == {k \in 1..Len(fs) : fs[k].pid = p}
           u == Select(es, ks)
           v == Select(fs, js)
           F == [x \in Edges |-> AsSet(x)]
           T == {AsSet(x) : x \in Edges}
<1>1. /\ Len(es) \in Nat /\ Len(fs) = Len(es) + 1 /\ fs[Len(es) + 1] = e
      /\ \A k \in 1..Len(es) : fs[k] = es[k]
  OBVIOUS
<1>2. Agree(es, ks, js) /\ (Len(es) + 1 \in js <=> e.pid = p)
  <2> HIDE DEF fs
  <2> QED
    BY <1>1 DEF Agree
<1> HIDE DEF ks, js
<1>3. u \in Seq(Edges) /\ v = IF Len(es) + 1 \in js THEN Append(u, e) ELSE u
  BY <1>2, SelectAppend
<1>4. By(es, p) = AsSets(u) /\ By(fs, p) = AsSets(v)
  BY DEF By, ks, js
<1> HIDE DEF u, v, fs
<1>5. \A w \in Seq(Edges) : AsSets(w) = [k \in DOMAIN w |-> F[w[k]]]
  <2>1. \A w \in Seq(Edges) : \A k \in DOMAIN w : w[k] \in Edges
    OBVIOUS
  <2> QED
    BY <2>1 DEF AsSets
<1>6. F \in [Edges -> T] /\ F[e] = AsSet(e)
  OBVIOUS
<1> HIDE DEF F, T
<1>7. CASE e.pid = p
  <2>1. v = Append(u, e) /\ Append(u, e) \in Seq(Edges)
    BY <1>2, <1>3, <1>7
  <2> DEFINE a == Append(u, e)
  <2>2. [k \in DOMAIN a |-> F[a[k]]] = Append([k \in DOMAIN u |-> F[u[k]]], F[e])
    BY <1>3, <1>6, ImageAppend
  <2>3. AsSets(v) = Append(AsSets(u), AsSet(e))
    BY <1>3, <1>5, <1>6, <2>1, <2>2
  <2> QED
    BY <1>4, <1>7, <2>3 DEF fs
<1>8. CASE e.pid # p
  BY <1>2, <1>3, <1>4, <1>8 DEF fs
<1> QED
  BY <1>7, <1>8

-----------------------------------------------------------------------------
(* How far parsing has come: before command k of the b-th block, or before *)
(* its header.                                                             *)

Blocks == Cardinality(DOMAIN trace)

Handled(order, b, k, c) ==
    IF c < b THEN Len(trace[order[c]]) ELSE IF c = b /\ k > 0 THEN k - 1 ELSE 0

Place(order, off, b, k) ==
    /\ b \in 1..Blocks+1 /\ k \in Nat /\ at = off[b - 1] + 1 + k
    /\ IF b > Blocks THEN k = 0 ELSE k <= Len(trace[order[b]])
    /\ k > 0 => current_pid = order[b]
    /\ edge # NoEdge => k > 0 /\ ReadingOf(trace[order[b]][k])
    /\ \A c \in 1..Blocks : By(edges, order[c]) = SoFar(order[c], Handled(order, b, k, c))
    /\ Len(edges) <= (b - 1) * MaxExecs + IF k = 0 THEN 0 ELSE k - 1

Somewhere(order, off) == \E b, k : Place(order, off, b, k)

ParseInv == edges \in Seq(Edges) /\ \E order, off : Shape(order, off) /\ Somewhere(order, off)

(* A block's numbers. *)
LEMMA BlockNumbers ==
    ASSUME NEW order, NEW off, Shape(order, off), NEW b \in 1..Blocks
    PROVE  /\ trace \in Traces /\ order[b] \in DOMAIN trace /\ order[b] \in Pids
           /\ off[b - 1] \in Nat /\ off[b] \in Nat
           /\ Len(trace[order[b]]) \in 1..MaxExecs /\ MaxExecs \in Nat
           /\ off[b] = off[b - 1] + 1 + Len(trace[order[b]])
           /\ Blocks \in Nat /\ b \in Nat
<1>1. trace \in Traces /\ order[b] \in DOMAIN trace /\ Blocks \in Nat /\ b \in Nat
  <2>1. trace \in Traces /\ Blocks \in Nat /\ order \in [1..Blocks -> DOMAIN trace]
    BY DEF Shape, Blocks
  <2> QED
    BY <2>1
<1>2. b - 1 \in 0..Blocks /\ b \in 0..Blocks
  <2>1. PICK n \in Nat : n = Blocks
    BY <1>1
  <2>2. b \in 1..n
    BY <2>1
  <2> QED
    BY <2>1, <2>2
<1>3. off[b - 1] \in Nat /\ off[b] \in Nat
  BY <1>2 DEF Shape, Blocks
<1>4. order[b] \in Pids /\ Len(trace[order[b]]) \in 1..MaxExecs
  BY <1>1, Executed
<1>5. off[b] = off[b - 1] + 1 + Len(trace[order[b]])
  BY DEF Shape, Blocks
<1> QED
  BY <1>1, <1>3, <1>4, <1>5, ParsingAssumption

(* The text ends where the last block does. *)
LEMMA TextEnds ==
    ASSUME NEW order, NEW off, Shape(order, off), NEW b \in 1..Blocks
    PROVE  off[b] <= Len(text)
<1> DEFINE n == Blocks
           U == {m \in 0..n-b : off[b] <= off[b + m]}
<1>1. n \in Nat /\ b \in Nat /\ off[b] \in Nat /\ n - b \in Nat /\ b + (n - b) = n
  BY BlockNumbers
<1>2. 0 \in U
  BY <1>1
<1>3. ASSUME NEW m \in 0..n-b-1, m \in U
      PROVE  m + 1 \in U
  <2>1. b + (m + 1) \in 1..n /\ m + 1 \in 0..n-b /\ b + (m + 1) - 1 = b + m
    BY <1>1
  <2>2. PICK c \in 1..n : c = b + (m + 1) /\ c - 1 = b + m
    BY <2>1
  <2> HIDE DEF n
  <2>3. /\ off[c - 1] \in Nat /\ Len(trace[order[c]]) \in 1..MaxExecs /\ off[c] \in Nat
        /\ off[c] = off[c - 1] + 1 + Len(trace[order[c]])
    <3>1. c \in 1..Blocks
      BY DEF n
    <3> QED
      BY <3>1, BlockNumbers
  <2>4. off[c - 1] <= off[c]
    BY <2>3
  <2>5. off[b] <= off[c - 1]
    BY <1>3, <2>2
  <2>6. off[b] <= off[c]
    BY <1>1, <2>3, <2>4, <2>5
  <2> QED
    BY <2>1, <2>2, <2>6
<1>4. n - b \in U
  <2> HIDE DEF U
  <2>1. PICK d \in Nat : d = n - b
    BY <1>1
  <2>2. \A m \in 0..d-1 : m \in U => m + 1 \in U
    BY <1>3, <2>1
  <2>3. d \in U
    BY <1>2, <2>2, Climb
  <2> QED
    BY <2>1, <2>3
<1> QED
  BY <1>1, <1>4 DEF Shape, Blocks

(* Before the end there is a block being read, and this is its line. *)
LEMMA Located ==
    ASSUME NEW order, NEW off, Shape(order, off), NEW b, NEW k, Place(order, off, b, k)
    PROVE  /\ Finished <=> b > Blocks
           /\ ~Finished => /\ b \in 1..Blocks /\ k \in 0..Len(trace[order[b]])
                           /\ k = 0 => Line = Header(order[b])
                           /\ k > 0 => Line = ExecLine(trace[order[b]][k])
<1>1. Blocks \in Nat /\ b \in 1..Blocks+1 /\ k \in Nat
  BY DEF Place, Shape, Blocks
<1>2. CASE b > Blocks
  <2>1. b - 1 = Blocks /\ k = 0 /\ off[Blocks] \in Nat /\ Len(text) = off[Blocks]
    BY <1>1, <1>2 DEF Place, Shape, Blocks
  <2>2. at > Len(text)
    BY <2>1 DEF Place
  <2> QED
    BY <1>2, <2>2 DEF Finished
<1>3. CASE ~(b > Blocks)
  <2>1. b \in 1..Blocks
    BY <1>1, <1>3
  <2>2. /\ off[b - 1] \in Nat /\ off[b] \in Nat /\ Len(trace[order[b]]) \in 1..MaxExecs
        /\ off[b] = off[b - 1] + 1 + Len(trace[order[b]]) /\ off[b] <= Len(text)
    BY <2>1, BlockNumbers, TextEnds
  <2>3. k <= Len(trace[order[b]]) /\ at = off[b - 1] + 1 + k
    BY <1>3 DEF Place
  <2>4. Len(text) \in Nat
    <3>1. Blocks \in 0..Blocks
      BY <1>1
    <3> QED
      BY <3>1 DEF Shape, Blocks
  <2>5. at <= Len(text) /\ k \in 0..Len(trace[order[b]]) /\ at \in Nat
    BY <1>1, <2>2, <2>3, <2>4
  <2>6. k = 0 => Line = Header(order[b])
    <3>1. k = 0 => at = off[b - 1] + 1
      BY <2>2, <2>3
    <3> QED
      BY <2>1, <3>1 DEF Line, Shape, Blocks
  <2>7. k > 0 => Line = ExecLine(trace[order[b]][k])
    <3>1. k > 0 => k \in 1..Len(trace[order[b]])
      BY <1>1, <2>2, <2>3
    <3> QED
      BY <2>1, <2>3, <3>1 DEF Line, Shape, Blocks
  <2> QED
    BY <1>3, <2>1, <2>4, <2>5, <2>6, <2>7 DEF Finished
<1> QED
  BY <1>2, <1>3

(* One line further in a block, or to the next block. *)
LEMMA Further ==
    ASSUME NEW order, NEW off, Shape(order, off), NEW b, NEW k, Place(order, off, b, k),
           b \in 1..Blocks, UNCHANGED <<trace, text>>, at' = at + 1, edge' = NoEdge,
           current_pid' = IF k = 0 THEN order[b] ELSE current_pid,
           \A c \in 1..Blocks : By(edges', order[c]) =
              IF c = b /\ k > 0 THEN SoFar(order[c], k) ELSE By(edges, order[c]),
           Len(edges) \in Nat,
           Len(edges') = Len(edges) \/ (k > 0 /\ Len(edges') = Len(edges) + 1)
    PROVE  Shape(order, off)' /\ Somewhere(order, off)'
<1>0. PICK m, b2, k2 : /\ m = Len(trace[order[b]])
                       /\ b2 = (IF k = m THEN b + 1 ELSE b)
                       /\ k2 = (IF k = m THEN 0 ELSE k + 1)
  OBVIOUS
<1>1. Shape(order, off)'
  BY DEF Shape
<1>2. /\ Blocks \in Nat /\ b \in Nat /\ k \in Nat /\ m \in 1..MaxExecs /\ MaxExecs \in Nat /\ k <= m
      /\ off[b - 1] \in Nat /\ off[b] = off[b - 1] + 1 + m /\ at = off[b - 1] + 1 + k
      /\ Blocks' = Blocks
  <2>1. k \in Nat /\ k <= Len(trace[order[b]]) /\ at = off[b - 1] + 1 + k
    <3>1. ~(b > Blocks)
      BY BlockNumbers
    <3> QED
      BY <3>1 DEF Place
  <2>2. Blocks' = Blocks
    BY DEF Blocks
  <2> QED
    BY <1>0, <2>1, <2>2, BlockNumbers
<1>3. \A p, j : SoFar(p, j)' = SoFar(p, j)
  BY DEF SoFar
<1>4. b2 \in 1..Blocks+1 /\ k2 \in Nat /\ at' = off[b2 - 1] + 1 + k2
  <2>1. CASE k = m
    <3>1. b2 = b + 1 /\ b2 - 1 = b /\ k2 = 0
      BY <1>0, <1>2, <2>1
    <3>2. at + 1 = off[b] + 1 + 0
      BY <1>0, <1>2, <2>1
    <3> QED
      BY <1>0, <1>2, <3>1, <3>2
  <2>2. CASE k # m
    <3>1. b2 = b /\ k2 = k + 1 /\ k + 1 <= m /\ at + 1 = off[b - 1] + 1 + (k + 1)
      BY <1>0, <1>2, <2>2
    <3> QED
      BY <1>2, <3>1
  <2> QED
    BY <2>1, <2>2
<1>5. IF b2 > Blocks THEN k2 = 0 ELSE k2 <= Len(trace[order[b2]])
  <2>1. CASE k = m
    <3>1. k2 = 0 /\ b2 = b + 1
      BY <1>0, <2>1
    <3>2. b + 1 > Blocks \/ b + 1 \in 1..Blocks
      BY <1>2
    <3>3. b + 1 \in 1..Blocks => Len(trace[order[b + 1]]) \in 1..MaxExecs
      BY BlockNumbers
    <3>4. b + 1 \in 1..Blocks => 0 <= Len(trace[order[b + 1]])
      BY <1>0, <1>2, <3>3
    <3> QED
      BY <3>1, <3>2, <3>4
  <2>2. CASE k # m
    BY <1>0, <1>2, <2>2
  <2> QED
    BY <2>1, <2>2
<1>6. k2 > 0 => current_pid' = order[b2]
  <2>1. k > 0 => current_pid = order[b]
    BY DEF Place
  <2> QED
    BY <1>0, <1>2, <2>1
<1>7. ASSUME NEW c \in 1..Blocks
      PROVE  By(edges', order[c]) = SoFar(order[c], Handled(order, b2, k2, c))
  <2>0. By(edges, order[c]) = SoFar(order[c], Handled(order, b, k, c))
    BY DEF Place
  <2>1. c \in Nat
    BY <1>2
  <2>2. CASE c = b /\ k > 0
    <3>1. Handled(order, b2, k2, c) = k
      BY <1>0, <1>2, <2>1, <2>2 DEF Handled
    <3> QED
      BY <2>2, <3>1
  <2>3. CASE ~(c = b /\ k > 0)
    <3>1. Handled(order, b2, k2, c) = Handled(order, b, k, c)
      <4>1. CASE c = b
        <5>1. k = 0 /\ b2 = b /\ k2 = 1
          BY <1>0, <1>2, <2>3, <4>1
        <5> QED
          BY <1>0, <1>2, <4>1, <5>1 DEF Handled
      <4>2. CASE c < b
        <5>1. c < b2
          BY <1>0, <1>2, <2>1, <4>2
        <5> QED
          BY <4>2, <5>1 DEF Handled
      <4>3. CASE c > b
        <5>1. ~(c < b2) /\ ~(c = b2 /\ k2 > 0) /\ ~(c < b) /\ c # b
          <6>1. CASE k = m
            BY <1>0, <1>2, <2>1, <4>3, <6>1
          <6>2. CASE k # m
            BY <1>0, <1>2, <2>1, <4>3, <6>2
          <6> QED
            BY <6>1, <6>2
        <5>2. Handled(order, b2, k2, c) = IF c = b2 /\ k2 > 0 THEN k2 - 1 ELSE 0
          BY <5>1 DEF Handled
        <5>3. Handled(order, b, k, c) = 0
          BY <5>1 DEF Handled
        <5> QED
          BY <5>1, <5>2, <5>3
      <4> QED
        BY <1>0, <1>2, <2>1, <4>1, <4>2, <4>3
    <3>2. By(edges', order[c]) = By(edges, order[c])
      BY <2>3
    <3> QED
      BY <2>0, <3>1, <3>2
  <2> QED
    BY <2>2, <2>3
<1>8. Len(edges') <= (b2 - 1) * MaxExecs + IF k2 = 0 THEN 0 ELSE k2 - 1
  <2> DEFINE x == (b - 1) * MaxExecs
  <2>0. Len(edges) <= x + IF k = 0 THEN 0 ELSE k - 1
    BY DEF Place
  <2>1. x \in Int
    BY <1>2
  <2>2. b * MaxExecs = x + MaxExecs
    BY <1>2
  <2> HIDE DEF x
  <2>3. Len(edges') <= x + k
    BY <1>0, <1>2, <2>0, <2>1
  <2>4. CASE k = m
    <3>1. (b2 - 1) * MaxExecs = x + MaxExecs /\ k2 = 0
      BY <1>0, <1>2, <2>2, <2>4
    <3>2. Len(edges') \in Nat
      OBVIOUS
    <3> QED
      BY <1>0, <1>2, <2>1, <2>3, <2>4, <3>1, <3>2
  <2>5. CASE k # m
    <3>1. (b2 - 1) * MaxExecs = x /\ k2 = k + 1
      BY <1>0, <2>5 DEF x
    <3> QED
      BY <1>0, <1>2, <2>3, <3>1
  <2> QED
    BY <2>4, <2>5
<1>9. Place(order, off, b2, k2)'
  <2>1. \A c : Handled(order, b2, k2, c)' = Handled(order, b2, k2, c)
    BY DEF Handled
  <2>2. \A c \in 1..Blocks : By(edges', order[c]) = SoFar(order[c], Handled(order, b2, k2, c))'
    BY <1>3, <1>7, <2>1
  <2>3. IF b2 > Blocks' THEN k2 = 0 ELSE k2 <= Len(trace'[order[b2]])
    BY <1>2, <1>5
  <2>4. b2 \in 1..Blocks'+1
    BY <1>2, <1>4
  <2>5. \A c \in 1..Blocks' : By(edges', order[c]) = SoFar(order[c], Handled(order, b2, k2, c))'
    BY <1>2, <2>2
  <2> QED
    BY <1>4, <1>6, <1>8, <2>3, <2>4, <2>5 DEF Place
<1> QED
  BY <1>1, <1>9 DEF Somewhere

(* Within a command nothing else moves. *)
LEMMA Within ==
    ASSUME NEW order, NEW off, Shape(order, off), NEW b, NEW k, Place(order, off, b, k), k > 0,
           UNCHANGED <<trace, text, at, current_pid, edges>>,
           edge' # NoEdge => ReadingOf(trace[order[b]][k])'
    PROVE  Shape(order, off)' /\ Somewhere(order, off)'
<1>1. Shape(order, off)'
  BY DEF Shape
<1>2. Blocks' = Blocks
  BY DEF Blocks
<1>3. \A p, j : SoFar(p, j)' = SoFar(p, j)
  BY DEF SoFar
<1>4. \A c : Handled(order, b, k, c)' = Handled(order, b, k, c)
  BY DEF Handled
<1>5. Place(order, off, b, k)'
  BY <1>2, <1>3, <1>4 DEF Place
<1> QED
  BY <1>1, <1>5 DEF Somewhere

-----------------------------------------------------------------------------
(* Every step of parsing. *)

LEMMA ParseInit == Init => ParseInv
<1> SUFFICES ASSUME Init
             PROVE  ParseInv
  OBVIOUS
<1>1. edges = <<>> /\ edge = NoEdge /\ at = 1
  BY DEF Init
<1>2. PICK order, off : Shape(order, off)
  BY InitShape
<1>3. Blocks \in Nat /\ off[0] = 0
  BY <1>2 DEF Shape, Blocks
<1>4. ASSUME NEW c \in 1..Blocks
      PROVE  By(edges, order[c]) = SoFar(order[c], Handled(order, 1, 0, c))
  <2>1. Handled(order, 1, 0, c) = 0
    BY <1>3 DEF Handled
  <2> QED
    BY <1>1, <2>1, ByNobody, SoFarNothing
<1>5. Place(order, off, 1, 0)
  <2>1. 1 \in 1..Blocks+1 /\ 0 \in Nat /\ at = off[1 - 1] + 1 + 0
    BY <1>1, <1>3
  <2>2. IF 1 > Blocks THEN 0 = 0 ELSE 0 <= Len(trace[order[1]])
    <3>1. CASE 1 > Blocks
      BY <3>1
    <3>2. CASE ~(1 > Blocks)
      <4>1. 1 \in 1..Blocks
        BY <1>3, <3>2
      <4>2. Len(trace[order[1]]) \in 1..MaxExecs /\ MaxExecs \in Nat
        BY <1>2, <4>1, BlockNumbers
      <4> QED
        BY <3>2, <4>2
    <3> QED
      BY <3>1, <3>2
  <2>3. Len(edges) <= (1 - 1) * MaxExecs + IF 0 = 0 THEN 0 ELSE 0 - 1
    BY <1>1, ParsingAssumption
  <2> QED
    BY <1>1, <1>4, <2>1, <2>2, <2>3 DEF Place
<1> QED
  BY <1>1, <1>2, <1>5 DEF ParseInv, Somewhere

(* The edge of a command that has been read is one of the graph's. *)
LEMMA EdgeIsTyped ==
    ASSUME NEW order, NEW off, Shape(order, off), NEW b, NEW k, Place(order, off, b, k),
           edge # NoEdge, ~Finished, Complete(edge)
    PROVE  edge \in Edges /\ edge.pid = order[b]
<1>1. k > 0 /\ current_pid = order[b] /\ ReadingOf(trace[order[b]][k])
  BY DEF Place
<1>2. order[b] \in Pids
  BY Located, BlockNumbers
<1> QED
  BY <1>1, <1>2 DEF ReadingOf, Complete, Edges

LEMMA ParseStep ==
    ASSUME ArIsConventional, ParseInv, [Next]_vars
    PROVE  ParseInv'
<1> DEFINE Placed2(order, off) == Shape(order, off)' /\ Somewhere(order, off)'
<1>1. PICK order, off, b, k : Shape(order, off) /\ Place(order, off, b, k)
  BY DEF ParseInv, Somewhere
<1>2. edges \in Seq(Edges) /\ Len(edges) \in Nat
  BY DEF ParseInv
<1>3. ~Finished => /\ b \in 1..Blocks /\ k \in 0..Len(trace[order[b]])
                   /\ k = 0 => Line = Header(order[b])
                   /\ k > 0 => Line = ExecLine(trace[order[b]][k])
  BY <1>1, Located
<1>4. ~Finished => /\ trace \in Traces /\ order[b] \in DOMAIN trace /\ order[b] \in Pids
                   /\ Len(trace[order[b]]) \in Nat /\ Blocks \in Nat
  BY <1>1, <1>3, BlockNumbers
<1>5. edge # NoEdge => /\ k > 0 /\ ReadingOf(trace[order[b]][k]) /\ current_pid = order[b]
  BY <1>1 DEF Place
<1>6. edge # NoEdge => ~Finished
  <2>1. b > Blocks => k = 0
    BY <1>1 DEF Place
  <2>2. Finished => b > Blocks
    BY <1>1, Located
  <2> QED
    BY <1>5, <2>1, <2>2
<1>7. ~Finished /\ k > 0 =>
        /\ k \in 1..Len(trace[order[b]])
        /\ trace[order[b]][k].program \in Programs /\ trace[order[b]][k].args \in Seq(Words)
        /\ ArConvention(trace[order[b]][k])
  <2> SUFFICES ASSUME ~Finished, k > 0
               PROVE  /\ k \in 1..Len(trace[order[b]])
                      /\ trace[order[b]][k].program \in Programs
                      /\ trace[order[b]][k].args \in Seq(Words)
                      /\ ArConvention(trace[order[b]][k])
    OBVIOUS
  <2> DEFINE p == order[b]
             c == trace[p][k]
  <2>1. k \in 1..Len(trace[p])
    BY <1>3, <1>4
  <2>2. trace \in Traces /\ p \in DOMAIN trace
    BY <1>4
  <2>3. c \in ToSet(trace[p])
    BY <2>1, <2>2, Executed
  <2> HIDE DEF c, p
  <2>4. c.program \in Programs /\ c.args \in Seq(Words)
    BY <2>2, <2>3, ParsingAssumption
  <2>5. ArConvention(c)
    BY <2>2, <2>3 DEF ArIsConventional, ArConvention
  <2> QED
    BY <2>1, <2>4, <2>5 DEF c, p
<1>8. ~Finished /\ k > 0 =>
        SoFar(order[b], k) = IF BelongsInGraph(trace[order[b]][k])
                             THEN Append(By(edges, order[b]), EdgeOf(trace[order[b]][k]))
                             ELSE By(edges, order[b])
  <2>1. ~Finished /\ k > 0 => By(edges, order[b]) = SoFar(order[b], k - 1)
    <3>1. ~Finished /\ k > 0 => Handled(order, b, k, b) = k - 1
      BY <1>3, <1>4 DEF Handled
    <3> QED
      BY <1>1, <1>3, <3>1 DEF Place
  <2>2. ~Finished /\ k > 0 =>
           SoFar(order[b], k) = IF BelongsInGraph(trace[order[b]][k])
                                THEN Append(SoFar(order[b], k - 1), EdgeOf(trace[order[b]][k]))
                                ELSE SoFar(order[b], k - 1)
    BY <1>4, <1>7, SoFarNext
  <2> QED
    BY <2>1, <2>2
<1>9. CASE ReadHeader
  <2>1. ~Finished /\ Line.is = "ID" /\ edge = NoEdge
    BY <1>9 DEF ReadHeader, Reading
  <2>2. k = 0
    BY <1>3, <2>1 DEF ExecLine
  <2>3. /\ UNCHANGED <<trace, text, edge, edges>> /\ at' = at + 1
        /\ current_pid' = order[b]
    BY <1>3, <1>9, <2>1, <2>2 DEF ReadHeader, NextLine, Header
  <2>4. Placed2(order, off)
    BY <1>1, <1>2, <1>3, <2>1, <2>2, <2>3, Further
  <2> QED
    BY <1>2, <2>3, <2>4 DEF ParseInv
<1>10. CASE SkipExec
  <2>1. ~Finished /\ Line.is = "execve" /\ edge = NoEdge /\ ~IsBuildTool(Line.program)
    BY <1>10 DEF SkipExec, Reading
  <2>2. k > 0
    BY <1>3, <1>4, <2>1 DEF Header
  <2>3. ~BelongsInGraph(trace[order[b]][k])
    BY <1>3, <2>1, <2>2 DEF ExecLine, BelongsInGraph
  <2>4. UNCHANGED <<trace, text, edge, edges, current_pid>> /\ at' = at + 1
    BY <1>10 DEF SkipExec, NextLine
  <2>5. \A c \in 1..Blocks : By(edges', order[c]) =
              IF c = b /\ k > 0 THEN SoFar(order[c], k) ELSE By(edges, order[c])
    BY <1>8, <2>1, <2>2, <2>3, <2>4
  <2>6. current_pid' = IF k = 0 THEN order[b] ELSE current_pid
    BY <2>2, <2>4
  <2>7. Placed2(order, off)
    BY <1>1, <1>2, <1>3, <2>1, <2>4, <2>5, <2>6, Further
  <2> QED
    BY <1>2, <2>4, <2>7 DEF ParseInv
<1>11. CASE BeginExec
  <2>1. ~Finished /\ Line.is = "execve" /\ edge = NoEdge /\ IsBuildTool(Line.program)
    BY <1>11 DEF BeginExec, Reading
  <2>2. k > 0
    BY <1>3, <1>4, <2>1 DEF Header
  <2>3. PICK c : c = trace[order[b]][k]
    OBVIOUS
  <2>4. /\ Line.program = c.program /\ Line.args = c.args /\ c.args \in Seq(Words)
        /\ c.program \in Programs
    BY <1>3, <1>7, <2>1, <2>2, <2>3 DEF ExecLine
  <2>5. /\ edge' = [command |-> NormalizeTool(c.program), pid |-> current_pid, args |-> c.args,
                    inputs |-> <<>>, output |-> NoOutput]
        /\ arg' = 1 /\ next_is_output' = FALSE /\ next_is_skip' = FALSE
        /\ UNCHANGED <<trace, text, at, current_pid, types, edges>>
    BY <1>11, <2>4 DEF BeginExec, NoEdge
  <2>6. ToSet(<<>>) = {}
    BY DEF ToSet
  <2>7. \A places : Below(c.args, places \cap (Nat \ {0}), 1) = {}
    BY DEF Below
  <2>8. /\ ReadPlaces(c.args) \cap (Nat \ {0}) = ReadPlaces(c.args)
        /\ MemberPlaces(c.args) \cap (Nat \ {0}) = MemberPlaces(c.args)
        /\ \A j \in NamedPlaces(c.args) : j >= 1
    BY <2>4 DEF ReadPlaces, MemberPlaces, NamedPlaces
  <2>9. Below(c.args, ReadPlaces(c.args), 1) = {} /\ Below(c.args, MemberPlaces(c.args), 1) = {}
    BY <2>7, <2>8
  <2>10. Loop(NormalizeTool(c.program), c.args)'
    <3>1. edge'.inputs = <<>> /\ edge'.output = NoOutput
      BY <2>5
    <3>2. ArLoop(c.args)'
      <4>1. ~(arg' > 2)
        BY <2>5
      <4>2. Below(c.args, MemberPlaces(c.args), arg') = {}
        BY <2>5, <2>9
      <4> QED
        BY <2>6, <3>1, <4>1, <4>2 DEF ArLoop
    <3>3. CompilerLoop(c.args)'
      <4>1. ~(arg' > 1) /\ \A j \in NamedPlaces(c.args) : j >= arg'
        BY <2>5, <2>8
      <4> QED
        BY <2>5, <2>6, <2>9, <3>1, <4>1 DEF CompilerLoop
    <3> QED
      BY <3>1, <3>2, <3>3 DEF Loop
  <2>11. ReadingOf(c)'
    <3>1. <<>> \in Seq(Words) /\ 1 \in 1..Len(c.args)+1
      BY <2>4
    <3> QED
      BY <2>1, <2>4, <2>5, <2>10, <3>1 DEF ReadingOf
  <2>12. ReadingOf(trace[order[b]][k])'
    BY <2>3, <2>5, <2>11
  <2>13. Placed2(order, off)
    BY <1>1, <2>2, <2>5, <2>12, Within
  <2> QED
    BY <1>2, <2>5, <2>13 DEF ParseInv
<1>12. CASE ArArg \/ RanlibArg \/ CompilerArg
  <2>1. edge # NoEdge /\ UNCHANGED <<trace, text, at, current_pid, edges>>
    BY <1>12 DEF ArArg, RanlibArg, CompilerArg, InArgs
  <2>2. k > 0 /\ ReadingOf(trace[order[b]][k]) /\ ArConvention(trace[order[b]][k])
    BY <1>5, <1>6, <1>7, <2>1
  <2>3. PICK c : c = trace[order[b]][k]
    OBVIOUS
  <2>4. ReadingOf(c)'
    <3>1. ReadingOf(c) /\ ArConvention(c)
      BY <2>2, <2>3
    <3> QED
      BY <1>12, <3>1, ArRound, RanlibRound, CompilerRound
  <2>5. ReadingOf(trace[order[b]][k])'
    BY <2>1, <2>3, <2>4
  <2>6. Placed2(order, off)
    BY <1>1, <2>1, <2>2, <2>5, Within
  <2> QED
    BY <1>2, <2>1, <2>6 DEF ParseInv
<1>13. CASE EndExec
  <2>1. /\ edge # NoEdge /\ ~InArgs /\ edge' = NoEdge /\ at' = at + 1
        /\ UNCHANGED <<trace, text, current_pid>>
    BY <1>13 DEF EndExec, NextLine
  <2>2. /\ ~Finished /\ k > 0 /\ ReadingOf(trace[order[b]][k]) /\ current_pid = order[b]
        /\ ArConvention(trace[order[b]][k])
    BY <1>5, <1>6, <1>7, <2>1
  <2>3. /\ Complete(edge) <=> BelongsInGraph(trace[order[b]][k])
        /\ Complete(edge) => AsSet(edge) = EdgeOf(trace[order[b]][k])
    BY <2>1, <2>2, LoopEnds
  <2>4. current_pid' = IF k = 0 THEN order[b] ELSE current_pid
    BY <2>1, <2>2
  <2>5. CASE Complete(edge)
    <3>1. edge \in Edges /\ edge.pid = order[b]
      BY <1>1, <2>1, <2>2, <2>5, EdgeIsTyped
    <3>2. edges' = Append(edges, edge)
      BY <1>13, <2>5 DEF EndExec
    <3>3. edges' \in Seq(Edges) /\ Len(edges') = Len(edges) + 1
      BY <1>2, <3>1, <3>2
    <3>4. ASSUME NEW c \in 1..Blocks
          PROVE  By(edges', order[c]) =
                    IF c = b /\ k > 0 THEN SoFar(order[c], k) ELSE By(edges, order[c])
      <4>1. By(edges', order[c]) = IF edge.pid = order[c] THEN Append(By(edges, order[c]), AsSet(edge))
                                   ELSE By(edges, order[c])
        BY <1>2, <3>1, <3>2, ByNext
      <4>2. c # b => order[c] # order[b]
        <5>1. \A x, y \in 1..Blocks : x # y => order[x] # order[y]
          BY <1>1, Zenon DEF Shape, Blocks
        <5>2. b \in 1..Blocks
          BY <1>3, <2>2
        <5> QED
          BY <5>1, <5>2
      <4>3. SoFar(order[b], k) = Append(By(edges, order[b]), AsSet(edge))
        BY <1>8, <2>2, <2>3, <2>5
      <4> QED
        BY <2>2, <3>1, <4>1, <4>2, <4>3
    <3>5. Placed2(order, off)
      BY <1>1, <1>2, <1>3, <2>1, <2>2, <2>4, <3>3, <3>4, Further
    <3> QED
      BY <3>3, <3>5 DEF ParseInv
  <2>6. CASE ~Complete(edge)
    <3>1. edges' = edges
      BY <1>13, <2>6 DEF EndExec
    <3>2. \A c \in 1..Blocks : By(edges', order[c]) =
              IF c = b /\ k > 0 THEN SoFar(order[c], k) ELSE By(edges, order[c])
      BY <1>8, <2>2, <2>3, <2>6, <3>1
    <3>3. Placed2(order, off)
      BY <1>1, <1>2, <1>3, <2>1, <2>2, <2>4, <3>1, <3>2, Further
    <3> QED
      BY <1>2, <3>1, <3>3 DEF ParseInv
  <2> QED
    BY <2>5, <2>6
<1>14. CASE UNCHANGED vars
  <2>1. UNCHANGED <<trace, text, at, current_pid, edge, arg, next_is_output, next_is_skip, edges>>
    BY <1>14 DEF vars
  <2>2. Shape(order, off)'
    BY <1>1, <2>1 DEF Shape
  <2>3. ReadingOf(trace[order[b]][k])' <=> ReadingOf(trace[order[b]][k])
    BY <2>1 DEF ReadingOf, Loop, ArLoop, CompilerLoop
  <2>4. Place(order, off, b, k)'
    BY <1>1, <2>1, <2>3 DEF Place, Blocks, SoFar, Handled
  <2> QED
    BY <1>2, <2>1, <2>2, <2>4 DEF ParseInv, Somewhere
<1> QED
  BY <1>9, <1>10, <1>11, <1>12, <1>13, <1>14 DEF Next

-----------------------------------------------------------------------------
(* The theorems. *)

LEMMA ParseInductive ==
    ASSUME ArIsConventional
    PROVE  Spec => []ParseInv
<1>1. Init => ParseInv
  BY ParseInit
<1>2. ParseInv /\ [Next]_vars => ParseInv'
  BY ParseStep
<1> QED
  BY <1>1, <1>2, PTL DEF Spec

(* Whatever the commands and in whatever order the processes' blocks come:  *)
(* when parseBuildGraph has read the trace, the edges of each process are   *)
(* the commands it executed that belong in the graph, in order, with what   *)
(* they read and made.                                                     *)
THEOREM EdgesOfCommands ==
    ASSUME ArIsConventional
    PROVE  Spec => []EdgesAreTheCommands
<1>1. ParseInv => EdgesAreTheCommands
  <2> SUFFICES ASSUME ParseInv, Finished, NEW p \in DOMAIN trace
               PROVE  AsSets(EdgesBy(p)) = Did(p)
    BY DEF EdgesAreTheCommands
  <2>1. PICK order, off, b, k : Shape(order, off) /\ Place(order, off, b, k)
    BY DEF ParseInv, Somewhere
  <2>2. trace \in Traces /\ \E c \in 1..Blocks : order[c] = p
    <3>1. trace \in Traces /\ \A q \in DOMAIN trace : \E c \in 1..Blocks : order[c] = q
      BY <2>1, Zenon DEF Shape, Blocks
    <3> QED
      BY <3>1
  <2>3. PICK c \in 1..Blocks : order[c] = p
    BY <2>2
  <2>4. c < b
    <3>1. b > Blocks /\ Blocks \in Nat /\ b \in Nat
      <4>1. Finished <=> b > Blocks
        BY <2>1, Located
      <4>2. Blocks \in Nat /\ b \in 1..Blocks+1
        BY <2>1 DEF Place, Shape, Blocks
      <4> QED
        BY <4>1, <4>2
    <3> QED
      BY <3>1
  <2>5. By(edges, p) = SoFar(p, Handled(order, b, k, c))
    BY <2>1, <2>3 DEF Place
  <2>6. Handled(order, b, k, c) = Len(trace[p])
    BY <2>3, <2>4 DEF Handled
  <2>7. SoFar(p, Len(trace[p])) = Did(p)
    BY <2>2, SoFarAll
  <2>8. By(edges, p) = AsSets(EdgesBy(p))
    BY Zenon DEF By, EdgesBy
  <2> QED
    BY <2>5, <2>6, <2>7, <2>8
<1> QED
  BY <1>1, ParseInductive, PTL

(* Every node has the type of one of the uses of its path. *)
Used(p) == \/ p \in ReadByAny /\ types[p] = Classify(p, FALSE)
           \/ p \in MadeByAny /\ types[p] = Classify(p, TRUE)

TypesInv ==
    /\ edges \in Seq(ToSet(edges))
    /\ DOMAIN types = ReadByAny \cup MadeByAny
    /\ \A p \in DOMAIN types : Used(p)

LEMMA TypesInit == Init => TypesInv
<1> SUFFICES ASSUME Init
             PROVE  TypesInv
  OBVIOUS
<1>1. edges = <<>> /\ DOMAIN types = {}
  BY DEF Init
<1>2. ToSet(<<>>) = {} /\ <<>> \in Seq({})
  BY DEF ToSet
<1>3. ReadByAny = {} /\ MadeByAny = {}
  BY <1>1, <1>2 DEF ReadByAny, MadeByAny
<1> QED
  BY <1>1, <1>2, <1>3 DEF TypesInv

LEMMA TypesStep ==
    ASSUME TypesInv, [Next]_vars
    PROVE  TypesInv'
<1>1. CASE edges' = edges /\ types' = types
  <2>1. ReadByAny' = ReadByAny /\ MadeByAny' = MadeByAny
    BY <1>1 DEF ReadByAny, MadeByAny
  <2> QED
    BY <1>1, <2>1 DEF TypesInv, Used
<1>2. CASE EndExec /\ Complete(edge)
  <2>1. edges' = Append(edges, edge) /\ types' = Ensured(edge)
    BY <1>2 DEF EndExec
  <2>2. edges' \in Seq(ToSet(edges')) /\ ToSet(edges') = ToSet(edges) \cup {edge}
    <3> DEFINE S == ToSet(edges) \cup {edge}
    <3>1. edges \in Seq(S)
      <4>1. edges \in Seq(ToSet(edges))
        BY DEF TypesInv
      <4> HIDE DEF TypesInv
      <4>2. ToSet(edges) \subseteq S
        OBVIOUS
      <4> HIDE DEF S
      <4> QED
        BY <4>1, <4>2
    <3>2. edge \in S
      OBVIOUS
    <3> HIDE DEF S
    <3>3. edges' \in Seq(S) /\ ToSet(edges') = ToSet(edges) \cup {edge}
      BY <2>1, <3>1, <3>2, ToSetAppend
    <3> QED
      BY <3>3 DEF S
  <2>3. ReadByAny' = ReadByAny \cup ToSet(edge.inputs) /\ MadeByAny' = MadeByAny \cup {edge.output}
    BY <2>2 DEF ReadByAny, MadeByAny
  <2>4. DOMAIN types' = DOMAIN types \cup ToSet(edge.inputs) \cup {edge.output}
    BY <2>1 DEF Ensured, NodesOf
  <2>5. ASSUME NEW p \in DOMAIN types'
        PROVE  Used(p)'
    <3>1. CASE p \in DOMAIN types
      <4>1. types'[p] = types[p]
        BY <2>1, <3>1 DEF Ensured
      <4>2. Used(p)
        BY <3>1 DEF TypesInv
      <4> QED
        BY <2>3, <4>1, <4>2 DEF Used
    <3>2. CASE p \notin DOMAIN types
      <4>1. types'[p] = Classify(p, p \notin ToSet(edge.inputs))
        BY <2>1, <3>2 DEF Ensured
      <4>2. CASE p \in ToSet(edge.inputs)
        <5>1. types'[p] = Classify(p, FALSE)
          BY <4>1, <4>2 DEF Classify
        <5> QED
          BY <2>3, <4>2, <5>1 DEF Used
      <4>3. CASE p \notin ToSet(edge.inputs)
        <5>1. types'[p] = Classify(p, TRUE)
          BY <4>1, <4>3 DEF Classify
        <5>2. p = edge.output
          BY <2>4, <3>2, <4>3
        <5> QED
          BY <2>3, <5>1, <5>2 DEF Used
      <4> QED
        BY <4>2, <4>3
    <3> QED
      BY <3>1, <3>2
  <2>6. DOMAIN types' = ReadByAny' \cup MadeByAny'
    BY <2>3, <2>4 DEF TypesInv
  <2> QED
    BY <2>2, <2>5, <2>6 DEF TypesInv
<1>3. CASE UNCHANGED vars
  BY <1>1, <1>3 DEF vars
<1>4. CASE ReadHeader \/ SkipExec \/ BeginExec \/ ArArg \/ RanlibArg \/ CompilerArg
  <2>1. edges' = edges /\ types' = types
    BY <1>4 DEF ReadHeader, SkipExec, BeginExec, ArArg, RanlibArg, CompilerArg
  <2> QED
    BY <1>1, <2>1
<1>5. CASE EndExec /\ ~Complete(edge)
  <2>1. edges' = edges /\ types' = types
    BY <1>5 DEF EndExec
  <2> QED
    BY <1>1, <2>1
<1> QED
  BY <1>2, <1>3, <1>4, <1>5 DEF Next

(* In whatever order the blocks come, what is only read is never typed an   *)
(* artifact, and what is only made always is, unless it is code.           *)
THEOREM TypesOfNodes == Spec => []TypesFollowUse
<1>1. TypesInv => TypesFollowUse
  <2> SUFFICES ASSUME TypesInv, NEW p \in DOMAIN types
               PROVE  /\ p \notin MadeByAny => types[p] # "ARTIFACT"
                      /\ p \notin ReadByAny => (types[p] = "ARTIFACT" <=> ~IsInput(p))
    BY DEF TypesFollowUse
  <2>1. Classify(p, FALSE) # "ARTIFACT"
    BY DEF Classify
  <2>2. Classify(p, TRUE) = "ARTIFACT" <=> ~IsInput(p)
    BY DEF Classify, IsInput
  <2>3. Used(p)
    BY DEF TypesInv
  <2> QED
    BY <2>1, <2>2, <2>3 DEF Used
<1>2. TypesInv /\ [Next]_vars => TypesInv'
  BY TypesStep
<1> QED
  BY <1>1, <1>2, TypesInit, PTL DEF Spec

(* A step of parsing adds the edge of one command, with its nodes, or does  *)
(* nothing that BuildGraph sees.                                           *)
LEMMA GraphStep ==
    ASSUME ArIsConventional, ParseInv, [Next]_vars
    PROVE  [Graph!Next]_(Graph!vars)
<1>1. CASE EndExec /\ Complete(edge)
  <2>1. /\ edges' = Append(edges, edge) /\ types' = Ensured(edge)
        /\ edge # NoEdge /\ ~InArgs
    BY <1>1 DEF EndExec
  <2>2. PICK order, off, b, k : Shape(order, off) /\ Place(order, off, b, k)
    BY DEF ParseInv, Somewhere
  <2>3. k > 0 /\ ReadingOf(trace[order[b]][k])
    BY <2>1, <2>2 DEF Place
  <2>4. ~Finished /\ b \in 1..Blocks /\ k \in 1..Len(trace[order[b]])
    <3>1. ~(b > Blocks)
      BY <2>2, <2>3 DEF Place
    <3>2. ~Finished
      BY <2>2, <3>1, Located
    <3>3. b \in 1..Blocks /\ k \in 0..Len(trace[order[b]])
      BY <2>2, <3>2, Located
    <3>4. Len(trace[order[b]]) \in 1..MaxExecs /\ MaxExecs \in Nat
      BY <2>2, <3>3, BlockNumbers
    <3> QED
      BY <2>3, <3>2, <3>3, <3>4
  <2>5. /\ trace \in Traces /\ order[b] \in DOMAIN trace /\ Blocks \in Nat /\ b \in Nat
        /\ Len(trace[order[b]]) \in 1..MaxExecs /\ MaxExecs \in Nat
    BY <2>2, <2>4, BlockNumbers
  <2>6. PICK c : c = trace[order[b]][k] /\ c \in ToSet(trace[order[b]])
    BY <2>4, <2>5, Executed
  <2>7. ReadingOf(c) /\ ArConvention(c)
    <3>1. ArConvention(c)
      BY <2>5, <2>6 DEF ArIsConventional, ArConvention
    <3> QED
      BY <2>3, <2>6, <3>1
  <2>8. BelongsInGraph(c) /\ AsSet(edge) = EdgeOf(c)
    BY <1>1, <2>1, <2>7, LoopEnds
  <2>9. EdgeOf(c) \in CommandEdges
    <3> DEFINE ran == UNION {UNION {ToSet(t[p]) : p \in DOMAIN t} : t \in Traces}
    <3>1. c \in ran
      BY <2>5, <2>6
    <3>2. CommandEdges = {EdgeOf(d) : d \in {x \in ran : BelongsInGraph(x)}}
      BY DEF CommandEdges
    <3> HIDE DEF ran
    <3> QED
      BY <2>8, <3>1, <3>2
  <2>10. edge \in Edges
    BY <1>1, <2>1, <2>2, <2>4, EdgeIsTyped
  <2>11. edges \in Seq(Edges) /\ Len(edges) \in Nat
    BY DEF ParseInv
  <2> DEFINE e == AsSet(edge)
             F == [x \in Edges |-> AsSet(x)]
             T == {AsSet(x) : x \in Edges}
  <2>12. \A w \in Seq(Edges) : AsSets(w) = [j \in DOMAIN w |-> F[w[j]]]
    <3>1. \A w \in Seq(Edges) : \A j \in DOMAIN w : w[j] \in Edges
      OBVIOUS
    <3> QED
      BY <3>1 DEF AsSets
  <2>13. F \in [Edges -> T] /\ F[edge] = e
    BY <2>10
  <2>14. AsSets(edges') = Append(AsSets(edges), e) /\ Len(AsSets(edges)) = Len(edges)
    <3> HIDE DEF F, T, e
    <3>1. edges' \in Seq(Edges)
      BY <2>1, <2>10, <2>11
    <3>2. [j \in DOMAIN Append(edges, edge) |-> F[Append(edges, edge)[j]]]
             = Append([j \in DOMAIN edges |-> F[edges[j]]], F[edge])
      BY <2>10, <2>11, <2>13, ImageAppend
    <3>3. Len(AsSets(edges)) = Len(edges)
      <4>1. DOMAIN edges = 1..Len(edges)
        BY <2>11
      <4>2. AsSets(edges) = [j \in 1..Len(edges) |-> AsSet(edges[j])]
        BY <4>1 DEF AsSets
      <4> QED
        BY <2>11, <4>2
    <3> QED
      BY <2>1, <2>11, <2>12, <2>13, <3>1, <3>2, <3>3
  <2>15. Len(edges) < MaxExecs * Cardinality(Pids)
    <3> DEFINE x == (b - 1) * MaxExecs
    <3>1. Len(edges) <= x + (k - 1)
      BY <2>2, <2>3, <2>4 DEF Place
    <3>2. k <= MaxExecs /\ k \in Nat
      BY <2>4, <2>5
    <3>3. x \in Int /\ b * MaxExecs = x + MaxExecs
      BY <2>5
    <3> HIDE DEF x
    <3>4. Len(edges) < b * MaxExecs
      BY <2>5, <2>11, <3>1, <3>2, <3>3
    <3>5. Blocks <= Cardinality(Pids) /\ Cardinality(Pids) \in Nat
      BY <2>2, ParsingAssumption, FS_CardinalityType DEF Shape, Blocks
    <3>6. PICK d \in Nat : Cardinality(Pids) = b + d
      <4>1. b <= Cardinality(Pids)
        BY <2>4, <2>5, <3>5
      <4>2. Cardinality(Pids) - b \in Nat /\ Cardinality(Pids) = b + (Cardinality(Pids) - b)
        BY <2>5, <3>5, <4>1
      <4> QED
        BY <4>2
    <3>7. MaxExecs * (b + d) = b * MaxExecs + MaxExecs * d /\ MaxExecs * d \in Nat /\ b * MaxExecs \in Nat
      BY <2>5
    <3> QED
      BY <2>11, <3>4, <3>6, <3>7
  <2>16. DOMAIN types' = DOMAIN types \cup e.inputs \cup {e.output}
    BY <2>1 DEF Ensured, NodesOf, AsSet
  <2>17. 1..Len(edges') = 1..Len(edges) \cup {Len(AsSets(edges)) + 1}
    <3>1. Len(edges') = Len(edges) + 1
      BY <2>1, <2>10, <2>11
    <3>2. \A n \in Nat : 1..(n + 1) = 1..n \cup {n + 1}
      OBVIOUS
    <3> QED
      BY <2>11, <2>14, <3>1, <3>2
  <2> HIDE DEF e
  <2>18. Graph!AddEdge(e)
    BY <2>14, <2>15, <2>16, <2>17, <2>11 DEF Graph!AddEdge, Graph!NewIndex, Graph!searchVars
  <2>19. e \in CommandEdges
    BY <2>8, <2>9 DEF e
  <2> QED
    BY <2>18, <2>19 DEF Graph!Next
<1>2. CASE UNCHANGED <<edges, types>>
  <2>1. AsSets(edges)' = AsSets(edges) /\ (1..Len(edges))' = 1..Len(edges) /\ (DOMAIN types)' = DOMAIN types
    BY <1>2 DEF AsSets
  <2> QED
    BY <2>1 DEF Graph!vars, Graph!searchVars
<1>3. CASE UNCHANGED vars
  BY <1>2, <1>3 DEF vars
<1>4. CASE ReadHeader \/ SkipExec \/ BeginExec \/ ArArg \/ RanlibArg \/ CompilerArg
  <2>1. UNCHANGED <<edges, types>>
    BY <1>4 DEF ReadHeader, SkipExec, BeginExec, ArArg, RanlibArg, CompilerArg
  <2> QED
    BY <1>2, <2>1
<1>5. CASE EndExec /\ ~Complete(edge)
  BY <1>2, <1>5 DEF EndExec
<1> QED
  BY <1>1, <1>3, <1>4, <1>5, <1>2 DEF Next

(* Parsing implements the first phase of BuildGraph: one edge at a time,    *)
(* that of a command some process executed, together with the nodes of its  *)
(* paths, and never more than the processes can have executed.             *)
THEOREM ParsingImplementsGraph ==
    ASSUME ArIsConventional
    PROVE  Spec => ImplementsGraph
<1>1. Init => Graph!Init
  <2> SUFFICES ASSUME Init
               PROVE  Graph!Init
    OBVIOUS
  <2>1. edges = <<>> /\ DOMAIN types = {}
    BY DEF Init
  <2>2. AsSets(edges) = <<>> /\ 1..Len(edges) = {}
    BY <2>1 DEF AsSets
  <2> QED
    BY <2>1, <2>2 DEF Graph!Init
<1>2. ParseInv /\ [Next]_vars => [Graph!Next]_(Graph!vars)
  BY GraphStep
<1> QED
  BY <1>1, <1>2, ParseInductive, PTL DEF Spec, ImplementsGraph, Graph!Spec
=============================================================================
