------------------------ MODULE InterceptedExecProofs ------------------------
(***************************************************************************)
(* Proofs about the library that is loaded into every process: of module   *)
(* InterceptedExec, for any number of reprobuilds in each other, any       *)
(* programs and wrappers, and any number of calls; and of module GitClones *)
(* for any runs, clones and repositories.                                  *)
(***************************************************************************)
EXTENDS InterceptedExec, GitClones, FiniteSetTheorems, SequenceTheorems, TLAPS

(* What reprobuilds add. *)
Flags == {"-ffile-prefix-map", "-frandom-seed"} \X (Nat \ {0})
Words == Flags \cup {Word("-O2")} \cup {Word(Base[p]) : p \in Paths}
               \cup UNION {ToSet(a) : a \in Arguments}

(* As many reprobuilds of levels are around the processes of one.          *)
Rank(l, levels) == Cardinality({k \in levels : k <= l})

(* Word lists with the flags of every one of levels that is not cut off,   *)
(* the last of which are those of the innermost if none is.                *)
Full(x, levels) ==
    /\ \A l \in levels : 2 * Rank(l, levels) <= MaxFlags =>
          \A flag \in ToSet(CompOpts(l)) : \E k \in 1..Len(x) : x[k] = flag
    /\ levels # {} /\ 2 * Rank(Max(levels), levels) <= MaxFlags =>
          /\ Len(x) >= 2
          /\ x[Len(x) - 1] = CompOpts(Max(levels))[1]
          /\ x[Len(x)] = CompOpts(Max(levels))[2]

(* The flags of the reprobuilds from b + 1 to n, one after the other.      *)
Stack(f, b, n) ==
    /\ f \in Seq(Flags) /\ b \in Nat /\ n \in Nat /\ b <= n /\ Len(f) = 2 * (n - b)
    /\ \A l \in b+1..n : /\ f[2 * (l - b) - 1] = <<"-ffile-prefix-map", l>>
                        /\ f[2 * (l - b)] = <<"-frandom-seed", l>>

-----------------------------------------------------------------------------
(* Lists of words.                                                         *)

LEMMA FlagsAreWords == \A x \in Seq(Flags) : x \in Seq(Words)
BY SeqMonotonic DEF Words

LEMMA OfAll ==
    ASSUME NEW l
    PROVE  ToSet(CompOpts(l)) = {<<"-ffile-prefix-map", l>>, <<"-frandom-seed", l>>}
BY DEF CompOpts, ToSet

(* What is between the first word and the last ones.                       *)
LEMMA Middle ==
    ASSUME NEW w \in Words, NEW x \in Seq(Words), NEW g \in Seq(Words), NEW v, v = <<w>> \o x \o g
    PROVE  /\ v # <<>> /\ Head(v) = w /\ v[1] = w /\ Tail(v) = x \o g
           /\ SubSeq(v, 2, Len(v) - Len(g)) = x
<1>1. <<w>> \in Seq(Words) /\ Len(<<w>>) = 1 /\ x \o g \in Seq(Words)
      /\ Len(x) \in Nat /\ Len(g) \in Nat /\ Len(x \o g) = Len(x) + Len(g)
  BY ConcatProperties, LenProperties
<1>2. v = <<w>> \o (x \o g)
  BY <1>1, ConcatAssociative
<1>3. /\ v \in Seq(Words) /\ Len(v) = 1 + Len(x) + Len(g)
      /\ \A i \in 1..Len(v) : v[i] = IF i <= 1 THEN w ELSE (x \o g)[i - 1]
  BY <1>1, <1>2, ConcatProperties
<1>4. v # <<>> /\ v[1] = w /\ Head(v) = w
  BY <1>1, <1>3
<1>5. Tail(v) = x \o g
  <2>1. /\ Tail(v) \in Seq(Words) /\ Len(Tail(v)) = Len(v) - 1
        /\ \A i \in 1..Len(Tail(v)) : Tail(v)[i] = v[i + 1]
    BY <1>3, <1>4, HeadTailProperties
  <2>2. \A i \in 1..Len(Tail(v)) : Tail(v)[i] = (x \o g)[i]
    BY <1>1, <1>3, <2>1
  <2> QED
    BY <1>1, <1>3, <2>1, <2>2, SeqEqual
<1>6. SubSeq(v, 2, Len(v) - Len(g)) = x
  <2> DEFINE m == Len(v) - Len(g)
  <2>1. m = 1 + Len(x) /\ m \in Int /\ \A i \in 2..m : v[i] \in Words
    BY <1>1, <1>3, ElementOfSeq
  <2>2. /\ SubSeq(v, 2, m) \in Seq(Words) /\ Len(SubSeq(v, 2, m)) = Len(x)
        /\ \A i \in 1..Len(x) : SubSeq(v, 2, m)[i] = v[i + 1]
    <3>1. /\ SubSeq(v, 2, m) \in Seq(Words)
          /\ Len(SubSeq(v, 2, m)) = IF 2 <= m THEN m - 2 + 1 ELSE 0
          /\ \A i \in 1..m - 2 + 1 : SubSeq(v, 2, m)[i] = v[2 + i - 1]
      BY <2>1, SubSeqProperties
    <3> HIDE DEF m
    <3> QED
      BY <1>1, <2>1, <3>1
  <2>3. \A i \in 1..Len(x) : v[i + 1] = x[i]
    <3> SUFFICES ASSUME NEW i \in 1..Len(x)
                 PROVE  v[i + 1] = x[i]
      OBVIOUS
    <3>1. v[i + 1] = (x \o g)[i]
      BY <1>1, <1>3
    <3>2. (x \o g)[i] = x[i]
      BY <1>1, ConcatProperties
    <3> QED
      BY <3>1, <3>2
  <2> QED
    BY <2>2, <2>3, SeqEqual
<1> QED
  BY <1>4, <1>5, <1>6

LEMMA FullMore ==
    ASSUME NEW f \in Seq(Flags), NEW x \in Seq(Flags), NEW levels,
           Full(f, levels), x = <<>> \/ Full(x, levels)
    PROVE  f \o x \in Seq(Flags) /\ Full(f \o x, levels)
<1>1. /\ f \o x \in Seq(Flags) /\ Len(f) \in Nat /\ Len(x) \in Nat
      /\ Len(f \o x) = Len(f) + Len(x)
      /\ \A i \in 1..Len(f) + Len(x) : (f \o x)[i] = IF i <= Len(f) THEN f[i] ELSE x[i - Len(f)]
  BY ConcatProperties, LenProperties
<1>2. ASSUME NEW flag, NEW k \in 1..Len(f), f[k] = flag
      PROVE  \E j \in 1..Len(f \o x) : (f \o x)[j] = flag
  <2>1. k \in 1..Len(f \o x) /\ (f \o x)[k] = flag
    BY <1>1, <1>2
  <2> QED
    BY <2>1
<1>3. CASE x = <<>>
  BY <1>3, ConcatEmptySeq
<1>4. CASE Full(x, levels)
  <2>1. ASSUME levels # {}, 2 * Rank(Max(levels), levels) <= MaxFlags
        PROVE  /\ Len(f \o x) >= 2
               /\ (f \o x)[Len(f \o x) - 1] = CompOpts(Max(levels))[1]
               /\ (f \o x)[Len(f \o x)] = CompOpts(Max(levels))[2]
    <3>1. Len(x) >= 2 /\ x[Len(x) - 1] = CompOpts(Max(levels))[1] /\ x[Len(x)] = CompOpts(Max(levels))[2]
      BY <1>4, <2>1 DEF Full
    <3>2. (f \o x)[Len(f) + Len(x)] = x[Len(x)]
      BY <1>1, <3>1
    <3>3. (f \o x)[Len(f) + Len(x) - 1] = x[Len(x) - 1]
      BY <1>1, <3>1
    <3> QED
      BY <1>1, <3>1, <3>2, <3>3
  <2>2. \A l \in levels : 2 * Rank(l, levels) <= MaxFlags =>
           \A flag \in ToSet(CompOpts(l)) : \E k \in 1..Len(f) : f[k] = flag
    BY DEF Full
  <2> QED
    BY <1>1, <1>2, <2>1, <2>2 DEF Full
<1> QED
  BY <1>1, <1>3, <1>4

LEMMA TwoOf ==
    ASSUME NEW S, NEW a \in S, NEW b \in S
    PROVE  <<a, b>> \in Seq(S) /\ Len(<<a, b>>) = 2
OBVIOUS

LEMMA CompOptsAreFlags ==
    ASSUME NEW n \in Nat
    PROVE  CompOpts(n + 1) \in Seq(Flags) /\ Len(CompOpts(n + 1)) = 2
<1> DEFINE u == <<"-ffile-prefix-map", n + 1>>
           v == <<"-frandom-seed", n + 1>>
<1>1. u \in Flags /\ v \in Flags
  BY DEF Flags
<1>2. CompOpts(n + 1) = <<u, v>>
  BY DEF CompOpts
<1> HIDE DEF u, v
<1> QED
  BY <1>1, <1>2, TwoOf

LEMMA StackNext ==
    ASSUME NEW f, NEW b, NEW n, Stack(f, b, n)
    PROVE  Stack(f \o CompOpts(n + 1), b, n + 1)
<1> DEFINE o == CompOpts(n + 1)
           x == f \o o
<1>1. /\ o \in Seq(Flags) /\ Len(o) = 2 /\ n \in Nat /\ b \in Nat /\ b <= n
      /\ f \in Seq(Flags) /\ Len(f) = 2 * (n - b)
  BY CompOptsAreFlags DEF Stack
<1>2. o[1] = <<"-ffile-prefix-map", n + 1>> /\ o[2] = <<"-frandom-seed", n + 1>>
  BY DEF CompOpts
<1> HIDE DEF o
<1>3. /\ x \in Seq(Flags) /\ Len(x) = Len(f) + 2
      /\ \A i \in 1..Len(f) + 2 : x[i] = IF i <= Len(f) THEN f[i] ELSE o[i - Len(f)]
  <2>1. f \in Seq(Flags) /\ o \in Seq(Flags) /\ Len(o) = 2 /\ Len(f) \in Nat
    BY <1>1, LenProperties
  <2>2. /\ x \in Seq(Flags) /\ Len(x) = Len(f) + Len(o)
        /\ \A i \in 1..Len(f) + Len(o) : x[i] = IF i <= Len(f) THEN f[i] ELSE o[i - Len(f)]
    BY <2>1, ConcatProperties
  <2> QED
    BY <2>1, <2>2
<1> HIDE DEF x
<1>4. ASSUME NEW l \in b+1..n+1
      PROVE  /\ x[2 * (l - b) - 1] = <<"-ffile-prefix-map", l>>
             /\ x[2 * (l - b)] = <<"-frandom-seed", l>>
  <2>1. CASE l = n + 1
    <3>1. 2 * (l - b) - 1 = Len(f) + 1 /\ 2 * (l - b) = Len(f) + 2
      BY <1>1, <2>1
    <3>2. x[Len(f) + 1] = o[1] /\ x[Len(f) + 2] = o[2]
      BY <1>1, <1>3
    <3> QED
      BY <1>2, <2>1, <3>1, <3>2
  <2>2. CASE l # n + 1
    <3>1. l \in b+1..n
      BY <1>1, <2>2
    <3>2. 2 * (l - b) - 1 \in 1..Len(f) /\ 2 * (l - b) \in 1..Len(f)
      BY <1>1, <3>1
    <3>3. x[2 * (l - b) - 1] = f[2 * (l - b) - 1] /\ x[2 * (l - b)] = f[2 * (l - b)]
      BY <1>1, <1>3, <3>2
    <3> QED
      BY <3>1, <3>3 DEF Stack
  <2> QED
    BY <2>1, <2>2
<1>5. Len(x) = 2 * ((n + 1) - b) /\ b <= n + 1 /\ n + 1 \in Nat
  BY <1>1, <1>3
<1>6. Stack(x, b, n + 1)
  BY <1>1, <1>3, <1>4, <1>5 DEF Stack
<1> QED
  BY <1>6 DEF x, o

(* Among consecutive levels, the rank is the distance to the first.        *)
LEMMA RankIsDistance ==
    ASSUME NEW b \in Nat, NEW n \in Nat, NEW l \in b+1..n
    PROVE  Rank(l, b+1..n) = l - b
<1>1. {k \in b+1..n : k <= l} = b+1..l
  OBVIOUS
<1>2. Cardinality(b+1..l) = l - b
  <2>1. b + 1 \in Int /\ l \in Int /\ b + 1 <= l
    OBVIOUS
  <2>2. Cardinality(b+1..l) = IF b + 1 > l THEN 0 ELSE l - (b + 1) + 1
    BY <2>1, FS_Interval
  <2> QED
    BY <2>1, <2>2
<1> QED
  BY <1>1, <1>2 DEF Rank

(* What a library adds has the flags of every level that is not cut off.   *)
LEMMA CutIsFull ==
    ASSUME NEW f, NEW b, NEW n, Stack(f, b, n)
    PROVE  LET e == SubSeq(f, 1, Min({Len(f), MaxFlags}))
           IN  e \in Seq(Flags) /\ Full(e, b+1..n)
<1> DEFINE m == Min({Len(f), MaxFlags})
           e == SubSeq(f, 1, m)
           levels == b+1..n
<1>1. /\ f \in Seq(Flags) /\ b \in Nat /\ n \in Nat /\ b <= n /\ Len(f) = 2 * (n - b)
      /\ MaxFlags \in Nat
  BY ExecAssumption DEF Stack
<1>2. m \in {Len(f), MaxFlags} /\ m <= Len(f) /\ m <= MaxFlags
  <2>1. \E y \in {Len(f), MaxFlags} : \A z \in {Len(f), MaxFlags} : y <= z
    <3>1. CASE Len(f) <= MaxFlags
      BY <1>1, <3>1
    <3>2. CASE MaxFlags <= Len(f)
      BY <1>1, <3>2
    <3> QED
      BY <1>1, <3>1, <3>2
  <2> QED
    BY <2>1 DEF Min
<1>3. m \in Nat
  BY <1>1, <1>2
<1> HIDE DEF m
<1>4. e \in Seq(Flags) /\ Len(e) = m /\ \A i \in 1..m : e[i] = f[i]
  <2>1. m \in 0..Len(f)
    BY <1>1, <1>2, <1>3
  <2>2. \A i \in 1..m : f[i] \in Flags
    BY <1>1, <2>1, ElementOfSeq
  <2>3. /\ e \in Seq(Flags) /\ Len(e) = IF 1 <= m THEN m - 1 + 1 ELSE 0
        /\ \A i \in 1..m - 1 + 1 : e[i] = f[1 + i - 1]
    BY <1>1, <2>1, <2>2, SubSeqProperties
  <2> QED
    BY <1>3, <2>3
<1> HIDE DEF e
<1>5. ASSUME NEW l \in levels, 2 * Rank(l, levels) <= MaxFlags
      PROVE  /\ 2 * (l - b) \in 1..Len(e) /\ 2 * (l - b) - 1 \in 1..Len(e)
             /\ e[2 * (l - b) - 1] = <<"-ffile-prefix-map", l>> /\ e[2 * (l - b)] = <<"-frandom-seed", l>>
  <2>1. 2 * (l - b) <= MaxFlags /\ 2 * (l - b) <= Len(f) /\ 2 * (l - b) >= 2
    BY <1>1, <1>5, RankIsDistance
  <2>2. 2 * (l - b) \in 1..m /\ 2 * (l - b) - 1 \in 1..m
    BY <1>1, <1>2, <1>3, <2>1
  <2> QED
    BY <1>4, <2>2 DEF Stack
<1>6. ASSUME NEW l \in levels, 2 * Rank(l, levels) <= MaxFlags, NEW flag \in ToSet(CompOpts(l))
      PROVE  \E k \in 1..Len(e) : e[k] = flag
  BY <1>5, <1>6, OfAll
<1>7. ASSUME levels # {}, 2 * Rank(Max(levels), levels) <= MaxFlags
      PROVE  /\ Len(e) >= 2
             /\ e[Len(e) - 1] = CompOpts(Max(levels))[1]
             /\ e[Len(e)] = CompOpts(Max(levels))[2]
  <2>1. n \in levels /\ \A y \in levels : n >= y /\ y \in Nat
    BY <1>1, <1>7
  <2>2. Max(levels) = n
    <3>1. \A z \in levels : (\A y \in levels : z >= y) => z = n
      BY <2>1
    <3> HIDE DEF levels
    <3> QED
      BY <2>1, <3>1 DEF Max
  <2>3. 2 * (n - b) <= MaxFlags
    BY <1>1, <1>7, <2>1, <2>2, RankIsDistance
  <2>4. Len(e) = 2 * (n - b)
    BY <1>1, <1>2, <1>4, <2>3
  <2>5. e[2 * (n - b) - 1] = <<"-ffile-prefix-map", n>> /\ e[2 * (n - b)] = <<"-frandom-seed", n>>
    BY <1>5, <1>7, <2>1, <2>2
  <2>6. 2 * (n - b) >= 2
    BY <1>1, <2>1
  <2> QED
    BY <2>2, <2>4, <2>5, <2>6 DEF CompOpts
<1>8. Full(e, levels)
  <2> HIDE DEF levels
  <2> QED
    BY <1>6, <1>7 DEF Full
<1> QED
  BY <1>4, <1>8 DEF e, m

-----------------------------------------------------------------------------
(* The invariant.                                                          *)

(* The environment has the flags of all whose variables it has; libraries  *)
(* are loaded as it says, one for each reprobuild and one of a rebuild.    *)
FlagsOK == \E b \in 0..level : known = b+1..level /\ Stack(env.flags, b, level)

EnvOK ==
    /\ level \in 0..Depth /\ known \subseteq 1..level
    /\ FlagsOK
    /\ env.cflags \in Seq(Words)
    /\ env.preload \in Seq(Nat) /\ libs = Len(env.preload) /\ libs <= level + 1
    /\ env.stage \in {"unset", "build"} /\ env.epoch \in 0..level
    /\ given \in Seq(Words)

PcOK ==
    /\ pc \in {"running", "library", "cloned", "returned", "started"}
    /\ at \in 0..Depth+2 /\ calls \in 0..MaxCalls
    /\ pc = "library" => at \in 1..libs+1
    /\ pc = "cloned" => at \in 0..libs

(* A command line has x, whole sets of flags, before what was given.       *)
Extended(argv, path, x, args, levels) ==
    /\ path \in Paths /\ x \in Seq(Flags)
    /\ argv = <<Word(Base[path])>> \o x \o args
    /\ ~ShouldAddCompilerFlags(path) => x = <<>>
    /\ x = <<>> \/ Full(x, levels)

(* Once a library has been passed, the flags are there.                    *)
CallOK ==
    /\ \E f, p, a, e : call = [fn |-> f, path |-> p, argv |-> a, empty |-> e]
    /\ pc = "library" =>
          \E x : /\ Extended(call.argv, call.path, x, given, known)
                 /\ at > 1 /\ ShouldAddCompilerFlags(call.path) => Full(x, known)

(* What was given to a wrapper is what the real program will be given.     *)
ImageOK ==
    /\ pc = "started" \/ image.path \in DOMAIN Wrappers =>
          \E x : /\ Extended(image.argv, image.path, x, given, known)
                 /\ pc = "started" /\ ShouldAddCompilerFlags(image.path) /\ image.due # {} =>
                       Full(x, image.due)

ExecInv == EnvOK /\ PcOK /\ CallOK /\ ImageOK

LEMMA InitExecInv == Init => ExecInv
<1> SUFFICES ASSUME Init
             PROVE  ExecInv
  OBVIOUS
<1>1. /\ env.flags = <<>> /\ env.stage = "unset" /\ env.epoch = 0
      /\ env.cflags \in {<<>>, <<Word("-O2")>>} /\ env.preload \in {<<>>, <<0>>}
  BY DEF Init, NoEnvironment
<1>2. EnvOK
  <2>1. <<Word("-O2")>> \in Seq(Words) /\ <<>> \in Seq(Words)
    <3>1. Word("-O2") \in Words
      BY DEF Words
    <3> QED
      BY <3>1
  <2>2. /\ <<0>> \in Seq(Nat) /\ <<>> \in Seq(Nat) /\ <<>> \in Seq(Flags)
        /\ Len(<<0>>) = 1 /\ Len(<<>>) = 0
    OBVIOUS
  <2>3. env.cflags \in Seq(Words) /\ env.preload \in Seq(Nat) /\ Len(env.preload) \in {0, 1}
    BY <1>1, <2>1, <2>2
  <2>4. known = {} /\ level = 0 /\ libs = Len(env.preload) /\ given = <<>>
    BY DEF Init
  <2>5. FlagsOK
    <3>1. Stack(env.flags, 0, 0) /\ 0+1..0 = {}
      BY <1>1, <2>2 DEF Stack
    <3> QED
      BY <2>4, <3>1 DEF FlagsOK
  <2>6. level \in 0..Depth /\ known \subseteq 1..level /\ env.epoch \in 0..level
    <3>1. env.epoch = 0 /\ Depth \in Nat
      BY <1>1, ExecAssumption
    <3> QED
      BY <2>4, <3>1
  <2>8. libs <= level + 1
    <3>1. libs = 0 \/ libs = 1
      BY <2>3, <2>4
    <3>2. level = 0
      BY <2>4
    <3> QED
      BY <3>1, <3>2
  <2>7. /\ env.stage \in {"unset", "build"}
        /\ given \in Seq(Words)
    BY <1>1, <2>1, <2>2, <2>4
  <2> QED
    BY <2>3, <2>4, <2>5, <2>6, <2>7, <2>8 DEF EnvOK
<1>3. PcOK
  <2>1. pc = "running" /\ at = 0 /\ calls = 0
    BY DEF Init
  <2>2. Depth \in Nat /\ MaxCalls \in Nat
    BY ExecAssumption
  <2> QED
    BY <2>1, <2>2 DEF PcOK
<1>4. CallOK
  BY DEF Init, CallOK, NoCall
<1>5. image.path \notin DOMAIN Wrappers /\ pc = "running"
  BY ExecAssumption DEF Init, Shell
<1> QED
  BY <1>2, <1>3, <1>4, <1>5 DEF ExecInv, ImageOK

-----------------------------------------------------------------------------
LEMMA EnvironmentsStep ==
    ASSUME ExecInv, [Next]_vars
    PROVE  EnvOK'
<1> USE DEF ExecInv
<1>1. CASE Reprobuild
  <2>1. /\ level' = level + 1 /\ known' = known \cup {level + 1} /\ level + 1 \in 0..Depth
        /\ level \in Nat /\ libs' = Len(env'.preload) /\ given' = <<>>
    BY <1>1, ExecAssumption DEF Reprobuild, EnvOK
  <2>2. PICK dated, extracted \in BOOLEAN :
           env' = PrepareBuildEnvironment(level + 1, dated, extracted)
    BY <1>1 DEF Reprobuild
  <2>3. /\ env'.flags = env.flags \o CompOpts(level + 1)
        /\ env'.cflags = env.cflags \o CompOpts(level + 1)
        /\ env'.preload \in {env.preload, env.preload \o <<level + 1>>}
        /\ env'.stage = "build" /\ env'.epoch \in {level + 1, env.epoch}
    BY <2>2 DEF PrepareBuildEnvironment, AppendEnvVar
  <2>4. FlagsOK'
    <3>1. PICK b \in 0..level : known = b+1..level /\ Stack(env.flags, b, level)
      BY DEF EnvOK, FlagsOK
    <3>2. b \in 0..level' /\ known' = b+1..level'
      BY <2>1, <3>1
    <3>3. Stack(env'.flags, b, level')
      BY <2>1, <2>3, <3>1, StackNext
    <3> QED
      BY <3>2, <3>3 DEF FlagsOK
  <2>5. env'.cflags \in Seq(Words)
    <3>1. CompOpts(level + 1) \in Seq(Flags)
      BY <2>1, CompOptsAreFlags
    <3>2. CompOpts(level + 1) \in Seq(Words)
      BY <3>1, FlagsAreWords
    <3> QED
      BY <2>3, <3>2, ConcatProperties DEF EnvOK
  <2>6. env'.preload \in Seq(Nat) /\ Len(env'.preload) <= level + 2
    <3>1. env.preload \in Seq(Nat) /\ Len(env.preload) <= level + 1 /\ <<level + 1>> \in Seq(Nat)
          /\ Len(<<level + 1>>) = 1
      BY <2>1 DEF EnvOK
    <3>2. /\ env.preload \o <<level + 1>> \in Seq(Nat)
          /\ Len(env.preload \o <<level + 1>>) = Len(env.preload) + 1
      BY <3>1, ConcatProperties
    <3>3. Len(env.preload) \in Nat
      BY <3>1, LenProperties
    <3>4. CASE env'.preload = env.preload
      BY <2>1, <3>1, <3>3, <3>4
    <3>5. CASE env'.preload = env.preload \o <<level + 1>>
      BY <2>1, <3>1, <3>2, <3>3, <3>5
    <3> QED
      BY <2>3, <3>4, <3>5
  <2>7. level' \in 0..Depth /\ known' \subseteq 1..level' /\ given' \in Seq(Words)
    <3>1. level \in Nat /\ known \subseteq 1..level
      BY <2>1 DEF EnvOK
    <3>2. given' \in Seq(Words)
      BY <2>1
    <3> QED
      BY <2>1, <3>1, <3>2
  <2>8. libs' = Len(env'.preload) /\ libs' <= level' + 1
    BY <2>1, <2>3, <2>6
  <2>9. env'.stage \in {"unset", "build"} /\ env'.epoch \in 0..level'
    <3>1. env.epoch \in 0..level
      BY DEF EnvOK
    <3> QED
      BY <2>1, <2>3, <3>1
  <2> QED
    BY <2>4, <2>5, <2>6, <2>7, <2>8, <2>9 DEF EnvOK
<1>2. ASSUME NEW fn, NEW path, NEW args \in Arguments, NEW e, Run(fn, path, args, e)
      PROVE  EnvOK'
  <2>1. args \in Seq(Words) /\ env.cflags \in Seq(Words)
    <3>1. args \in Seq(ToSet(args)) /\ ToSet(args) \subseteq Words
      BY ExecAssumption DEF Words
    <3> QED
      BY <3>1, SeqMonotonic DEF EnvOK
  <2>2. given' \in Seq(Words) /\ UNCHANGED <<level, known, env, libs>>
    BY <1>2, <2>1, ConcatProperties DEF Run, Calls, processVars
  <2> QED
    BY <2>2 DEF EnvOK, FlagsOK
<1>3. CASE Exec
  <2>1. UNCHANGED <<level, given>> /\ libs' = Len(env'.preload)
    BY <1>3 DEF Exec
  <2>2. CASE env' = env /\ known' = known
    BY <2>1, <2>2 DEF EnvOK, FlagsOK
  <2>3. CASE env' = NoEnvironment /\ known' = {}
    <3>1. /\ env'.flags = <<>> /\ env'.cflags = <<>> /\ env'.preload = <<>>
          /\ env'.stage = "unset" /\ env'.epoch = 0
      BY <2>3 DEF NoEnvironment
    <3>2. level \in 0..level' /\ known' = level+1..level' /\ Stack(env'.flags, level, level')
      <4>1. level \in Nat /\ level' = level /\ level+1..level = {} /\ Len(<<>>) = 0 /\ <<>> \in Seq(Flags)
        BY <2>1, ExecAssumption, EmptySeq DEF EnvOK
      <4>2. Stack(<<>>, level, level)
        BY <4>1 DEF Stack
      <4> QED
        BY <2>3, <3>1, <4>1, <4>2
    <3>3. FlagsOK'
      BY <3>2 DEF FlagsOK
    <3> QED
      BY <2>1, <2>3, <3>1, <3>3 DEF EnvOK
  <2> QED
    BY <1>3, <2>2, <2>3 DEF Exec
<1>4. ASSUME NEW p, TryNext(p)
      PROVE  EnvOK'
  BY <1>4 DEF TryNext, Calls, processVars, EnvOK, FlagsOK
<1>5. CASE RunReal \/ GiveUp \/ Continue \/ PassOn \/ ClonePassed \/ RunGit \/ HandleGitClone
           \/ CloneReturns \/ NoSuchFile
  BY <1>5 DEF RunReal, Calls, GiveUp, Continue, PassOn, ClonePassed, RunGit, HandleGitClone,
              CloneReturns, NoSuchFile, processVars, EnvOK, FlagsOK
<1>6. CASE UNCHANGED vars
  BY <1>6 DEF vars, EnvOK, FlagsOK
<1> QED
  BY <1>1, <1>2, <1>3, <1>4, <1>5, <1>6 DEF Next, Done

LEMMA PlacesStep ==
    ASSUME ExecInv, [Next]_vars
    PROVE  PcOK'
<1>1. level \in Nat /\ Depth \in Nat /\ libs \in 0..Depth+1 /\ MaxCalls \in Nat
  <2>1. Len(env.preload) \in Nat
    BY LenProperties DEF ExecInv, EnvOK
  <2> QED
    BY <2>1, ExecAssumption DEF ExecInv, EnvOK
<1> USE DEF ExecInv
<1>2. CASE Reprobuild
  BY <1>2 DEF Reprobuild, PcOK
<1>3. ASSUME NEW fn, NEW path, NEW argv, NEW e, Calls(fn, path, argv, e)
      PROVE  PcOK'
  BY <1>1, <1>3 DEF Calls, PcOK, processVars
<1>4. CASE GiveUp \/ Continue \/ PassOn \/ ClonePassed
  BY <1>1, <1>4 DEF GiveUp, Continue, PassOn, ClonePassed, InLibrary, PcOK, processVars
<1>5. CASE RunGit
  <2>1. pc' = "cloned" /\ at' = libs /\ UNCHANGED libs /\ calls' = calls
    BY <1>5 DEF RunGit, processVars
  <2> QED
    BY <1>1, <2>1 DEF PcOK
<1>8. CASE HandleGitClone \/ CloneReturns \/ NoSuchFile
  <2>1. /\ UNCHANGED libs /\ calls' = calls
        /\ \/ at' = at
           \/ at > 0 /\ at' = at - 1 /\ pc = "cloned"
        /\ \/ pc' = pc /\ pc = "cloned"
           \/ pc' = "returned"
    BY <1>8 DEF HandleGitClone, CloneReturns, NoSuchFile, processVars
  <2> QED
    BY <1>1, <2>1 DEF PcOK
<1>6. CASE Exec
  BY <1>6 DEF Exec, PcOK
<1>7. CASE UNCHANGED vars
  BY <1>7 DEF vars, PcOK
<1> QED
  BY <1>2, <1>3, <1>4, <1>5, <1>6, <1>7, <1>8 DEF Next, Done, Run, RunReal, TryNext

-----------------------------------------------------------------------------
(* A command line as the first library gets it.                            *)
LEMMA PlainCall ==
    ASSUME NEW path \in Paths, NEW args \in Seq(Words), NEW levels
    PROVE  Extended(<<Word(Base[path])>> \o args, path, <<>>, args, levels)
<1>1. <<Word(Base[path])>> \in Seq(Words)
  <2>1. Word(Base[path]) \in Words
    BY DEF Words
  <2> QED
    BY <2>1
<1>2. <<Word(Base[path])>> \o <<>> = <<Word(Base[path])>>
  BY <1>1, ConcatEmptySeq
<1> QED
  BY <1>2, EmptySeq DEF Extended

(* A library adds the flags again, in front.                               *)
LEMMA MoreFlags ==
    ASSUME EnvOK, NEW argv, NEW path, NEW x, Extended(argv, path, x, given, known),
           ShouldAddCompilerFlags(path)
    PROVE  /\ Extended(AddArguments(argv), path, ExtraArgs \o x, given, known)
           /\ Full(ExtraArgs \o x, known)
<1> DEFINE w == Word(Base[path])
           f == ExtraArgs
<1>0. f \in Seq(Flags) /\ Full(f, known)
  BY CutIsFull DEF EnvOK, FlagsOK, ExtraArgs
<1>1. /\ w \in Words /\ x \in Seq(Words) /\ f \in Seq(Words) /\ given \in Seq(Words)
      /\ x \in Seq(Flags) /\ f \in Seq(Flags) /\ argv = <<w>> \o x \o given
  BY <1>0, FlagsAreWords DEF EnvOK, Extended, Words
<1> HIDE DEF w, f
<1>2. Head(argv) = w /\ Tail(argv) = x \o given
  BY <1>1, Middle
<1>3. AddArguments(argv) = <<w>> \o f \o (x \o given)
  BY <1>2 DEF AddArguments, f
<1>4. <<w>> \o f \o (x \o given) = <<w>> \o (f \o x) \o given
  <2>1. <<w>> \in Seq(Words) /\ <<w>> \o f \in Seq(Words) /\ f \o x \in Seq(Words)
    BY <1>1, ConcatProperties
  <2>2. <<w>> \o f \o (x \o given) = (<<w>> \o f \o x) \o given
    BY <1>1, <2>1, ConcatAssociative
  <2>3. <<w>> \o f \o x = <<w>> \o (f \o x)
    BY <1>1, <2>1, ConcatAssociative
  <2> QED
    BY <2>2, <2>3
<1>5. f \o x \in Seq(Flags) /\ Full(f \o x, known)
  BY <1>0, <1>1, FullMore DEF Extended
<1> QED
  BY <1>3, <1>4, <1>5 DEF Extended, f, w

LEMMA CallsStep ==
    ASSUME ExecInv, [Next]_vars
    PROVE  CallOK'
<1> USE DEF ExecInv
<1>0. EnvOK'
  BY EnvironmentsStep
<1>1. ASSUME NEW fn, NEW path, NEW argv, NEW e, Calls(fn, path, argv, e),
             NEW x, Extended(argv, path, x, given', known')
      PROVE  CallOK'
  <2>1. call' = [fn |-> fn, path |-> path, argv |-> argv, empty |-> e] /\ at' = 1
    BY <1>1 DEF Calls
  <2>2. call'.argv = argv /\ call'.path = path
    BY <2>1
  <2>3. \E f, p, a, d : call' = [fn |-> f, path |-> p, argv |-> a, empty |-> d]
    BY <2>1
  <2>4. /\ Extended(call'.argv, call'.path, x, given', known')
        /\ ~(at' > 1)
    BY <1>1, <2>1, <2>2
  <2> HIDE DEF ExecInv
  <2> QED
    BY <2>3, <2>4 DEF CallOK
<1>2. ASSUME NEW fn, NEW path \in Paths, NEW args \in Arguments, NEW e, Run(fn, path, args, e)
      PROVE  CallOK'
  <2>1. Calls(fn, path, <<Word(Base[path])>> \o given', e)
    BY <1>2 DEF Run
  <2>2. Extended(<<Word(Base[path])>> \o given', path, <<>>, given', known')
    BY <1>0, PlainCall DEF EnvOK
  <2> QED
    BY <1>1, <2>1, <2>2
<1>3. CASE RunReal
  <2> DEFINE p == image.path
  <2>1. p \in DOMAIN Wrappers /\ Wrappers[p] \in Paths /\ Base[Wrappers[p]] = Base[p]
    BY <1>3, ExecAssumption DEF RunReal
  <2>2. PICK x : Extended(image.argv, p, x, given, known)
    BY <2>1 DEF ImageOK
  <2>3. Extended(image.argv, Wrappers[p], x, given, known)
    BY <2>1, <2>2 DEF Extended, ShouldAddCompilerFlags
  <2>4. UNCHANGED <<given, known>> /\ Calls("exec", Wrappers[p], image.argv, FALSE)
    BY <1>3 DEF RunReal, Calls, processVars
  <2>5. Extended(image.argv, Wrappers[p], x, given', known')
    BY <2>3, <2>4
  <2> QED
    BY <1>1, <2>4, <2>5
<1>4. ASSUME NEW path \in Paths, TryNext(path)
      PROVE  CallOK'
  <2>1. Calls("exec", path, <<Word(Base[path])>> \o given', call.empty)
    BY <1>4 DEF TryNext
  <2>2. Extended(<<Word(Base[path])>> \o given', path, <<>>, given', known')
    BY <1>0, PlainCall DEF EnvOK
  <2> QED
    BY <1>1, <2>1, <2>2
<1>5. CASE PassOn
  <2>1. pc = "library" /\ pc' = pc /\ UNCHANGED <<given, known>>
    BY <1>5 DEF PassOn, InLibrary, processVars
  <2>2. PICK x : Extended(call.argv, call.path, x, given, known)
    BY <2>1 DEF CallOK
  <2>3. CASE ShouldAddCompilerFlags(call.path)
    <3>1. call' = [call EXCEPT !.argv = AddArguments(@)]
      BY <1>5, <2>3 DEF PassOn
    <3>2. PICK f, p, a, e : call = [fn |-> f, path |-> p, argv |-> a, empty |-> e]
      BY DEF CallOK
    <3>3. call' = [fn |-> f, path |-> p, argv |-> AddArguments(a), empty |-> e]
      BY <3>1, <3>2
    <3>4. call'.path = call.path /\ call'.argv = AddArguments(call.argv)
      BY <3>2, <3>3
    <3>5. Extended(AddArguments(call.argv), call.path, ExtraArgs \o x, given, known) /\ Full(ExtraArgs \o x, known)
      BY <2>2, <2>3, MoreFlags
    <3> QED
      BY <2>1, <3>3, <3>4, <3>5 DEF CallOK
  <2>4. CASE ~ShouldAddCompilerFlags(call.path)
    <3>1. call' = call
      BY <1>5, <2>4 DEF PassOn
    <3> QED
      BY <2>1, <2>2, <2>4, <3>1 DEF CallOK
  <2> QED
    BY <2>3, <2>4
<1>6. CASE ClonePassed
  <2>1. pc = "library" /\ UNCHANGED <<pc, given, known, call>> /\ IsClone(call.argv)
    BY <1>6 DEF ClonePassed, InLibrary, processVars
  <2>2. PICK x : Extended(call.argv, call.path, x, given, known)
    BY <2>1 DEF CallOK
  <2>3. call.argv[1] = Word(Base[call.path])
    <3>1. Word(Base[call.path]) \in Words /\ x \in Seq(Words) /\ given \in Seq(Words)
      BY <2>2, FlagsAreWords DEF Extended, EnvOK, Words
    <3> QED
      BY <2>2, <3>1, Middle DEF Extended
  <2>4. Base[call.path] = "git"
    BY <2>1, <2>3 DEF IsClone, Word
  <2>5. ~ShouldAddCompilerFlags(call.path)
    BY <2>4 DEF ShouldAddCompilerFlags
  <2> QED
    BY <2>1, <2>2, <2>5 DEF CallOK
<1>7. CASE Reprobuild \/ GiveUp \/ Continue \/ RunGit
  BY <1>7 DEF Reprobuild, GiveUp, Continue, RunGit, NoCall, CallOK
<1>8. CASE HandleGitClone \/ CloneReturns \/ Exec \/ NoSuchFile
  BY <1>8 DEF HandleGitClone, CloneReturns, Exec, NoSuchFile, CallOK
<1>9. CASE UNCHANGED vars
  BY <1>9 DEF vars, CallOK
<1> QED
  BY <1>2, <1>3, <1>4, <1>5, <1>6, <1>7, <1>8, <1>9 DEF Next, Done

LEMMA ImagesStep ==
    ASSUME ExecInv, [Next]_vars
    PROVE  ImageOK'
<1> USE DEF ExecInv
<1>1. ASSUME UNCHANGED <<image, given, known>>, pc' # "started" \/ pc = "started"
      PROVE  ImageOK'
  BY <1>1 DEF ImageOK
<1>2. CASE Reprobuild
  BY <1>2, ExecAssumption DEF Reprobuild, ImageOK, Shell
<1>3. ASSUME NEW fn, NEW path, NEW args, NEW e, Run(fn, path, args, e)
      PROVE  ImageOK'
  BY <1>3 DEF Run, Calls, ImageOK
<1>4. CASE Exec
  <2>1. pc = "library" /\ at > libs
    BY <1>4 DEF Exec, AtKernel
  <2>2. PICK x : /\ Extended(call.argv, call.path, x, given, known)
                 /\ at > 1 /\ ShouldAddCompilerFlags(call.path) => Full(x, known)
    BY <2>1 DEF CallOK
  <2>3. /\ image'.path = call.path /\ image'.argv = call.argv
        /\ image'.due = IF libs = 0 THEN {} ELSE known
        /\ given' = given /\ known' \in {known, {}}
    BY <1>4 DEF Exec
  <2>4. Extended(image'.argv, image'.path, x, given', known')
    <3>1. Full(x, {})
      BY DEF Full
    <3> QED
      BY <2>2, <2>3, <3>1 DEF Extended
  <2>5. ShouldAddCompilerFlags(call.path) /\ image'.due # {} => Full(x, image'.due)
    <3>1. libs \in Nat
      BY LenProperties DEF EnvOK
    <3> QED
      BY <2>1, <2>2, <2>3, <3>1 DEF PcOK
  <2> QED
    BY <2>3, <2>4, <2>5 DEF ImageOK
<1>5. CASE RunReal \/ GiveUp \/ Continue \/ PassOn \/ ClonePassed
  BY <1>1, <1>5 DEF RunReal, Calls, GiveUp, Continue, PassOn, ClonePassed, processVars
<1>6. CASE RunGit \/ HandleGitClone \/ CloneReturns \/ NoSuchFile
  BY <1>1, <1>6 DEF RunGit, HandleGitClone, CloneReturns, NoSuchFile, processVars
<1>7. ASSUME NEW p, TryNext(p)
      PROVE  ImageOK'
  BY <1>1, <1>7 DEF TryNext, Calls, processVars
<1>8. CASE UNCHANGED vars
  BY <1>1, <1>8 DEF vars
<1> QED
  BY <1>2, <1>3, <1>4, <1>5, <1>6, <1>7, <1>8 DEF Next, Done

LEMMA SpecExecInv == Spec => []ExecInv
<1>1. ExecInv /\ [Next]_vars => ExecInv'
  BY EnvironmentsStep, PlacesStep, CallsStep, ImagesStep DEF ExecInv
<1> QED
  BY <1>1, InitExecInv, PTL DEF Spec

LEMMA AddedIsBetween ==
    ASSUME EnvOK, NEW x, Extended(image.argv, image.path, x, given, known)
    PROVE  Added = x /\ image.argv = <<Word(Base[image.path])>> \o Added \o given
<1>1. Word(Base[image.path]) \in Words /\ x \in Seq(Words) /\ given \in Seq(Words)
  BY FlagsAreWords DEF Extended, EnvOK, Words
<1>2. image.argv = <<Word(Base[image.path])>> \o x \o given
  BY DEF Extended
<1>3. SubSeq(image.argv, 2, Len(image.argv) - Len(given)) = x
  BY <1>1, <1>2, Middle
<1> QED
  BY <1>2, <1>3 DEF Added

(* The places of a call, the libraries and the environment keep their      *)
(* types; an argv begins with the name of the program.                     *)
THEOREM ExecTypes == Spec => []TypeOK
<1>1. ExecInv => TypeOK
  <2> SUFFICES ASSUME ExecInv
               PROVE  TypeOK
    OBVIOUS
  <2>1. EnvOK /\ PcOK
    BY DEF ExecInv
  <2>2. libs \in 0..Depth+1
    <3>1. Len(env.preload) \in Nat
      BY <2>1, LenProperties DEF EnvOK
    <3> QED
      BY <2>1, <3>1, ExecAssumption DEF EnvOK
  <2>3. ASSUME pc = "library"
        PROVE  Head(call.argv) = Word(Base[call.path])
    <3>1. PICK x : Extended(call.argv, call.path, x, given, known)
      BY <2>3 DEF ExecInv, CallOK
    <3>2. Word(Base[call.path]) \in Words /\ x \in Seq(Words) /\ given \in Seq(Words)
      BY <2>1, <3>1, FlagsAreWords DEF Extended, EnvOK, Words
    <3> QED
      BY <3>1, <3>2, Middle DEF Extended
  <2> QED
    BY <2>1, <2>2, <2>3 DEF TypeOK, EnvOK, PcOK
<1> QED
  BY <1>1, SpecExecInv, PTL

(* Every program gets what it was given, all of it, in order and last;     *)
(* what is added is of reprobuild, and only compilers get it.              *)
THEOREM ArgumentsAreKept == Spec => []ArgsKept
<1>1. ExecInv => ArgsKept
  <2> SUFFICES ASSUME ExecInv, pc = "started"
               PROVE  /\ image.argv = <<Word(Base[image.path])>> \o Added \o given
                      /\ \A k \in 1..Len(Added) : Added[k][2] > 0
                      /\ ~ShouldAddCompilerFlags(image.path) => Added = <<>>
    BY DEF ArgsKept
  <2>1. PICK x : Extended(image.argv, image.path, x, given, known)
    BY DEF ExecInv, ImageOK
  <2>2. Added = x /\ image.argv = <<Word(Base[image.path])>> \o Added \o given
    BY <2>1, AddedIsBetween DEF ExecInv
  <2>3. \A k \in 1..Len(x) : x[k] \in Flags
    BY <2>1, ElementOfSeq DEF Extended
  <2>4. \A flag \in Flags : flag[2] > 0
    BY DEF Flags
  <2> QED
    BY <2>1, <2>2, <2>3, <2>4 DEF Extended
<1> QED
  BY <1>1, SpecExecInv, PTL

(* A compiler gets the flags of every reprobuild around it that a library  *)
(* has room for; if it has room for all, those of the innermost are last.  *)
THEOREM EveryLevelIsHeard == Spec => []EveryLevelsFlags
<1>1. ExecInv => EveryLevelsFlags
  <2> SUFFICES ASSUME ExecInv, pc = "started", ShouldAddCompilerFlags(image.path),
                      NEW l \in image.due, NEW flag \in ToSet(CompOpts(l)),
                      2 * Rank(l, image.due) <= MaxFlags
               PROVE  \E k \in 1..Len(Added) :
                         /\ Added[k] = flag
                         /\ l = Max(image.due) => \A j \in k+1..Len(Added) : Added[j][1] # flag[1]
    BY DEF EveryLevelsFlags, Rank
  <2>1. PICK x : /\ Extended(image.argv, image.path, x, given, known)
                 /\ Full(x, image.due)
    BY DEF ExecInv, ImageOK
  <2>2. Added = x
    BY <2>1, AddedIsBetween DEF ExecInv
  <2>3. Len(x) \in Nat
    BY <2>1, LenProperties DEF Extended
  <2>4. CASE l # Max(image.due)
    BY <2>1, <2>2, <2>4 DEF Full
  <2>5. CASE l = Max(image.due)
    <3>1. /\ x[Len(x) - 1] = <<"-ffile-prefix-map", l>> /\ x[Len(x)] = <<"-frandom-seed", l>>
          /\ Len(x) >= 2
      BY <2>1, <2>5 DEF Full, CompOpts
    <3>2. CASE flag = <<"-ffile-prefix-map", l>>
      <4>1. Len(x) - 1 \in 1..Len(x) /\ \A j \in Len(x) - 1 + 1..Len(x) : j = Len(x)
        BY <2>3, <3>1
      <4>2. \A j \in Len(x) - 1 + 1..Len(x) : x[j][1] # flag[1]
        BY <3>1, <3>2, <4>1
      <4> QED
        BY <2>2, <3>1, <3>2, <4>1, <4>2
    <3>3. CASE flag = <<"-frandom-seed", l>>
      <4>1. Len(x) \in 1..Len(x) /\ Len(x) + 1..Len(x) = {}
        BY <2>3, <3>1
      <4> QED
        BY <2>2, <3>1, <3>3, <4>1
    <3> QED
      BY <3>2, <3>3, OfAll
  <2> QED
    BY <2>4, <2>5
<1> QED
  BY <1>1, SpecExecInv, PTL

-----------------------------------------------------------------------------
(* Clones and their lines.                                                 *)

LinesOf(k) == {l \in logs : l.call = k}

LineDue(c) == c.by > 0 /\ c.stage = "build" /\ Len(c.log) = 1 /\ ~c.bare
LineFor(c) == [file |-> c.log, url |-> c.url, commit |-> "commit", by |-> c.by, call |-> c.call]

Settled(c) == LinesOf(c.call) = IF LineDue(c) THEN {LineFor(c)} ELSE {}

(* The call under way has made no clone and has no line before git runs.   *)
Fresh == (\A c \in clones : c.call # calls) /\ LinesOf(calls) = {}

(* What a line says of the clone of its call, if there is one.             *)
LineOK(l) ==
    IF l.commit = "commit"
    THEN \E c \in clones : c.call = l.call /\ c.url = l.url /\ c.log = l.file
    ELSE \A c \in clones : c.call # l.call

(* Every clone has the line it should have, but for one that was announced *)
(* and whose output the innermost library is yet to see.                   *)
Announced ==
    /\ pc = "cloned" /\ at = libs /\ libs > 0 /\ LinesOf(calls) = {}
    /\ \A c \in clones : c.call = calls => c = Made /\ ~c.bare

LogsOK ==
    /\ \A c \in clones : c.call \in 0..calls
    /\ \A l \in logs : l.call \in 0..calls /\ LineOK(l)
    /\ \A c, d \in clones : c.call = d.call => c = d
    /\ \A l, m \in logs : l.call = m.call => l = m
    /\ pc = "library" => Fresh
    /\ output = "Cloning into" => Announced
    /\ \A c \in clones : (output = "Cloning into" /\ c.call = calls) \/ Settled(c)

LEMMA InitLogs == Init => LogsOK
BY DEF Init, LogsOK

LEMMA QuietLogs ==
    ASSUME LogsOK, UNCHANGED <<logs, clones, output, calls>>, output # "Cloning into",
           pc' = "library" => pc = "library"
    PROVE  LogsOK'
BY DEF LogsOK, Settled, LineDue, LineFor, LinesOf, LineOK, Fresh

LEMMA CallsAreNat == PcOK => calls \in Nat
<1>1. MaxCalls \in Nat
  BY ExecAssumption
<1> QED
  BY <1>1 DEF PcOK

LEMMA OneMore ==
    ASSUME NEW n \in Nat
    PROVE  n \in 0..n /\ \A k \in 0..n : k \in 0..n+1 /\ k # n + 1
OBVIOUS

LEMMA CallsLogs ==
    ASSUME LogsOK, PcOK, NEW fn, NEW path, NEW argv, NEW e, Calls(fn, path, argv, e),
           output # "Cloning into"
    PROVE  LogsOK'
<1>1. calls' = calls + 1 /\ calls \in Nat /\ UNCHANGED <<output, clones, logs>>
  BY CallsAreNat DEF Calls
<1>2. \A k \in 0..calls : k \in 0..calls' /\ k # calls'
  BY <1>1, OneMore
<1>3. Fresh'
  <2>1. /\ \A c \in clones : c.call # calls'
        /\ \A l \in logs : l.call # calls'
    BY <1>2 DEF LogsOK
  <2> QED
    BY <1>1, <2>1 DEF Fresh, LinesOf
<1> QED
  BY <1>1, <1>2, <1>3 DEF LogsOK, Settled, LineDue, LineFor, LinesOf, LineOK

(* A clone is made before there is any line of its call. *)
LEMMA NewClone ==
    ASSUME LogsOK, PcOK, Fresh, NEW m, m.call = calls, output # "Cloning into"
    PROVE  /\ \A c \in clones \cup {m} : c.call \in 0..calls
           /\ \A c, d \in clones \cup {m} : c.call = d.call => c = d
           /\ \A c \in clones : Settled(c)
           /\ \A l \in logs :
                IF l.commit = "commit"
                THEN \E c \in clones \cup {m} : c.call = l.call /\ c.url = l.url /\ c.log = l.file
                ELSE \A c \in clones \cup {m} : c.call # l.call
<1>1. calls \in 0..calls
  BY CallsAreNat, OneMore
<1>2. \A l \in logs : l.call # calls
  BY DEF Fresh, LinesOf
<1> QED
  BY <1>1, <1>2 DEF LogsOK, Fresh, LineOK

LEMMA RunGitLogs ==
    ASSUME LogsOK, PcOK, RunGit
    PROVE  LogsOK'
<1>1. /\ Fresh /\ output # "Cloning into" /\ UNCHANGED <<logs, calls, env, libs, call>>
      /\ pc' = "cloned" /\ at' = libs /\ libs > 0
  BY DEF RunGit, LogsOK, processVars, Announced
<1>2. \A c : Settled(c)' <=> Settled(c)
  BY <1>1 DEF Settled, LineDue, LineFor, LinesOf
<1>3. CASE CanClone /\ output' = Announcement(call.argv) /\ clones' = clones \cup {Made}
  <2>0. PICK m : m = Made
    OBVIOUS
  <2>1. Made' = Made /\ m.bare = IsBare(call.argv)
    BY <1>1, <2>0 DEF Made
  <2>2. m.call = calls /\ clones' = clones \cup {m} /\ m = Made'
    BY <1>3, <2>0, <2>1 DEF Made
  <2>a. /\ \A c \in clones \cup {m} : c.call \in 0..calls
        /\ \A c, d \in clones \cup {m} : c.call = d.call => c = d
        /\ \A c \in clones : Settled(c)
        /\ \A l \in logs :
             IF l.commit = "commit"
             THEN \E c \in clones \cup {m} : c.call = l.call /\ c.url = l.url /\ c.log = l.file
             ELSE \A c \in clones \cup {m} : c.call # l.call
    <3>1. m.call = calls /\ Fresh /\ output # "Cloning into"
      BY <1>1, <2>2
    <3> QED
      BY <3>1, NewClone
  <2>3. /\ \A c \in clones' : c.call \in 0..calls'
        /\ \A c, d \in clones' : c.call = d.call => c = d
        /\ \A c \in clones : Settled(c)'
    BY <1>1, <1>2, <2>2, <2>a
  <2>9. \A l \in logs' : LineOK(l)'
    <3>1. \A l \in logs :
             IF l.commit = "commit"
             THEN \E c \in clones' : c.call = l.call /\ c.url = l.url /\ c.log = l.file
             ELSE \A c \in clones' : c.call # l.call
      BY <2>2, <2>a
    <3> QED
      BY <1>1, <3>1 DEF LineOK
  <2>4. output' = "Cloning into" => Announced'
    <3>1. output' = "Cloning into" => ~m.bare
      BY <1>3, <2>1 DEF Announcement
    <3>2. \A c \in clones' : c.call = calls => c = m
      BY <1>1, <2>2 DEF Fresh
    <3>3. LinesOf(calls)' = {}
      BY <1>1 DEF Fresh, LinesOf
    <3> QED
      BY <1>1, <2>2, <3>1, <3>2, <3>3 DEF Announced
  <2>5. output' = "Cloning into" \/ Settled(m)'
    <3>1. ASSUME output' # "Cloning into"
          PROVE  Settled(m)
      <4>1. m.bare
        BY <1>3, <2>1, <3>1 DEF Announcement
      <4>2. LinesOf(m.call) = {}
        BY <1>1, <2>2 DEF Fresh
      <4> QED
        BY <4>1, <4>2 DEF Settled, LineDue
    <3> QED
      BY <1>2, <3>1
  <2>6. \A l \in logs' : l.call \in 0..calls'
    BY <1>1 DEF LogsOK
  <2>7. \A l, k \in logs' : l.call = k.call => l = k
    BY <1>1 DEF LogsOK
  <2>8. \A c \in clones' : (output' = "Cloning into" /\ c.call = calls') \/ Settled(c)'
    BY <1>1, <2>2, <2>3, <2>5
  <2> QED
    BY <1>1, <2>3, <2>4, <2>6, <2>7, <2>8, <2>9 DEF LogsOK
<1>4. CASE UNCHANGED clones
  <2>1. \A c \in clones : Settled(c)'
    BY <1>1, <1>2 DEF LogsOK
  <2>2. output' = "Cloning into" => Announced'
    BY <1>1, <1>4 DEF Fresh, Announced, LinesOf
  <2>3. \A l \in logs' : LineOK(l)' /\ l.call \in 0..calls'
    BY <1>1, <1>4 DEF LogsOK, LineOK
  <2>4. /\ \A c \in clones' : c.call \in 0..calls'
        /\ \A c, d \in clones' : c.call = d.call => c = d
        /\ \A l, m \in logs' : l.call = m.call => l = m
    BY <1>1, <1>4 DEF LogsOK
  <2> QED
    BY <1>1, <1>4, <2>1, <2>2, <2>3, <2>4 DEF LogsOK
<1> QED
  BY <1>3, <1>4 DEF RunGit

(* The innermost library logs what it got for the call. *)
LEMMA HandleLogs ==
    ASSUME LogsOK, PcOK, HandleGitClone
    PROVE  LogsOK'
<1>1. output' = "" /\ UNCHANGED <<clones, calls>> /\ pc' = pc /\ pc = "cloned"
  BY DEF HandleGitClone
<1>2. CASE output # "Cloning into"
  <2>1. logs' = logs
    BY <1>2 DEF HandleGitClone, SaysCloning
  <2> QED
    BY <1>1, <1>2, <2>1 DEF LogsOK, Settled, LineDue, LineFor, LinesOf, LineOK
<1>3. CASE output = "Cloning into"
  <2>1. /\ at = libs /\ libs > 0 /\ LinesOf(calls) = {}
        /\ \A c \in clones : c.call = calls => c = Made /\ ~c.bare
        /\ \A c \in clones : c.call = calls \/ Settled(c)
    BY <1>3 DEF LogsOK, Announced
  <2>2. calls \in Nat
    BY CallsAreNat
  <2>3. CASE logs' = logs /\ \A c \in clones : c.call = calls => ~LineDue(c)
    <3>1. \A c \in clones : Settled(c)
      BY <2>1, <2>3 DEF Settled
    <3>2. \A c \in clones : Settled(c)'
      BY <1>1, <2>3, <3>1 DEF Settled, LineDue, LineFor, LinesOf
    <3> QED
      BY <1>1, <2>3, <3>2 DEF LogsOK, LineOK
  <2>4. ASSUME NEW CONSTANT line, logs' = logs \cup {line}, line.call = calls, LineOK(line),
               \A c \in clones : c.call = calls => LineDue(c) /\ line = LineFor(c)
        PROVE  LogsOK'
    <3>1. /\ LinesOf(calls)' = {line}
          /\ \A k : k # calls => LinesOf(k)' = LinesOf(k)
      BY <1>1, <2>1, <2>4 DEF LinesOf
    <3>2. \A c \in clones : Settled(c)'
      <4>1. ASSUME NEW c \in clones, c.call = calls
            PROVE  Settled(c)'
        BY <2>4, <3>1, <4>1 DEF Settled, LinesOf, LineDue, LineFor
      <4>2. ASSUME NEW c \in clones, c.call # calls
            PROVE  Settled(c)'
        BY <2>1, <3>1, <4>2 DEF Settled, LinesOf, LineDue, LineFor
      <4> QED
        BY <4>1, <4>2
    <3>3. \A l, m \in logs' : l.call = m.call => l = m
      BY <2>1, <2>4 DEF LogsOK, LinesOf
    <3>4. \A l \in logs' : l.call \in 0..calls /\ LineOK(l)'
      <4>1. calls \in 0..calls
        BY <2>2, OneMore
      <4>2. \A l : LineOK(l)' <=> LineOK(l)
        BY <1>1 DEF LineOK
      <4> QED
        BY <2>4, <4>1, <4>2 DEF LogsOK
    <3> QED
      BY <1>1, <3>2, <3>3, <3>4 DEF LogsOK
  <2>5. CASE ~(CurrStage = "BUILD" /\ Len(env.log) = 1)
    <3>1. logs' = logs
      BY <2>5 DEF HandleGitClone, Logged
    <3>2. \A c \in clones : c.call = calls => ~LineDue(c)
      BY <2>1, <2>5 DEF Made, LineDue, CurrStage
    <3> QED
      BY <2>3, <3>1, <3>2
  <2>6. CASE CurrStage = "BUILD" /\ Len(env.log) = 1
    <3>1. PICK said \in Answers : logs' = Logged(said)
      BY <1>3, <2>6 DEF HandleGitClone, SaysCloning
    <3> DEFINE line == [file |-> env.log, url |-> Url(call.argv), commit |-> said,
                        by |-> at, call |-> calls]
    <3>2. said # "" => logs' = logs \cup {line}
      BY <2>6, <3>1 DEF Logged
    <3>3. said = "" => logs' = logs
      BY <3>1 DEF Logged
    <3>4. line.call = calls /\ line.commit = said /\ line.url = Url(call.argv) /\ line.file = env.log
      OBVIOUS
    <3>5. CASE \E c \in clones : c.call = calls
      <4>1. said = "commit"
        BY <3>1, <3>5 DEF Answers
      <4>2. \A c \in clones : c.call = calls => LineDue(c) /\ line = LineFor(c)
        BY <2>1, <2>6, <4>1 DEF Made, LineDue, LineFor, CurrStage
      <4>3. LineOK(line)
        <5>1. PICK c \in clones : c.call = calls
          BY <3>5
        <5>2. c.call = line.call /\ c.url = line.url /\ c.log = line.file
          BY <4>2, <5>1 DEF LineFor
        <5> HIDE DEF line
        <5> QED
          BY <3>4, <4>1, <5>2 DEF LineOK
      <4> HIDE DEF line
      <4> QED
        BY <2>4, <3>2, <3>4, <4>1, <4>2, <4>3
    <3>6. CASE ~\E c \in clones : c.call = calls
      <4>1. said \in {"error", ""}
        BY <3>1, <3>6 DEF Answers
      <4> HIDE DEF line
      <4>2. said # "" => LineOK(line)
        BY <3>4, <3>6, <4>1 DEF LineOK
      <4> QED
        BY <2>3, <2>4, <3>2, <3>3, <3>4, <3>6, <4>2
    <3> QED
      BY <3>5, <3>6
  <2> QED
    BY <2>5, <2>6
<1> QED
  BY <1>2, <1>3

LEMMA ExecLogs ==
    ASSUME LogsOK, PcOK, Exec
    PROVE  LogsOK'
<1>1. /\ Fresh /\ output # "Cloning into" /\ UNCHANGED <<logs, output, calls>>
      /\ pc' = "started"
  BY DEF Exec, AtKernel, LogsOK, Announced
<1>2. \A c : Settled(c)' <=> Settled(c)
  BY <1>1 DEF Settled, LineDue, LineFor, LinesOf
<1>3. CASE UNCHANGED clones
  BY <1>1, <1>3, QuietLogs
<1>4. CASE IsClone(call.argv) /\ clones' = clones \cup {Made}
  <2>1. libs = 0
    BY <1>4 DEF Exec, AtKernel
  <2>2. PICK m : m.by = 0 /\ m.call = calls /\ clones' = clones \cup {m}
    BY <1>4, <2>1 DEF Made
  <2>3. /\ \A c \in clones' : c.call \in 0..calls'
        /\ \A c, d \in clones' : c.call = d.call => c = d
        /\ \A c \in clones : Settled(c)'
    BY <1>1, <1>2, <2>2, NewClone
  <2>9. \A l \in logs' : LineOK(l)'
    <3>1. \A l \in logs :
             IF l.commit = "commit"
             THEN \E c \in clones' : c.call = l.call /\ c.url = l.url /\ c.log = l.file
             ELSE \A c \in clones' : c.call # l.call
      BY <1>1, <2>2, NewClone
    <3> QED
      BY <1>1, <3>1 DEF LineOK
  <2>4. Settled(m)'
    <3>1. LinesOf(m.call) = {}
      BY <1>1, <2>2 DEF Fresh
    <3>2. ~(0 > 0)
      OBVIOUS
    <3>3. ~LineDue(m)
      BY <2>2, <3>2, Zenon DEF LineDue
    <3> QED
      BY <1>2, <3>1, <3>3 DEF Settled
  <2> QED
    BY <1>1, <2>2, <2>3, <2>4, <2>9 DEF LogsOK
<1> QED
  BY <1>3, <1>4 DEF Exec

LEMMA LogsStep ==
    ASSUME PcOK, LogsOK, [Next]_vars
    PROVE  LogsOK'
<1>1. ASSUME UNCHANGED <<logs, clones, output, calls>>, pc # "cloned", pc' = "library" => pc = "library"
      PROVE  LogsOK'
  BY <1>1, QuietLogs DEF LogsOK, Announced
<1>2. CASE Reprobuild \/ GiveUp \/ Continue
  BY <1>1, <1>2 DEF Reprobuild, GiveUp, Continue, cloneVars
<1>3. ASSUME NEW fn, NEW path, NEW argv, NEW e, Calls(fn, path, argv, e), pc \in {"running", "returned"}
      PROVE  LogsOK'
  BY <1>3, CallsLogs DEF LogsOK, Announced
<1>31. CASE RunReal
  BY <1>3, <1>31 DEF RunReal
<1>32. ASSUME NEW fn, NEW path, NEW args, NEW e, Run(fn, path, args, e)
       PROVE  LogsOK'
  BY <1>3, <1>32 DEF Run
<1>33. ASSUME NEW path, TryNext(path)
       PROVE  LogsOK'
  BY <1>3, <1>33 DEF TryNext
<1>4. CASE PassOn \/ ClonePassed \/ NoSuchFile
  BY <1>1, <1>4 DEF PassOn, ClonePassed, NoSuchFile, InLibrary, AtKernel, cloneVars
<1>5. CASE CloneReturns
  <2>1. UNCHANGED <<logs, clones, output, calls>> /\ at = 0 /\ pc' = "returned"
    BY <1>5 DEF CloneReturns, cloneVars
  <2>2. output = "Cloning into" => at = libs /\ libs > 0
    BY DEF LogsOK, Announced
  <2>3. ~(0 > 0)
    OBVIOUS
  <2>4. output # "Cloning into"
    BY <2>1, <2>2, <2>3, Zenon
  <2> QED
    BY <2>1, <2>4, QuietLogs
<1>6. CASE UNCHANGED vars
  BY <1>6 DEF vars, LogsOK, Settled, LinesOf, LineDue, LineFor, LineOK, Fresh, Announced, Made
<1> QED
  BY <1>2, <1>31, <1>32, <1>33, <1>4, <1>5, <1>6, RunGitLogs, HandleLogs, ExecLogs DEF Next, Done

(* A clone a library made has one line, in the log of its build, through   *)
(* any number of libraries and tries; a call that made none has at most    *)
(* one, without a commit.                                                  *)
THEOREM ClonesHaveOneLine == Spec => []ClonesLoggedOnce
<1>1. LogsOK => ClonesLoggedOnce
  <2> SUFFICES ASSUME LogsOK, pc = "running"
               PROVE  ClonesLoggedOnce
    BY DEF ClonesLoggedOnce
  <2>1. \A c \in clones : Settled(c)
    BY DEF LogsOK, Announced
  <2>2. \A x : Cardinality({x}) = 1
    BY FS_Singleton
  <2>3. Cardinality({}) = 0
    BY FS_EmptySet
  <2>4. \A c \in clones : Cardinality(LinesOf(c.call)) = IF LineDue(c) THEN 1 ELSE 0
    BY <2>1, <2>2, <2>3 DEF Settled
  <2>5. \A c \in clones :
          Cardinality({l \in logs : l.call = c.call})
          = IF c.by > 0 /\ c.stage = "build" /\ Len(c.log) = 1 /\ ~c.bare THEN 1 ELSE 0
    BY <2>4 DEF LinesOf, LineDue
  <2>6. \A l \in logs :
          IF l.commit = "commit"
          THEN \E c \in clones : c.call = l.call /\ c.url = l.url /\ c.log = l.file
          ELSE \A c \in clones : c.call # l.call
    BY DEF LogsOK, LineOK
  <2>7. \A l, m \in logs : l.call = m.call => l = m
    BY DEF LogsOK
  <2> QED
    BY <2>5, <2>6, <2>7 DEF ClonesLoggedOnce
<1>2. ExecInv /\ LogsOK /\ [Next]_vars => LogsOK'
  BY LogsStep DEF ExecInv
<1> QED
  BY <1>1, <1>2, InitLogs, SpecExecInv, PTL DEF Spec

-----------------------------------------------------------------------------
(* GitClones.                                                               *)
LineOf == {[repo |-> Key(c), commit |-> m] : c \in Clones, m \in Commits \cup {OtherText}}
InRebuild == {"recloned", "rebuilt"}
NotMade == {"waiting", "failed", "answered"}

(* The types, and what a clone's counter says of its variables. *)
Typed ==
    /\ head \in [Repos -> 0..MaxCommit]
    /\ run \in [Runs -> Underway \cup {"idle", "saved", "dead"}]
    /\ log \in [Logs -> Seq(LineOf)]
    /\ record \in [Runs -> Seq(LineOf)]
    /\ gpc \in [Clones -> NotMade \cup {"cloned", "parsed", "logged"} \cup InRebuild]
    /\ vain \in [Clones -> 0..MaxVain]
    /\ {work, rework} \subseteq [Clones -> Commits \cup {NoCommit}]
    /\ commit_id \in [Clones -> Commits \cup {NoCommit, OtherText}]
    /\ \A c \in Clones :
         /\ gpc[c] \in NotMade => work[c] = NoCommit
         /\ gpc[c] = "parsed" => commit_id[c] = LocalHead(c)
         /\ gpc[c] = "answered" => commit_id[c] \in {OtherText, NoCommit}
         /\ gpc[c] # "waiting" /\ work[c] = NoCommit => vain[c] > 0

LEMMA NotCommits == NoCommit \notin Commits /\ NoCommit # OtherText
BY DEF NoCommit, Commits, OtherText

LEMMA InitTyped == GCInit => Typed
BY CloneAssumption DEF GCInit, Typed, Underway, InRebuild, NotMade

(* A line that is appended. *)
LEMMA LineIsALine ==
    ASSUME Typed, NEW c \in Clones, gpc[c] \in {"parsed", "answered"}, commit_id[c] # NoCommit
    PROVE  /\ Line(c) \in LineOf
           /\ \/ gpc[c] = "parsed" /\ work[c] # NoCommit /\ Line(c).commit = work[c]
              \/ work[c] = NoCommit /\ Line(c).commit = OtherText /\ vain[c] > 0
<1>1. commit_id[c] \in Commits \cup {OtherText}
  BY DEF Typed
<1>2. Line(c) \in LineOf
  BY <1>1 DEF Line, LineOf
<1>3. CASE gpc[c] = "parsed"
  BY <1>2, <1>3 DEF Typed, LocalHead, Line
<1>4. CASE gpc[c] = "answered"
  BY <1>2, <1>4 DEF Typed, NotMade, Line
<1> QED
  BY <1>2, <1>3, <1>4

LEMMA StepTyped == Typed /\ [GCNext]_gcVars => Typed'
<1> SUFFICES ASSUME Typed, [GCNext]_gcVars
             PROVE  Typed'
  OBVIOUS
<1> USE CloneAssumption DEF Typed, Goes, At, InRebuild, NotMade, commandVars
<1>0. \A r \in Repos : Newest(r) \in Commits \cup {NoCommit}
  BY DEF Newest, Commits
<1>01. \A n \in 0..MaxVain : n < MaxVain => n + 1 \in 0..MaxVain /\ n + 1 > 0
  OBVIOUS
<1>1. ASSUME NEW r \in Repos, Push(r)
      PROVE  Typed'
  BY <1>1 DEF Push, LocalHead
<1>2. ASSUME NEW r \in Runs, BuildStarts(r) \/ BuildEnds(r) \/ SaveRecord(r) \/ Crash(r)
      PROVE  Typed'
  BY <1>2 DEF BuildStarts, BuildEnds, SaveRecord, Crash, Underway, LocalHead
<1>3. ASSUME NEW r \in Runs, ReadLog(r)
      PROVE  Typed'
  <2>1. record[r] \o log[LogPath[r]] \in Seq(LineOf)
    BY ConcatProperties
  <2> QED
    BY <1>3, <2>1 DEF ReadLog, Underway, LocalHead
<1>4. ASSUME NEW r \in Runs, RemoveLog(r)
      PROVE  Typed'
  <2>1. <<>> \in Seq(LineOf)
    BY EmptySeq
  <2> QED
    BY <1>4, <2>1 DEF RemoveLog, Removed, Underway, LocalHead
<1>5. ASSUME NEW c \in Clones, Clone(c)
      PROVE  Typed'
  BY <1>0, <1>01, <1>5 DEF Clone, InVain, LocalHead
<1>51. ASSUME NEW c \in Clones, CloneFails(c)
      PROVE  Typed'
  BY <1>01, <1>51 DEF CloneFails, InVain, LocalHead
<1>6. ASSUME NEW c \in Clones, RevParse(c)
      PROVE  Typed'
  <2>1. UNCHANGED <<head, log, run, record, work, vain, rework>>
    BY <1>6 DEF RevParse
  <2>2. CASE gpc[c] = "cloned"
    <3>1. /\ gpc' = [gpc EXCEPT ![c] = "parsed"] /\ commit_id' = [commit_id EXCEPT ![c] = LocalHead(c)]
          /\ LocalHead(c) \in Commits \cup {NoCommit, OtherText}
      BY <1>6, <2>2 DEF RevParse, LocalHead
    <3> QED
      BY <2>1, <2>2, <3>1 DEF LocalHead
  <2>3. CASE gpc[c] = "failed"
    <3>1. /\ gpc' = [gpc EXCEPT ![c] = "answered"]
          /\ \E said \in {OtherText, NoCommit} : commit_id' = [commit_id EXCEPT ![c] = said]
      BY <1>6, <2>3 DEF RevParse
    <3> QED
      BY <2>1, <2>3, <3>1 DEF LocalHead
  <2> QED
    BY <1>6, <2>2, <2>3 DEF RevParse
<1>7. ASSUME NEW c \in Clones, AppendLine(c)
      PROVE  Typed'
  <2>1. commit_id[c] # NoCommit => Append(log[LogPath[RunOf[c]]], Line(c)) \in Seq(LineOf)
    <3>1. ASSUME commit_id[c] # NoCommit
          PROVE  Line(c) \in LineOf
      BY <1>7, <3>1, LineIsALine DEF AppendLine
    <3> QED
      BY <3>1, AppendProperties
  <2>2. log' \in [Logs -> Seq(LineOf)]
    BY <1>7, <2>1 DEF AppendLine
  <2> QED
    BY <1>7, <2>2 DEF AppendLine, LocalHead
<1>8. ASSUME NEW c \in Clones, Reclone(c)
      PROVE  Typed'
  BY <1>0, <1>8 DEF Reclone, LocalHead
<1>9. ASSUME NEW c \in Clones, Reset(c)
      PROVE  Typed'
  <2>1. ResetTo(c, Recorded(RunOf[c], Key(c))) \in Commits \cup {NoCommit}
    BY DEF ResetTo, HasCommit
  <2> QED
    BY <1>9, <2>1 DEF Reset, LocalHead
<1>10. CASE UNCHANGED gcVars
  BY <1>10 DEF gcVars, LocalHead
<1> QED
  BY <1>1, <1>2, <1>3, <1>4, <1>5, <1>51, <1>6, <1>7, <1>8, <1>9, <1>10 DEF GCNext

LEMMA AlwaysTyped == GCSpec => []Typed
BY InitTyped, StepTyped, PTL DEF GCSpec

-----------------------------------------------------------------------------
(* The text in a log is what was said of a clone that got no commit. *)
TextIsVain ==
    \A f \in Logs : \A l \in ToSet(log[f]) :
        l.commit \in Commits \/ (l.commit = OtherText /\ \E c \in Clones : l.repo = Key(c) /\ vain[c] > 0)

LEMMA AppendedLine ==
    ASSUME NEW s \in Seq(LineOf), NEW l \in LineOf
    PROVE  ToSet(Append(s, l)) = ToSet(s) \cup {l}
BY AppendProperties, LenProperties DEF ToSet

(* What AppendLine does, if it appends at all. *)
LEMMA Appending ==
    ASSUME Typed, NEW c \in Clones, AppendLine(c)
    PROVE  LET f == LogPath[RunOf[c]]
           IN  /\ f \in Logs /\ RunOf[c] \in Runs /\ run[RunOf[c]] = "build"
               /\ gpc[c] \in {"parsed", "answered"}
               /\ \A g \in Logs : g # f => log'[g] = log[g]
               /\ commit_id[c] = NoCommit => log'[f] = log[f]
               /\ commit_id[c] # NoCommit => /\ log'[f] = Append(log[f], Line(c))
                                             /\ Line(c) \in LineOf
                                             /\ ToSet(log'[f]) = ToSet(log[f]) \cup {Line(c)}
               /\ UNCHANGED <<head, run, record, work, vain, rework>>
<1> USE CloneAssumption
<1> DEFINE f == LogPath[RunOf[c]]
<1>1. /\ f \in Logs /\ RunOf[c] \in Runs /\ run[RunOf[c]] = "build"
      /\ gpc[c] \in {"parsed", "answered"}
      /\ UNCHANGED <<head, run, record, work, vain, rework>>
      /\ log' = IF commit_id[c] = NoCommit THEN log ELSE [log EXCEPT ![f] = Append(@, Line(c))]
  BY DEF AppendLine, At
<1>2. log \in [Logs -> Seq(LineOf)]
  BY DEF Typed
<1>3. commit_id[c] # NoCommit => Line(c) \in LineOf
  BY <1>1, LineIsALine
<1> HIDE DEF f
<1>4. ASSUME commit_id[c] # NoCommit
      PROVE  log'[f] = Append(log[f], Line(c)) /\ ToSet(log'[f]) = ToSet(log[f]) \cup {Line(c)}
  BY <1>1, <1>2, <1>3, <1>4, AppendedLine
<1> QED
  BY <1>1, <1>2, <1>3, <1>4 DEF f

LEMMA StepText ==
    ASSUME Typed, TextIsVain, [GCNext]_gcVars
    PROVE  TextIsVain'
<1>1. ASSUME UNCHANGED log, \A c \in Clones : vain[c] > 0 => vain'[c] > 0
      PROVE  TextIsVain'
  BY <1>1 DEF TextIsVain
<1>2. ASSUME UNCHANGED <<log, vain>>
      PROVE  TextIsVain'
  BY <1>1, <1>2
<1>3. ASSUME NEW r \in Repos, Push(r)
      PROVE  TextIsVain'
  BY <1>2, <1>3 DEF Push, commandVars
<1>4. ASSUME NEW r \in Runs, \/ BuildStarts(r) \/ BuildEnds(r) \/ ReadLog(r)
                             \/ SaveRecord(r) \/ Crash(r)
      PROVE  TextIsVain'
  BY <1>2, <1>4 DEF BuildStarts, BuildEnds, ReadLog, SaveRecord, Crash, commandVars
<1>5. ASSUME NEW r \in Runs, RemoveLog(r)
      PROVE  TextIsVain'
  <2>1. log' = [log EXCEPT ![LogPath[r]] = <<>>] /\ UNCHANGED vain /\ LogPath[r] \in Logs
        /\ ToSet(<<>>) = {}
    BY <1>5, CloneAssumption DEF RemoveLog, Removed, commandVars, ToSet
  <2>2. \A f \in Logs : ToSet(log'[f]) \subseteq ToSet(log[f])
    BY <2>1 DEF Typed
  <2> QED
    BY <2>1, <2>2 DEF TextIsVain
<1>6. ASSUME NEW c \in Clones, Clone(c) \/ CloneFails(c)
      PROVE  TextIsVain'
  <2>1. UNCHANGED log /\ \A d \in Clones : vain'[d] = vain[d] \/ vain'[d] = vain[d] + 1
    BY <1>6 DEF Clone, CloneFails, InVain, Typed
  <2>2. \A d \in Clones : vain[d] \in 0..MaxVain
    BY DEF Typed
  <2> QED
    BY <1>1, <2>1, <2>2
<1>7. ASSUME NEW c \in Clones, RevParse(c) \/ Reclone(c) \/ Reset(c)
      PROVE  TextIsVain'
  BY <1>2, <1>7 DEF RevParse, Reclone, Reset
<1>8. ASSUME NEW c \in Clones, AppendLine(c)
      PROVE  TextIsVain'
  <2>1. UNCHANGED vain
    BY <1>8 DEF AppendLine
  <2>2. \A f \in Logs : \A l \in ToSet(log'[f]) :
           l \in ToSet(log[f]) \/ (l = Line(c) /\ commit_id[c] # NoCommit)
    BY <1>8, Appending
  <2>3. commit_id[c] # NoCommit => /\ Line(c).repo = Key(c)
                                   /\ \/ Line(c).commit \in Commits
                                      \/ Line(c).commit = OtherText /\ vain[c] > 0
    <3>1. gpc[c] \in {"parsed", "answered"} /\ work[c] \in Commits \cup {NoCommit}
      BY <1>8 DEF AppendLine, At, Typed
    <3>2. Line(c).repo = Key(c)
      BY DEF Line
    <3>3. ASSUME commit_id[c] # NoCommit
          PROVE  Line(c).commit \in Commits \/ (Line(c).commit = OtherText /\ vain[c] > 0)
      BY <3>1, <3>3, LineIsALine
    <3> QED
      BY <3>2, <3>3
  <2>4. CASE commit_id[c] = NoCommit
    BY <2>1, <2>2, <2>4 DEF TextIsVain
  <2>5. CASE commit_id[c] # NoCommit
    BY <2>1, <2>2, <2>3, <2>5 DEF TextIsVain
  <2> QED
    BY <2>4, <2>5
<1>9. CASE UNCHANGED gcVars
  BY <1>2, <1>9 DEF gcVars
<1> QED
  BY <1>3, <1>4, <1>5, <1>6, <1>7, <1>8, <1>9 DEF GCNext

(* Every variable stays in its type, and a line of a log that has no       *)
(* commit is that of a command which got none, in however many runs.       *)
THEOREM CloneTypes == GCSpec => []GCTypeOK
<1>1. GCInit => TextIsVain
  BY DEF GCInit, TextIsVain, ToSet
<1>2. Typed /\ TextIsVain => GCTypeOK
  BY DEF Typed, TextIsVain, GCTypeOK
<1> QED
  BY <1>1, <1>2, StepText, AlwaysTyped, PTL DEF GCSpec

-----------------------------------------------------------------------------
(* Runs with one log do not overlap.                                       *)
Alone == ~MayOverlap

IsLogged(c) == gpc[c] \in {"logged"} \cup InRebuild
LogLines(r) ==
    {[repo |-> Key(c), commit |-> work[c]] :
        c \in {d \in Clones : RunOf[d] = r /\ IsLogged(d) /\ work[d] # NoCommit}}

(* What a line says of the commands of runs rs.                            *)
Says(l, rs) ==
    \E c \in Clones :
        /\ l.repo = Key(c) /\ RunOf[c] \in rs
        /\ (l.commit = work[c] /\ work[c] # NoCommit) \/ (l.commit = OtherText /\ vain[c] > 0)

Dead(f) == {q \in Runs : run[q] = "dead" /\ LogPath[q] = f}

Exclusive ==
    \A q, r \in Runs :
        run[q] \in Underway /\ run[r] \in Underway /\ LogPath[q] = LogPath[r] => q = r

InBuild ==
    \A c \in Clones :
        /\ run[RunOf[c]] = "idle" => gpc[c] = "waiting"
        /\ run[RunOf[c]] \notin {"idle", "build", "dead"} =>
              gpc[c] \notin {"cloned", "failed", "parsed", "answered"}

(* A log holds what the run that is using it has logged, and then the      *)
(* record does; the rest is of runs that were killed.                      *)
LogsHold ==
    \A r \in Runs :
        /\ run[r] \in {"build", "read"} => LogLines(r) \subseteq ToSet(log[LogPath[r]])
        /\ run[r] \in {"build", "read", "remove"} =>
              \A l \in ToSet(log[LogPath[r]]) : Says(l, {r} \cup Dead(LogPath[r]))

RecordsHold ==
    \A r \in Runs :
        /\ run[r] \in {"idle", "build", "read"} => record[r] = <<>>
        /\ run[r] \in {"remove", "save", "saved"} =>
              /\ LogLines(r) \subseteq ToSet(record[r])
              /\ \A l \in ToSet(record[r]) : Says(l, {r} \cup Dead(LogPath[r]))

LeftLogs ==
    \A f \in Logs :
        (\A r \in Runs : LogPath[r] = f => run[r] \notin {"build", "read", "remove"})
            => \A l \in ToSet(log[f]) : Says(l, Dead(f))

OwnInv == Exclusive /\ InBuild /\ LogsHold /\ RecordsHold /\ LeftLogs

LEMMA InitOwn == GCInit => OwnInv
BY CloneAssumption DEF GCInit, OwnInv, Exclusive, InBuild, LogsHold, RecordsHold, LeftLogs, Underway, ToSet

(* What was said stays true of the same runs, and of more. *)
LEMMA SaidOfMore ==
    ASSUME NEW l, NEW rs, NEW more, rs \subseteq more, Says(l, rs)
    PROVE  Says(l, more)
BY DEF Says

LEMMA StillSaid ==
    ASSUME Typed, [GCNext]_gcVars, NEW rs, NEW l, Says(l, rs)
    PROVE  Says(l, rs)'
<1> USE DEF commandVars
<1>1. ASSUME UNCHANGED work, \A c \in Clones : vain[c] > 0 => vain'[c] > 0
      PROVE  Says(l, rs)'
  BY <1>1 DEF Says
<1>2. ASSUME UNCHANGED <<work, vain>>
      PROVE  Says(l, rs)'
  BY <1>1, <1>2
<1>3. ASSUME NEW c \in Clones, InVain(c)
      PROVE  \A d \in Clones : vain[d] > 0 => vain'[d] > 0
  BY <1>3 DEF InVain, Typed
<1>4. ASSUME NEW c \in Clones, Clone(c)
      PROVE  Says(l, rs)'
  <2>1. /\ work[c] = NoCommit /\ \A d \in Clones : d # c => work'[d] = work[d]
        /\ \A d \in Clones : vain[d] > 0 => vain'[d] > 0
    BY <1>3, <1>4 DEF Clone, At, Typed, NotMade
  <2> QED
    BY <2>1 DEF Says
<1>5. ASSUME NEW c \in Clones, CloneFails(c)
      PROVE  Says(l, rs)'
  BY <1>1, <1>3, <1>5 DEF CloneFails
<1>6. ASSUME NEW c \in Clones, RevParse(c) \/ AppendLine(c) \/ Reclone(c) \/ Reset(c)
      PROVE  Says(l, rs)'
  BY <1>2, <1>6 DEF RevParse, AppendLine, Reclone, Reset
<1>7. ASSUME NEW r \in Repos, Push(r)
      PROVE  Says(l, rs)'
  BY <1>2, <1>7 DEF Push
<1>8. ASSUME NEW r \in Runs, \/ BuildStarts(r) \/ BuildEnds(r) \/ ReadLog(r)
                             \/ RemoveLog(r) \/ SaveRecord(r) \/ Crash(r)
      PROVE  Says(l, rs)'
  BY <1>2, <1>8 DEF BuildStarts, BuildEnds, ReadLog, RemoveLog, SaveRecord, Crash
<1>9. CASE UNCHANGED gcVars
  BY <1>2, <1>9 DEF gcVars
<1> QED
  BY <1>4, <1>5, <1>6, <1>7, <1>8, <1>9 DEF GCNext

(* The lines change when a clone is logged, and not otherwise. *)
LEMMA SameLines ==
    ASSUME \A c \in Clones : IsLogged(c)' = IsLogged(c) /\ (IsLogged(c) => work'[c] = work[c])
    PROVE  \A r \in Runs : LogLines(r)' = LogLines(r)
BY DEF LogLines

LEMMA OneMoreLine ==
    ASSUME Typed, NEW c \in Clones, AppendLine(c)
    PROVE  /\ gpc[c] = "parsed" /\ work[c] # NoCommit => commit_id[c] # NoCommit
           /\ \A r \in Runs : LogLines(r)' \subseteq
                 LogLines(r) \cup IF RunOf[c] = r /\ commit_id[c] # NoCommit THEN {Line(c)} ELSE {}
<1> DEFINE made == gpc[c] = "parsed" /\ work[c] # NoCommit
<1>1. made => commit_id[c] = work[c]
  BY DEF Typed, LocalHead
<1>2. /\ work' = work
      /\ \A d \in Clones : IsLogged(d)' => IsLogged(d) \/ (d = c /\ gpc[c] = "parsed")
  BY DEF AppendLine, At, IsLogged, InRebuild, Typed
<1> QED
  BY <1>1, <1>2 DEF LogLines, Line

(* A step of a run that leaves the logs and the commands alone. *)
LEMMA RunGoesOn ==
    ASSUME Typed, OwnInv, NEW r \in Runs, NEW to, run' = [run EXCEPT ![r] = to],
           UNCHANGED <<log, record, gpc, work, vain>>,
           \/ run[r] = "build" /\ to = "read" /\ InBuild'
           \/ run[r] = "save" /\ to = "saved"
           \/ run[r] \in Underway /\ to = "dead"
    PROVE  OwnInv'
<1> USE DEF OwnInv
<1>1. /\ \A q \in Runs : run'[q] = IF q = r THEN to ELSE run[q]
      /\ run[r] # "dead" /\ DOMAIN log = Logs
  BY DEF Typed, Underway
<1>2. \A q \in Runs : LogLines(q)' = LogLines(q)
  BY DEF LogLines, IsLogged
<1>3. \A l, rs, more : Says(l, rs) /\ rs \subseteq more => Says(l, more)'
  BY DEF Says
<1>4. \A f : Dead(f) \subseteq Dead(f)' /\ (to = "dead" /\ LogPath[r] = f => Dead(f)' = Dead(f) \cup {r})
  BY <1>1 DEF Dead
<1>5. Exclusive'
  BY <1>1 DEF Exclusive, Underway
<1>6. InBuild'
  BY <1>1, CloneAssumption DEF InBuild, Underway
<1>10. ASSUME NEW q \in Runs, NEW l, Says(l, {q} \cup Dead(LogPath[q]))
       PROVE  Says(l, {q} \cup Dead(LogPath[q]))'
  BY <1>4, <1>10 DEF Says
<1>7. LogsHold'
  <2>1. \A q \in Runs : run'[q] \in {"build", "read"} => run[q] \in {"build", "read"}
    BY <1>1
  <2>2. \A q \in Runs : run'[q] \in {"build", "read", "remove"} => run[q] \in {"build", "read", "remove"}
    BY <1>1
  <2> QED
    BY <1>2, <1>10, <2>1, <2>2 DEF LogsHold
<1>8. RecordsHold'
  <2>1. \A q \in Runs : run'[q] \in {"idle", "build", "read"} => run[q] \in {"idle", "build", "read"}
    BY <1>1
  <2>2. \A q \in Runs : run'[q] \in {"remove", "save", "saved"} => run[q] \in {"remove", "save", "saved"}
    BY <1>1
  <2> QED
    BY <1>2, <1>10, <2>1, <2>2 DEF RecordsHold
<1>9. LeftLogs'
  <2> SUFFICES ASSUME NEW f \in Logs,
                      \A q \in Runs : LogPath[q] = f => run'[q] \notin {"build", "read", "remove"},
                      NEW l \in ToSet(log[f])
               PROVE  Says(l, Dead(f))'
    BY DEF LeftLogs
  <2>1. CASE LogPath[r] = f /\ run[r] \in {"build", "read", "remove"}
    BY <1>1, <1>3, <1>4, <2>1 DEF LogsHold
  <2>2. CASE ~(LogPath[r] = f /\ run[r] \in {"build", "read", "remove"})
    BY <1>1, <1>3, <1>4, <2>2 DEF LeftLogs
  <2> QED
    BY <2>1, <2>2
<1> QED
  BY <1>5, <1>6, <1>7, <1>8, <1>9

(* A step of a command that leaves the logs alone. *)
LEMMA CommandGoesOn ==
    ASSUME Typed, OwnInv, [GCNext]_gcVars, UNCHANGED <<run, log, record>>, InBuild',
           \A r \in Runs : LogLines(r)' \subseteq LogLines(r)
    PROVE  OwnInv'
<1>1. \A rs, l : Says(l, rs) => Says(l, rs)'
  BY StillSaid
<1>2. ASSUME NEW f, NEW more, NEW l, Says(l, more \cup Dead(f))
      PROVE  Says(l, more \cup Dead(f))'
  <2>1. Dead(f)' = Dead(f)
    BY DEF Dead
  <2> QED
    BY <1>1, <1>2, <2>1 DEF Says
<1>3. ASSUME NEW f, NEW l, Says(l, Dead(f))
      PROVE  Says(l, Dead(f))'
  <2>1. Dead(f)' = Dead(f)
    BY DEF Dead
  <2> QED
    BY <1>1, <1>3, <2>1 DEF Says
<1>4. Exclusive'
  BY DEF OwnInv, Exclusive
<1>5. LogsHold'
  BY <1>2 DEF OwnInv, LogsHold
<1>6. RecordsHold'
  BY <1>2 DEF OwnInv, RecordsHold
<1>7. LeftLogs'
  BY <1>3 DEF OwnInv, LeftLogs
<1> QED
  BY <1>4, <1>5, <1>6, <1>7 DEF OwnInv

LEMMA AppendOwn ==
    ASSUME Alone, Typed, OwnInv, NEW c \in Clones, AppendLine(c)
    PROVE  OwnInv'
<1> DEFINE r == RunOf[c]
           f == LogPath[r]
<1> USE CloneAssumption
<1>1. /\ run[r] = "build" /\ r \in Runs /\ f \in Logs
      /\ UNCHANGED <<run, record, work, vain>> /\ \A g \in Logs : g # f => log'[g] = log[g]
      /\ ToSet(log[f]) \subseteq ToSet(log'[f])
      /\ \A l \in ToSet(log'[f]) : l \in ToSet(log[f]) \/ (l = Line(c) /\ commit_id[c] # NoCommit)
      /\ commit_id[c] # NoCommit => Line(c) \in ToSet(log'[f])
  <2>1. commit_id[c] = NoCommit => ToSet(log'[f]) = ToSet(log[f])
    BY Appending
  <2>2. commit_id[c] # NoCommit => ToSet(log'[f]) = ToSet(log[f]) \cup {Line(c)}
    BY Appending
  <2>3. /\ run[r] = "build" /\ r \in Runs /\ f \in Logs
        /\ UNCHANGED <<run, record, work, vain>> /\ \A g \in Logs : g # f => log'[g] = log[g]
    BY Appending
  <2> HIDE DEF f, r
  <2> QED
    BY <2>1, <2>2, <2>3
<1>2. \A q \in Runs : q # r /\ run[q] \in Underway => LogPath[q] # f
  BY <1>1 DEF OwnInv, Exclusive, Underway
<1>3. \A l, rs : Says(l, rs) => Says(l, rs)'
  BY <1>1 DEF Says
<1>4. commit_id[c] # NoCommit => Says(Line(c), {r})
  <2>1. ASSUME commit_id[c] # NoCommit
        PROVE  /\ Line(c).repo = Key(c)
               /\ \/ Line(c).commit = work[c] /\ work[c] # NoCommit
                  \/ Line(c).commit = OtherText /\ vain[c] > 0
    <3>1. gpc[c] \in {"parsed", "answered"}
      BY DEF AppendLine, At
    <3> QED
      BY <2>1, <3>1, LineIsALine DEF Line
  <2> QED
    BY <2>1 DEF Says
<1>5. \A g : Dead(g)' = Dead(g)
  BY <1>1 DEF Dead
<1> HIDE DEF r, f
<1>6. LogsHold'
  <2> SUFFICES ASSUME NEW q \in Runs
               PROVE  /\ run[q] \in {"build", "read"} => LogLines(q)' \subseteq ToSet(log'[LogPath[q]])
                      /\ run[q] \in {"build", "read", "remove"} =>
                            \A l \in ToSet(log'[LogPath[q]]) : Says(l, {q} \cup Dead(LogPath[q]))'
    BY <1>1 DEF LogsHold
  <2>1. CASE q = r
    <3>1. /\ LogLines(r) \subseteq ToSet(log[f])
          /\ \A l \in ToSet(log[f]) : Says(l, {r} \cup Dead(f))
      BY <1>1 DEF OwnInv, LogsHold, f
    <3>2. LogLines(r)' \subseteq LogLines(r) \cup IF commit_id[c] # NoCommit THEN {Line(c)} ELSE {}
      BY <1>1, OneMoreLine DEF r
    <3>3. LogLines(r)' \subseteq ToSet(log'[f])
      BY <1>1, <3>1, <3>2
    <3>4. ASSUME NEW l \in ToSet(log'[f])
          PROVE  Says(l, {r} \cup Dead(f))'
      <4>1. Says(l, {r} \cup Dead(f))
        BY <1>1, <1>4, <3>1, SaidOfMore
      <4> QED
        BY <1>3, <1>5, <4>1 DEF Says
    <3> QED
      BY <2>1, <3>3, <3>4 DEF f
  <2>2. CASE q # r /\ run[q] \in Underway
    <3>1. LogPath[q] # f /\ LogPath[q] \in Logs
      BY <1>2, <2>2
    <3>2. log'[LogPath[q]] = log[LogPath[q]]
      BY <1>1, <3>1
    <3>3. LogLines(q)' \subseteq LogLines(q)
      BY <2>2, OneMoreLine DEF r
    <3>4. \A l : Says(l, {q} \cup Dead(LogPath[q])) => Says(l, {q} \cup Dead(LogPath[q]))'
      BY <1>3, <1>5 DEF Says
    <3> QED
      BY <3>2, <3>3, <3>4 DEF OwnInv, LogsHold
  <2>3. CASE run[q] \notin Underway
    BY <2>3 DEF Underway
  <2> QED
    BY <2>1, <2>2, <2>3
<1>7. RecordsHold'
  <2> SUFFICES ASSUME NEW q \in Runs, run[q] \in {"remove", "save", "saved"}
               PROVE  /\ LogLines(q)' \subseteq ToSet(record[q])
                      /\ \A l \in ToSet(record[q]) : Says(l, {q} \cup Dead(LogPath[q]))'
    BY <1>1 DEF RecordsHold, OwnInv
  <2>1. LogLines(q)' \subseteq LogLines(q)
    BY <1>1, OneMoreLine DEF r
  <2>2. \A l : Says(l, {q} \cup Dead(LogPath[q])) => Says(l, {q} \cup Dead(LogPath[q]))'
    BY <1>3, <1>5 DEF Says
  <2> QED
    BY <2>1, <2>2 DEF OwnInv, RecordsHold
<1>8. LeftLogs'
  <2> SUFFICES ASSUME NEW g \in Logs,
                      \A q \in Runs : LogPath[q] = g => run[q] \notin {"build", "read", "remove"},
                      NEW l \in ToSet(log'[g])
               PROVE  Says(l, Dead(g))'
    BY <1>1 DEF LeftLogs
  <2>1. g # f /\ l \in ToSet(log[g])
    BY <1>1 DEF f
  <2>2. Says(l, Dead(g))
    BY <2>1 DEF OwnInv, LeftLogs
  <2> QED
    BY <1>3, <1>5, <2>2 DEF Says
<1>9. Exclusive'
  BY <1>1 DEF OwnInv, Exclusive
<1>10. InBuild'
  <2>1. \A d \in Clones : d # c => gpc'[d] = gpc[d]
    BY DEF AppendLine, At, Typed
  <2> QED
    BY <1>1, <2>1 DEF OwnInv, InBuild, r
<1> QED
  BY <1>6, <1>7, <1>8, <1>9, <1>10 DEF OwnInv

LEMMA StartsOwn ==
    ASSUME Alone, Typed, OwnInv, NEW r \in Runs, BuildStarts(r)
    PROVE  OwnInv'
<1> USE CloneAssumption DEF Alone, OwnInv, commandVars
<1>1. /\ run[r] = "idle" /\ UNCHANGED <<log, record, gpc, work, vain>>
      /\ \A q \in Runs : run'[q] = IF q = r THEN "build" ELSE run[q]
      /\ \A q \in Runs : LogPath[q] = LogPath[r] => run[q] \notin Underway
  BY DEF BuildStarts, Goes, Typed
<1>2. /\ \A q \in Runs : LogLines(q)' = LogLines(q)
      /\ LogLines(r) = {}
  <2>1. \A c \in Clones : RunOf[c] = r => ~IsLogged(c)
    BY <1>1 DEF InBuild, IsLogged, InRebuild
  <2> QED
    BY <1>1, <2>1 DEF LogLines, IsLogged
<1>3. \A f : Dead(f)' = Dead(f)
  BY <1>1 DEF Dead
<1>4. ASSUME NEW rs, NEW l, Says(l, rs \cup Dead(LogPath[r]))
      PROVE  Says(l, rs \cup Dead(LogPath[r]))'
  BY <1>1, <1>3, <1>4 DEF Says
<1>41. ASSUME NEW q \in Runs, NEW l, Says(l, {q} \cup Dead(LogPath[q]))
       PROVE  Says(l, {q} \cup Dead(LogPath[q]))'
  BY <1>1, <1>3, <1>41 DEF Says
<1>42. ASSUME NEW f, NEW l, Says(l, Dead(f))
       PROVE  Says(l, Dead(f))'
  BY <1>1, <1>3, <1>42 DEF Says
<1>5. ASSUME NEW l \in ToSet(log[LogPath[r]])
      PROVE  Says(l, {r} \cup Dead(LogPath[r]))
  <2>1. Says(l, Dead(LogPath[r]))
    BY <1>1, <1>5 DEF LeftLogs, Underway
  <2> QED
    BY <2>1, SaidOfMore
<1>6. LogsHold'
  <2> SUFFICES ASSUME NEW q \in Runs
               PROVE  /\ run'[q] \in {"build", "read"} => LogLines(q) \subseteq ToSet(log[LogPath[q]])
                      /\ run'[q] \in {"build", "read", "remove"} =>
                            \A l \in ToSet(log[LogPath[q]]) : Says(l, {q} \cup Dead(LogPath[q]))
    BY <1>1, <1>2, <1>41 DEF LogsHold
  <2>1. CASE q = r
    BY <1>2, <1>5, <2>1
  <2>2. CASE q # r
    BY <1>1, <2>2 DEF LogsHold
  <2> QED
    BY <2>1, <2>2
<1>7. RecordsHold'
  <2> SUFFICES ASSUME NEW q \in Runs
               PROVE  /\ run'[q] \in {"idle", "build", "read"} => record[q] = <<>>
                      /\ run'[q] \in {"remove", "save", "saved"} =>
                            /\ LogLines(q) \subseteq ToSet(record[q])
                            /\ \A l \in ToSet(record[q]) : Says(l, {q} \cup Dead(LogPath[q]))
    BY <1>1, <1>2, <1>41 DEF RecordsHold
  <2>1. CASE q = r
    BY <1>1, <2>1 DEF RecordsHold
  <2>2. CASE q # r
    BY <1>1, <2>2 DEF RecordsHold
  <2> QED
    BY <2>1, <2>2
<1>8. LeftLogs'
  <2> SUFFICES ASSUME NEW f \in Logs,
                      \A q \in Runs : LogPath[q] = f => run'[q] \notin {"build", "read", "remove"},
                      NEW l \in ToSet(log[f])
               PROVE  Says(l, Dead(f))
    BY <1>1, <1>42 DEF LeftLogs
  <2>1. \A q \in Runs : LogPath[q] = f => run[q] \notin {"build", "read", "remove"}
    BY <1>1
  <2> QED
    BY <2>1 DEF LeftLogs
<1>9. Exclusive'
  BY <1>1 DEF Exclusive, Underway
<1>10. InBuild'
  BY <1>1 DEF InBuild
<1> QED
  BY <1>6, <1>7, <1>8, <1>9, <1>10

LEMMA ReadsOwn ==
    ASSUME Typed, OwnInv, NEW r \in Runs, ReadLog(r)
    PROVE  OwnInv'
<1> USE CloneAssumption DEF OwnInv, commandVars
<1>1. /\ run[r] = "read" /\ UNCHANGED <<log, gpc, work, vain>>
      /\ \A q \in Runs : run'[q] = IF q = r THEN "remove" ELSE run[q]
      /\ \A q \in Runs : record'[q] = IF q = r THEN record[r] \o log[LogPath[r]] ELSE record[q]
  BY DEF ReadLog, Goes, Typed
<1>2. record'[r] = log[LogPath[r]]
  <2>1. record[r] = <<>> /\ log[LogPath[r]] \in Seq(LineOf)
    BY <1>1 DEF RecordsHold, Typed
  <2> QED
    BY <1>1, <2>1, ConcatEmptySeq
<1>3. \A q \in Runs : LogLines(q)' = LogLines(q)
  BY <1>1 DEF LogLines, IsLogged
<1>4. \A f : Dead(f)' = Dead(f)
  BY <1>1 DEF Dead
<1>5. ASSUME NEW q \in Runs, NEW l, Says(l, {q} \cup Dead(LogPath[q]))
      PROVE  Says(l, {q} \cup Dead(LogPath[q]))'
  BY <1>1, <1>4, <1>5 DEF Says
<1>6. ASSUME NEW f, NEW l, Says(l, Dead(f))
      PROVE  Says(l, Dead(f))'
  BY <1>1, <1>4, <1>6 DEF Says
<1>7. LogsHold'
  BY <1>1, <1>3, <1>5 DEF LogsHold
<1>8. RecordsHold'
  <2> SUFFICES ASSUME NEW q \in Runs
               PROVE  /\ run'[q] \in {"idle", "build", "read"} => record'[q] = <<>>
                      /\ run'[q] \in {"remove", "save", "saved"} =>
                            /\ LogLines(q) \subseteq ToSet(record'[q])
                            /\ \A l \in ToSet(record'[q]) : Says(l, {q} \cup Dead(LogPath[q]))
    BY <1>3, <1>5 DEF RecordsHold
  <2>1. CASE q = r
    BY <1>1, <1>2, <2>1 DEF LogsHold
  <2>2. CASE q # r
    BY <1>1, <2>2 DEF RecordsHold
  <2> QED
    BY <2>1, <2>2
<1>9. LeftLogs'
  BY <1>1, <1>6 DEF LeftLogs
<1>10. Exclusive'
  BY <1>1 DEF Exclusive, Underway
<1>11. InBuild'
  BY <1>1 DEF InBuild
<1> QED
  BY <1>7, <1>8, <1>9, <1>10, <1>11

LEMMA RemovesOwn ==
    ASSUME Typed, OwnInv, NEW r \in Runs, RemoveLog(r)
    PROVE  OwnInv'
<1> USE CloneAssumption DEF OwnInv, commandVars
<1>1. /\ run[r] = "remove" /\ UNCHANGED <<record, gpc, work, vain>>
      /\ \A q \in Runs : run'[q] = IF q = r THEN "save" ELSE run[q]
      /\ \A f \in Logs : log'[f] = IF f = LogPath[r] THEN <<>> ELSE log[f]
      /\ ToSet(<<>>) = {}
  BY DEF RemoveLog, Removed, Goes, Typed, ToSet
<1>2. \A q \in Runs : run[q] \in Underway /\ LogPath[q] = LogPath[r] => q = r
  BY <1>1 DEF Exclusive, Underway
<1>3. \A q \in Runs : LogLines(q)' = LogLines(q)
  BY <1>1 DEF LogLines, IsLogged
<1>4. \A f : Dead(f)' = Dead(f)
  BY <1>1 DEF Dead
<1>5. ASSUME NEW q \in Runs, NEW l, Says(l, {q} \cup Dead(LogPath[q]))
      PROVE  Says(l, {q} \cup Dead(LogPath[q]))'
  BY <1>1, <1>4, <1>5 DEF Says
<1>6. ASSUME NEW f, NEW l, Says(l, Dead(f))
      PROVE  Says(l, Dead(f))'
  BY <1>1, <1>4, <1>6 DEF Says
<1>7. LogsHold'
  <2> SUFFICES ASSUME NEW q \in Runs, run'[q] \in {"build", "read", "remove"}
               PROVE  /\ run'[q] \in {"build", "read"} => LogLines(q) \subseteq ToSet(log'[LogPath[q]])
                      /\ \A l \in ToSet(log'[LogPath[q]]) : Says(l, {q} \cup Dead(LogPath[q]))
    BY <1>3, <1>5 DEF LogsHold
  <2>1. q # r /\ run[q] \in Underway /\ run'[q] = run[q]
    BY <1>1 DEF Underway
  <2>2. log'[LogPath[q]] = log[LogPath[q]]
    BY <1>1, <1>2, <2>1
  <2> QED
    BY <2>1, <2>2 DEF LogsHold
<1>8. RecordsHold'
  BY <1>1, <1>3, <1>5 DEF RecordsHold
<1>9. LeftLogs'
  BY <1>1, <1>6 DEF LeftLogs
<1>10. Exclusive'
  BY <1>1 DEF Exclusive, Underway
<1>11. InBuild'
  BY <1>1 DEF InBuild
<1> QED
  BY <1>7, <1>8, <1>9, <1>10, <1>11

LEMMA StepOwn ==
    ASSUME Alone, Typed, OwnInv, [GCNext]_gcVars
    PROVE  OwnInv'
<1> USE CloneAssumption DEF At, commandVars
<1>0. DOMAIN gpc = Clones /\ DOMAIN work = Clones
  BY DEF Typed
<1>1. ASSUME NEW r \in Repos, Push(r)
      PROVE  OwnInv'
  <2>1. UNCHANGED <<run, log, record, gpc, work>>
    BY <1>1 DEF Push
  <2>2. InBuild' /\ \A r_1 \in Runs : LogLines(r_1)' = LogLines(r_1)
    BY <2>1 DEF OwnInv, InBuild, LogLines, IsLogged
  <2> QED
    BY <2>1, <2>2, CommandGoesOn
<1>2. ASSUME NEW r \in Runs, BuildEnds(r) \/ SaveRecord(r) \/ Crash(r)
      PROVE  OwnInv'
  <2>1. UNCHANGED <<log, record, gpc, work, vain>>
    BY <1>2 DEF BuildEnds, SaveRecord, Crash
  <2>2. CASE BuildEnds(r)
    <3>1. run[r] = "build" /\ run' = [run EXCEPT ![r] = "read"]
          /\ \A c \in Clones : RunOf[c] = r => gpc[c] \in {"waiting", "logged"}
      BY <2>2 DEF BuildEnds, Goes
    <3>2. InBuild'
      BY <2>1, <3>1 DEF OwnInv, InBuild, Typed
    <3> QED
      BY <2>1, <3>1, <3>2, RunGoesOn
  <2>3. CASE SaveRecord(r)
    BY <2>1, <2>3, RunGoesOn DEF SaveRecord, Goes
  <2>4. CASE Crash(r)
    BY <2>1, <2>4, RunGoesOn DEF Crash
  <2> QED
    BY <1>2, <2>2, <2>3, <2>4
<1>3. ASSUME NEW c \in Clones, Clone(c) \/ CloneFails(c) \/ RevParse(c)
      PROVE  OwnInv'
  <2>1. /\ UNCHANGED <<run, log, record>> /\ run[RunOf[c]] = "build"
        /\ ~IsLogged(c) /\ ~IsLogged(c)'
        /\ \A d \in Clones : d # c => gpc'[d] = gpc[d] /\ work'[d] = work[d]
    BY <1>0, <1>3 DEF Clone, CloneFails, RevParse, IsLogged, InRebuild
  <2>2. InBuild'
    BY <2>1 DEF OwnInv, InBuild
  <2>3. \A r \in Runs : LogLines(r)' = LogLines(r)
    BY <2>1, SameLines DEF IsLogged
  <2> QED
    BY <2>1, <2>2, <2>3, CommandGoesOn
<1>4. ASSUME NEW c \in Clones, Reclone(c) \/ Reset(c)
      PROVE  OwnInv'
  <2>1. /\ UNCHANGED <<run, log, record, work>>
        /\ IsLogged(c) /\ gpc'[c] \in {"logged"} \cup InRebuild
        /\ \A d \in Clones : d # c => gpc'[d] = gpc[d]
    BY <1>0, <1>4 DEF Reclone, Reset, IsLogged, InRebuild
  <2>2. InBuild'
    BY <2>1 DEF OwnInv, InBuild, IsLogged, InRebuild
  <2>3. \A r \in Runs : LogLines(r)' = LogLines(r)
    BY <2>1, SameLines DEF IsLogged
  <2> QED
    BY <2>1, <2>2, <2>3, CommandGoesOn
<1>5. CASE UNCHANGED gcVars
  <2>1. UNCHANGED <<run, log, record, gpc, work>>
    BY <1>5 DEF gcVars
  <2>2. InBuild' /\ \A r \in Runs : LogLines(r)' = LogLines(r)
    BY <2>1 DEF OwnInv, InBuild, LogLines, IsLogged
  <2> QED
    BY <2>1, <2>2, CommandGoesOn
<1> QED
  BY <1>1, <1>2, <1>3, <1>4, <1>5, StartsOwn, ReadsOwn, RemovesOwn, AppendOwn DEF GCNext

LEMMA AlwaysOwn == Alone => (GCSpec => []OwnInv)
<1> SUFFICES ASSUME Alone
             PROVE  GCSpec => []OwnInv
  OBVIOUS
<1>1. Typed /\ OwnInv /\ [GCNext]_gcVars => OwnInv'
  BY StepOwn
<1> QED
  BY <1>1, InitOwn, AlwaysTyped, PTL DEF GCSpec

(* If runs with one log do not overlap, a saved record has the commits of  *)
(* all clones its build made, whatever fails or is killed; and it has no   *)
(* line but of its own commands and of killed runs with the same log.      *)
THEOREM RecordsAreOwn == ASSUME Alone PROVE GCSpec => []RecordsOwnClones
<1>1. Typed /\ OwnInv => RecordsOwnClones
  <2> SUFFICES ASSUME Typed, OwnInv, NEW r \in Runs, run[r] = "saved"
               PROVE  /\ OwnLines(r) \subseteq ToSet(record[r])
                      /\ \A l \in ToSet(record[r]) : \E c \in Clones :
                            /\ l.repo = Key(c) /\ LeftTo(RunOf[c], r)
                            /\ l.commit = work[c] \/ (l.commit = OtherText /\ vain[c] > 0)
    BY DEF RecordsOwnClones
  <2>1. \A d \in Clones : RunOf[d] = r /\ work[d] # NoCommit => IsLogged(d)
    BY DEF Typed, OwnInv, InBuild, IsLogged, InRebuild, NotMade
  <2>2. /\ LogLines(r) \subseteq ToSet(record[r])
        /\ \A l \in ToSet(record[r]) : Says(l, {r} \cup Dead(LogPath[r]))
    BY DEF OwnInv, RecordsHold
  <2>3. OwnLines(r) \subseteq LogLines(r)
    BY <2>1 DEF OwnLines, LogLines
  <2>4. \A q \in {r} \cup Dead(LogPath[r]) : LeftTo(q, r)
    BY DEF Dead, LeftTo
  <2> QED
    BY <2>2, <2>3, <2>4 DEF Says
<1> QED
  BY <1>1, AlwaysOwn, AlwaysTyped, PTL

-----------------------------------------------------------------------------
(* The rebuild can reset every clone to the commit it finds: whole clones, *)
(* and no URL cloned twice by one build.                                   *)
OnePerKey ==
    /\ Shallow = {}
    /\ \A c, d \in Clones : RunOf[c] = RunOf[d] /\ Key(c) = Key(d) => c = d

(* The last line for a key has this commit. *)
LastIs(s, key, m) ==
    \E k \in 1..Len(s) : /\ s[k].repo = key /\ s[k].commit = m
                         /\ \A j \in k+1..Len(s) : s[j].repo # key

Got(c) == IsLogged(c) /\ work[c] # NoCommit

(* Whatever was left before it, the last line for a clone is its own.      *)
LastInv ==
    \A c \in Clones : Got(c) =>
        /\ run[RunOf[c]] \in {"build", "read"} => LastIs(log[LogPath[RunOf[c]]], Key(c), work[c])
        /\ run[RunOf[c]] \in {"remove", "save", "saved"} => LastIs(record[RunOf[c]], Key(c), work[c])

LEMMA InitLast == GCInit => LastInv
BY DEF GCInit, LastInv, Got

LEMMA AppendLast ==
    ASSUME NEW s \in Seq(LineOf), NEW l \in LineOf
    PROVE  /\ LastIs(Append(s, l), l.repo, l.commit)
           /\ \A key, m : LastIs(s, key, m) /\ l.repo # key => LastIs(Append(s, l), key, m)
<1>1. /\ Len(s) \in Nat /\ Len(Append(s, l)) = Len(s) + 1 /\ Append(s, l)[Len(s) + 1] = l
      /\ \A k \in 1..Len(s) : Append(s, l)[k] = s[k]
  BY AppendProperties, LenProperties
<1> DEFINE a == Append(s, l)
<1> HIDE DEF a
<1>2. LastIs(a, l.repo, l.commit)
  BY <1>1 DEF LastIs, a
<1>3. ASSUME NEW key, NEW m, LastIs(s, key, m), l.repo # key
      PROVE  LastIs(a, key, m)
  <2>1. PICK k \in 1..Len(s) : /\ s[k].repo = key /\ s[k].commit = m
                               /\ \A j \in k+1..Len(s) : s[j].repo # key
    BY <1>3 DEF LastIs
  <2>2. k \in 1..Len(a) /\ a[k].repo = key /\ a[k].commit = m
    BY <1>1, <2>1 DEF a
  <2>3. \A j \in k+1..Len(a) : j \in k+1..Len(s) \/ j = Len(s) + 1
    BY <1>1, <2>1 DEF a
  <2>4. \A j \in k+1..Len(s) : j \in 1..Len(s)
    BY <1>1, <2>1
  <2>5. \A j \in k+1..Len(a) : a[j].repo # key
    BY <1>1, <1>3, <2>1, <2>3, <2>4 DEF a
  <2> QED
    BY <2>2, <2>5 DEF LastIs
<1> QED
  BY <1>2, <1>3 DEF a

LEMMA LastStep ==
    ASSUME Alone, OnePerKey, Typed, OwnInv, LastInv, [GCNext]_gcVars
    PROVE  LastInv'
<1> USE CloneAssumption DEF At, Goes, commandVars
<1>0. /\ DOMAIN run = Runs /\ DOMAIN log = Logs /\ DOMAIN record = Runs
      /\ DOMAIN gpc = Clones /\ DOMAIN work = Clones /\ \A f \in Logs : log[f] \in Seq(LineOf)
  BY DEF Typed
<1>1. ASSUME UNCHANGED <<log, record>>, \A c \in Clones : Got(c)' => Got(c) /\ work'[c] = work[c],
             \A r \in Runs : /\ run'[r] \in {"build", "read"} /\ run[r] # "idle" => run[r] \in {"build", "read"}
                             /\ run'[r] \in {"remove", "save", "saved"} => run[r] \in {"remove", "save", "saved"}
      PROVE  LastInv'
  <2>1. \A c \in Clones : Got(c) => run[RunOf[c]] # "idle"
    BY DEF OwnInv, InBuild, Got, IsLogged, InRebuild
  <2> QED
    BY <1>1, <2>1 DEF LastInv
<1>2. ASSUME NEW r \in Repos, Push(r)
      PROVE  LastInv'
  BY <1>1, <1>2 DEF Push, Got, IsLogged
<1>3. ASSUME NEW r \in Runs, BuildStarts(r) \/ BuildEnds(r) \/ SaveRecord(r) \/ Crash(r)
      PROVE  LastInv'
  <2>1. UNCHANGED <<log, record>> /\ \A c \in Clones : Got(c)' => Got(c) /\ work'[c] = work[c]
    BY <1>3 DEF BuildStarts, BuildEnds, SaveRecord, Crash, Got, IsLogged
  <2>2. \A q \in Runs :
           /\ run'[q] \in {"build", "read"} /\ run[q] # "idle" => run[q] \in {"build", "read"}
           /\ run'[q] \in {"remove", "save", "saved"} => run[q] \in {"remove", "save", "saved"}
    BY <1>0, <1>3 DEF BuildStarts, BuildEnds, SaveRecord, Crash
  <2> QED
    BY <1>1, <2>1, <2>2
<1>4. ASSUME NEW r \in Runs, ReadLog(r)
      PROVE  LastInv'
  <2>1. /\ run[r] = "read" /\ UNCHANGED <<log, gpc, work>>
        /\ \A q \in Runs : run'[q] = IF q = r THEN "remove" ELSE run[q]
        /\ \A q \in Runs : record'[q] = IF q = r THEN record[r] \o log[LogPath[r]] ELSE record[q]
    BY <1>0, <1>4 DEF ReadLog
  <2>2. record'[r] = log[LogPath[r]]
    <3>1. record[r] = <<>> /\ log[LogPath[r]] \in Seq(LineOf)
      BY <1>0, <2>1 DEF OwnInv, RecordsHold
    <3> QED
      BY <2>1, <3>1, ConcatEmptySeq
  <2>3. ASSUME NEW c \in Clones, Got(c)'
        PROVE  /\ run'[RunOf[c]] \in {"build", "read"} => LastIs(log'[LogPath[RunOf[c]]], Key(c), work'[c])
               /\ run'[RunOf[c]] \in {"remove", "save", "saved"} =>
                     LastIs(record'[RunOf[c]], Key(c), work'[c])
    <3>1. Got(c)
      BY <2>1, <2>3 DEF Got, IsLogged
    <3>2. CASE RunOf[c] = r
      BY <2>1, <2>2, <3>1, <3>2 DEF LastInv
    <3>3. CASE RunOf[c] # r
      BY <2>1, <3>1, <3>3 DEF LastInv
    <3> QED
      BY <3>2, <3>3
  <2> QED
    BY <2>3 DEF LastInv
<1>5. ASSUME NEW r \in Runs, RemoveLog(r)
      PROVE  LastInv'
  <2>1. /\ run[r] = "remove" /\ UNCHANGED <<record, gpc, work>>
        /\ \A q \in Runs : run'[q] = IF q = r THEN "save" ELSE run[q]
        /\ \A f \in Logs : f # LogPath[r] => log'[f] = log[f]
    BY <1>0, <1>5 DEF RemoveLog
  <2>2. ASSUME NEW c \in Clones, Got(c)'
        PROVE  /\ run'[RunOf[c]] \in {"build", "read"} => LastIs(log'[LogPath[RunOf[c]]], Key(c), work'[c])
               /\ run'[RunOf[c]] \in {"remove", "save", "saved"} =>
                     LastIs(record'[RunOf[c]], Key(c), work'[c])
    <3>1. Got(c)
      BY <2>1, <2>2 DEF Got, IsLogged
    <3>2. CASE RunOf[c] = r
      BY <2>1, <3>1, <3>2 DEF LastInv
    <3>3. CASE RunOf[c] # r
      <4>1. run[RunOf[c]] \in {"build", "read"} => LogPath[RunOf[c]] # LogPath[r]
        BY <2>1, <3>3 DEF OwnInv, Exclusive, Underway
      <4> QED
        BY <2>1, <3>1, <3>3, <4>1 DEF LastInv
    <3> QED
      BY <3>2, <3>3
  <2> QED
    BY <2>2 DEF LastInv
<1>6. ASSUME NEW c \in Clones, Clone(c) \/ CloneFails(c) \/ RevParse(c)
      PROVE  LastInv'
  BY <1>0, <1>1, <1>6 DEF Clone, CloneFails, RevParse, Got, IsLogged, InRebuild
<1>7. ASSUME NEW c \in Clones, Reclone(c) \/ Reset(c)
      PROVE  LastInv'
  BY <1>0, <1>1, <1>7 DEF Reclone, Reset, Got, IsLogged, InRebuild
<1>8. ASSUME NEW c \in Clones, AppendLine(c)
      PROVE  LastInv'
  <2> DEFINE r == RunOf[c]
             f == LogPath[r]
  <2>1. /\ f \in Logs /\ r \in Runs /\ run[r] = "build" /\ gpc[c] \in {"parsed", "answered"}
        /\ \A g \in Logs : g # f => log'[g] = log[g]
        /\ UNCHANGED <<run, record, work>>
    BY <1>8, Appending
  <2>2. commit_id[c] = NoCommit => log'[f] = log[f]
    BY <1>8, Appending
  <2>3. commit_id[c] # NoCommit => log'[f] = Append(log[f], Line(c)) /\ Line(c) \in LineOf
    BY <1>8, Appending
  <2>4. gpc[c] = "parsed" /\ work[c] # NoCommit => commit_id[c] = work[c]
    BY DEF Typed, LocalHead
  <2>5. Line(c).repo = Key(c) /\ Line(c).commit = commit_id[c]
    BY DEF Line
  <2>6. \A d \in Clones : d # c => gpc'[d] = gpc[d]
    BY <1>0, <1>8 DEF AppendLine
  <2>7. gpc[c] = "answered" => gpc'[c] = "waiting"
    BY <1>0, <1>8 DEF AppendLine
  <2> HIDE DEF r, f
  <2>8. ASSUME NEW d \in Clones, Got(d)'
        PROVE  /\ run[RunOf[d]] \in {"build", "read"} => LastIs(log'[LogPath[RunOf[d]]], Key(d), work[d])
               /\ run[RunOf[d]] \in {"remove", "save", "saved"} =>
                     LastIs(record[RunOf[d]], Key(d), work[d])
    <3>1. CASE d = c
      <4>1. gpc[c] = "parsed" /\ work[c] # NoCommit
        BY <2>1, <2>7, <2>8, <3>1 DEF Got, IsLogged, InRebuild
      <4>2. LastIs(log'[f], Key(c), work[c])
        BY <1>0, <2>1, <2>3, <2>4, <2>5, <4>1, AppendLast
      <4> QED
        BY <2>1, <3>1, <4>2 DEF r, f
    <3>2. CASE d # c
      <4>1. Got(d)
        BY <2>1, <2>6, <2>8, <3>2 DEF Got, IsLogged
      <4>2. CASE run[RunOf[d]] \in {"build", "read"} /\ LogPath[RunOf[d]] = f
        <5>1. RunOf[d] = r
          BY <2>1, <4>2 DEF OwnInv, Exclusive, Underway, r, f
        <5>2. Key(d) # Key(c)
          BY <3>2, <5>1 DEF OnePerKey, r
        <5>3. LastIs(log[f], Key(d), work[d])
          BY <4>1, <4>2 DEF LastInv
        <5>4. LastIs(log'[f], Key(d), work[d])
          BY <1>0, <2>1, <2>2, <2>3, <2>5, <5>2, <5>3, AppendLast
        <5> QED
          BY <4>2, <5>4
      <4>3. CASE ~(run[RunOf[d]] \in {"build", "read"} /\ LogPath[RunOf[d]] = f)
        BY <2>1, <4>1, <4>3 DEF LastInv
      <4> QED
        BY <4>2, <4>3
    <3> QED
      BY <3>1, <3>2
  <2> QED
    BY <2>1, <2>8 DEF LastInv
<1>9. CASE UNCHANGED gcVars
  BY <1>1, <1>9 DEF gcVars, Got, IsLogged
<1> QED
  BY <1>2, <1>3, <1>4, <1>5, <1>6, <1>7, <1>8, <1>9 DEF GCNext

LEMMA AlwaysLast == Alone /\ OnePerKey => (GCSpec => []LastInv)
<1> SUFFICES ASSUME Alone, OnePerKey
             PROVE  GCSpec => []LastInv
  OBVIOUS
<1>1. Typed /\ OwnInv /\ LastInv /\ [GCNext]_gcVars => LastInv'
  BY LastStep
<1> QED
  BY <1>1, InitLast, AlwaysOwn, AlwaysTyped, PTL DEF GCSpec

(* What the rebuild finds in the record is what the last line says. *)
LEMMA RecordedIsLast ==
    ASSUME NEW r \in Runs, record[r] \in Seq(LineOf), NEW key, NEW m, LastIs(record[r], key, m)
    PROVE  Recorded(r, key) = m
<1> DEFINE n == Len(record[r])
           T == {k \in 1..n : record[r][k].repo = key}
<1>1. n \in Nat /\ DOMAIN record[r] = 1..n
  BY LenProperties
<1>2. Recorded(r, key) = IF (IF T # {} THEN Max(T) ELSE 0) = 0 THEN NoCommit
                         ELSE record[r][IF T # {} THEN Max(T) ELSE 0].commit
  BY DEF Recorded, SelectLastInSeq
<1>3. PICK k \in 1..n : /\ record[r][k].repo = key /\ record[r][k].commit = m
                        /\ \A j \in k+1..n : record[r][j].repo # key
  BY DEF LastIs
<1>4. k \in T /\ \A j \in T : k >= j /\ j \in Nat
  BY <1>1, <1>3
<1> HIDE DEF T
<1>5. Max(T) = k
  <2>1. \A j \in T : (\A i \in T : j >= i) => j = k
    BY <1>1, <1>4
  <2> QED
    BY <1>4, <2>1 DEF Max
<1> QED
  BY <1>1, <1>2, <1>3, <1>4, <1>5

(* A clone has a commit of its repository, no newer than the newest; what  *)
(* the rebuild clones is no older, and reset to the same.                  *)
SourceInv ==
    \A c \in Clones :
        /\ gpc[c] \in InRebuild => run[RunOf[c]] = "saved"
        /\ work[c] # NoCommit =>
              /\ work[c][1] = Repo[c] /\ work[c][2] <= head[Repo[c]]
              /\ gpc[c] = "recloned" => rework[c] \in Commits /\ work[c][2] <= rework[c][2]
              /\ gpc[c] = "rebuilt" => rework[c] = work[c]

LEMMA InitSource == GCInit => SourceInv
BY DEF GCInit, SourceInv, InRebuild

LEMMA CommitReset ==
    ASSUME OnePerKey, Typed, LastInv, SourceInv,
           NEW c \in Clones, gpc[c] = "recloned", work[c] # NoCommit
    PROVE  ResetTo(c, Recorded(RunOf[c], Key(c))) = work[c]
<1> DEFINE r == RunOf[c]
<1>1. r \in Runs /\ record[r] \in Seq(LineOf) /\ LastIs(record[r], Key(c), work[c])
  BY CloneAssumption DEF Typed, LastInv, SourceInv, Got, IsLogged, InRebuild
<1>2. Recorded(r, Key(c)) = work[c]
  BY <1>1, RecordedIsLast
<1>3. work[c] \in Commits /\ work[c][1] = Repo[c] /\ work[c][2] <= rework[c][2]
  BY DEF Typed, SourceInv
<1>4. HasCommit(c, work[c])
  BY <1>3 DEF OnePerKey, HasCommit
<1> QED
  BY <1>2, <1>4 DEF ResetTo

LEMMA StepSource ==
    ASSUME OnePerKey, Typed, LastInv, SourceInv, [GCNext]_gcVars
    PROVE  SourceInv'
<1> USE CloneAssumption DEF Goes, At, commandVars, InRebuild
<1>0. /\ head \in [Repos -> 0..MaxCommit] /\ DOMAIN run = Runs
      /\ DOMAIN gpc = Clones /\ DOMAIN work = Clones /\ DOMAIN rework = Clones
      /\ \A c \in Clones : work[c] # NoCommit => work[c] \in Commits /\ work[c][2] \in 1..MaxCommit
  BY DEF Typed, Commits
<1>1. ASSUME NEW r \in Repos, Push(r)
      PROVE  SourceInv'
  <2>1. \A q \in Repos : head[q] <= head'[q] /\ head[q] \in Nat /\ head'[q] \in Nat
    BY <1>0, <1>1 DEF Push
  <2>2. UNCHANGED <<run, gpc, work, rework>>
    BY <1>1 DEF Push
  <2>3. \A c \in Clones : work[c] # NoCommit => work[c][2] <= head'[Repo[c]]
    BY <1>0, <2>1 DEF SourceInv
  <2> QED
    BY <2>2, <2>3 DEF SourceInv
<1>2. ASSUME NEW r \in Runs, \/ BuildStarts(r) \/ BuildEnds(r) \/ ReadLog(r)
                             \/ RemoveLog(r) \/ SaveRecord(r) \/ Crash(r)
      PROVE  SourceInv'
  <2>1. \A q \in Runs : run[q] = "saved" => run'[q] = "saved"
    BY <1>0, <1>2 DEF BuildStarts, BuildEnds, ReadLog, RemoveLog, SaveRecord, Crash, Underway
  <2>2. UNCHANGED <<head, gpc, work, rework>>
    BY <1>2 DEF BuildStarts, BuildEnds, ReadLog, RemoveLog, SaveRecord, Crash
  <2> QED
    BY <2>1, <2>2 DEF SourceInv
<1>3. ASSUME NEW c \in Clones, Clone(c)
      PROVE  SourceInv'
  <2>1. Newest(Repo[c]) # NoCommit => Newest(Repo[c])[1] = Repo[c] /\ Newest(Repo[c])[2] <= head[Repo[c]]
    BY <1>0 DEF Newest
  <2>2. /\ UNCHANGED <<head, run, rework>>
        /\ \A d \in Clones : gpc'[d] = IF d = c THEN "cloned" ELSE gpc[d]
        /\ \A d \in Clones : work'[d] = IF d = c THEN Newest(Repo[c]) ELSE work[d]
    BY <1>0, <1>3 DEF Clone
  <2> QED
    BY <2>1, <2>2 DEF SourceInv
<1>4. ASSUME NEW c \in Clones, CloneFails(c) \/ RevParse(c) \/ AppendLine(c)
      PROVE  SourceInv'
  <2>1. /\ UNCHANGED <<head, run, work, rework>> /\ gpc'[c] \notin InRebuild
        /\ \A d \in Clones : d # c => gpc'[d] = gpc[d]
    BY <1>0, <1>4 DEF CloneFails, RevParse, AppendLine
  <2> QED
    BY <2>1 DEF SourceInv
<1>5. ASSUME NEW c \in Clones, Reclone(c)
      PROVE  SourceInv'
  <2>1. /\ UNCHANGED <<head, run, work>> /\ run[RunOf[c]] = "saved"
        /\ \A d \in Clones : gpc'[d] = IF d = c THEN "recloned" ELSE gpc[d]
        /\ \A d \in Clones : rework'[d] = IF d = c THEN Newest(Repo[c]) ELSE rework[d]
    BY <1>0, <1>5 DEF Reclone
  <2>2. work[c] # NoCommit => Newest(Repo[c]) \in Commits /\ work[c][2] <= Newest(Repo[c])[2]
    <3>1. ASSUME work[c] # NoCommit
          PROVE  head[Repo[c]] # 0 /\ work[c][2] <= head[Repo[c]]
      BY <1>0, <3>1 DEF SourceInv
    <3> QED
      BY <1>0, <3>1 DEF Newest, Commits
  <2> QED
    BY <2>1, <2>2 DEF SourceInv
<1>6. ASSUME NEW c \in Clones, Reset(c)
      PROVE  SourceInv'
  <2>1. /\ UNCHANGED <<head, run, work>> /\ gpc[c] = "recloned"
        /\ \A d \in Clones : gpc'[d] = IF d = c THEN "rebuilt" ELSE gpc[d]
        /\ \A d \in Clones : d # c => rework'[d] = rework[d]
        /\ work[c] # NoCommit => rework'[c] = work[c]
    BY <1>0, <1>6, CommitReset DEF Reset
  <2> QED
    BY <2>1 DEF SourceInv
<1>7. CASE UNCHANGED gcVars
  BY <1>7 DEF gcVars, SourceInv
<1> QED
  BY <1>1, <1>2, <1>3, <1>4, <1>5, <1>6, <1>7 DEF GCNext

(* Under these conditions every rebuild works on the commits its build     *)
(* worked on, however far the repositories have moved on, whatever was     *)
(* left in the log and however often clones failed.                        *)
THEOREM RebuildsAreSame == ASSUME Alone, OnePerKey PROVE GCSpec => []SameSources
<1>1. SourceInv => SameSources
  BY DEF SourceInv, SameSources
<1>2. Typed /\ LastInv /\ SourceInv /\ [GCNext]_gcVars => SourceInv'
  BY StepSource
<1>3. GCSpec => []LastInv
  BY AlwaysLast
<1> QED
  BY <1>1, <1>2, <1>3, InitSource, AlwaysTyped, PTL DEF GCSpec
=============================================================================
