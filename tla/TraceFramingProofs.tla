------------------------- MODULE TraceFramingProofs -------------------------
(***************************************************************************)
(* Proofs about the bpftrace script: about what it prints (TraceFraming),   *)
(* for any number of processes, threads, calls and directories, and, at    *)
(* the end, about which tasks it follows (TrackedProcesses), for every set *)
(* of task ids.                                                            *)
(***************************************************************************)
EXTENDS TraceFraming, TrackedProcesses, SequenceTheorems, FiniteSetTheorems,
        WellFoundedInduction, TLAPS

(* Where $i is, by how far the probe is: its loops end at MaxArgs and at   *)
(* MaxParts, and @path_parts is read where it has been written.            *)
Index(t) ==
    CASE pc[t] = "args" -> i[t] \in 1..(MaxArgs + 1)
      [] pc[t] \in {"store", "parts"} -> i[t] \in 0..MaxParts
      [] pc[t] = "delete" -> i[t] \in 1..MaxParts
      [] OTHER -> i[t] \in 0..(MaxParts + MaxArgs)

Parts == [0..(MaxParts - 1) -> Names \cup {<<>>}]

(* A directory a process may change to, or none. *)
Wanted(calls) == \A k \in 1..Len(calls) : calls[k].op = "chdir" => calls[k].at \in Dirs

ProbeInv ==
    /\ parts \in [Pids -> Parts]
    /\ cwd \in [Pids -> Dirs]
    /\ pc \in [Threads -> {"out", "args", "store", "parts", "delete", "flags"}]
    /\ i \in [Threads -> Nat] /\ \A t \in Threads : Index(t)
    /\ here \in [Threads -> Dirs \cup {NoDir}]
    /\ DOMAIN todo = Threads
    /\ \A t \in Threads : /\ \E S : todo[t] \in Seq(S)
                          /\ Wanted(todo[t])
                          /\ pc[t] # "out" => todo[t] # <<>>

LEMMA InitProbe == Init => ProbeInv
<1> SUFFICES ASSUME Init
             PROVE  ProbeInv
  OBVIOUS
<1>1. ASSUME NEW t \in Threads
      PROVE  todo[t] \in Seq(ToSet(todo[t])) /\ Wanted(todo[t])
  <2>1. todo[t] \in Programs[t]
    BY DEF Init
  <2>2. /\ todo[t] \in Seq(ToSet(todo[t]))
        /\ \A c \in ToSet(todo[t]) : c.op = "chdir" => c.at \in Dirs
    BY <2>1, FramingAssumption
  <2>3. \A k \in 1..Len(todo[t]) : todo[t][k] \in ToSet(todo[t])
    BY <2>2, LenProperties DEF ToSet
  <2> QED
    BY <2>2, <2>3 DEF Wanted
<1>2. \A t \in Threads : (\E S : todo[t] \in Seq(S)) /\ Wanted(todo[t])
  BY <1>1
<1>3. DOMAIN todo = Threads
  BY DEF Init
<1>4. parts \in [Pids -> Parts]
  BY FramingAssumption DEF Init, Parts
<1>5. cwd \in [Pids -> Dirs]
  BY FramingAssumption DEF Init
<1>6. \A t \in Threads : Index(t)
  BY FramingAssumption DEF Init, Index
<1> QED
  BY <1>2, <1>3, <1>4, <1>5, <1>6 DEF Init, ProbeInv

(* A call is done: the ones that are left are as they were. *)
LEMMA OneCallLess ==
    ASSUME NEW calls, NEW S, calls \in Seq(S), calls # <<>>, Wanted(calls)
    PROVE  Tail(calls) \in Seq(S) /\ Wanted(Tail(calls))
<1>1. /\ Tail(calls) \in Seq(S) /\ Len(Tail(calls)) = Len(calls) - 1
      /\ \A k \in 1..Len(Tail(calls)) : Tail(calls)[k] = calls[k + 1]
  BY HeadTailProperties
<1> QED
  BY <1>1, LenProperties DEF Wanted

(* Most steps of a thread move its counter, its $i or its directory, and   *)
(* may end its call.                                                       *)
LEMMA StepOfThread ==
    ASSUME ProbeInv, NEW t \in Threads,
           parts' \in [Pids -> Parts], cwd' \in [Pids -> Dirs],
           pc' \in [Threads -> {"out", "args", "store", "parts", "delete", "flags"}],
           i' \in [Threads -> Nat], Index(t)',
           \A u \in Threads \ {t} : pc'[u] = pc[u] /\ i'[u] = i[u],
           here' \in [Threads -> Dirs \cup {NoDir}],
           todo[t] # <<>> \/ pc[t] # "out",
           \/ UNCHANGED todo
           \/ pc'[t] = "out" /\ todo' = [todo EXCEPT ![t] = Tail(@)]
    PROVE  ProbeInv'
<1>1. \A u \in Threads : Index(u)'
  BY DEF ProbeInv, Index
<1>2. /\ DOMAIN todo' = Threads
      /\ \A u \in Threads : /\ (\E S : todo'[u] \in Seq(S)) /\ Wanted(todo'[u])
                            /\ pc'[u] # "out" => todo'[u] # <<>>
  <2>1. CASE UNCHANGED todo
    BY <2>1 DEF ProbeInv
  <2>2. CASE pc'[t] = "out" /\ todo' = [todo EXCEPT ![t] = Tail(@)]
    <3>1. (\E S : Tail(todo[t]) \in Seq(S)) /\ Wanted(Tail(todo[t]))
      BY <2>2, OneCallLess DEF ProbeInv
    <3> QED
      BY <2>2, <3>1 DEF ProbeInv
  <2> QED
    BY <2>1, <2>2
<1> QED
  BY <1>1, <1>2 DEF ProbeInv

LEMMA StepProbe == ProbeInv /\ [Next]_vars => ProbeInv'
<1> SUFFICES ASSUME ProbeInv, [Next]_vars
             PROVE  ProbeInv'
  OBVIOUS
<1> USE DEF Enters, Leaves
<1>0. /\ parts \in [Pids -> Parts] /\ cwd \in [Pids -> Dirs]
      /\ pc \in [Threads -> {"out", "args", "store", "parts", "delete", "flags"}]
      /\ i \in [Threads -> Nat] /\ \A t \in Threads : Index(t)
      /\ here \in [Threads -> Dirs \cup {NoDir}]
      /\ MaxParts \in Nat \ {0} /\ MaxArgs \in Nat \ {0}
      /\ \A t \in Threads : Process[t] \in Pids
  BY FramingAssumption DEF ProbeInv
<1>1. ASSUME NEW t \in Threads, Creat(t)
      PROVE  ProbeInv'
  BY <1>0, <1>1, StepOfThread DEF Creat, Index
<1>2. ASSUME NEW t \in Threads, Exec(t)
      PROVE  ProbeInv'
  BY <1>0, <1>2, StepOfThread DEF Exec, Index, FirstArg
<1>3. ASSUME NEW t \in Threads, PrintArg(t)
      PROVE  ProbeInv'
  BY <1>0, <1>3, StepOfThread DEF PrintArg, Index
<1>4. ASSUME NEW t \in Threads, ExecEnd(t)
      PROVE  ProbeInv'
  <2>1. i[t] <= MaxArgs + 1
    BY <1>0, <1>4 DEF ExecEnd, Index
  <2>2. Index(t)'
    BY <1>0, <1>4, <2>1 DEF ExecEnd, Index
  <2> QED
    BY <1>0, <1>4, <2>2, StepOfThread DEF ExecEnd
<1>5. ASSUME NEW t \in Threads, OpenAbsolute(t)
      PROVE  ProbeInv'
  <2>1. Index(t)'
    BY <1>0, <1>5 DEF OpenAbsolute, Index
  <2> QED
    BY <1>0, <1>5, <2>1, StepOfThread DEF OpenAbsolute
<1>6. ASSUME NEW t \in Threads, OpenRelative(t)
      PROVE  ProbeInv'
  <2>1. Index(t)' /\ here' \in [Threads -> Dirs \cup {NoDir}]
    BY <1>0, <1>6 DEF OpenRelative, Index
  <2> QED
    BY <1>0, <1>6, <2>1, StepOfThread DEF OpenRelative
<1>7. ASSUME NEW t \in Threads, StorePart(t)
      PROVE  ProbeInv'
  <2>1. /\ i[t] \in 0..(MaxParts - 1) /\ Index(t) /\ pc[t] = "store"
        /\ i[t] < Len(Ancestors(here[t]))
    BY <1>0, <1>7 DEF StorePart, MoreParts, Index
  <2>2. here[t].path \in Seq(Names)
    <3>1. CASE here[t] \in Dirs
      BY <3>1, FramingAssumption
    <3>2. CASE here[t] = NoDir
      BY <3>2, EmptySeq DEF NoDir
    <3> QED
      BY <1>0, <3>1, <3>2
  <2>3. Ancestors(here[t])[i[t] + 1] \in Names
    BY <2>1, <2>2, LenProperties DEF Ancestors, Reverse
  <2>4. parts' \in [Pids -> Parts]
    BY <1>0, <1>7, <2>1, <2>3 DEF StorePart, Parts
  <2>5. i' \in [Threads -> Nat] /\ Index(t)'
    BY <1>0, <1>7, <2>1 DEF StorePart, Index
  <2> QED
    BY <1>0, <1>7, <2>1, <2>4, <2>5, StepOfThread DEF StorePart
<1>8. ASSUME NEW t \in Threads, PrintOpen(t) \/ PrintPart(t) \/ PrintName(t)
      PROVE  ProbeInv'
  <2>1. CASE PrintOpen(t)
    BY <1>0, <2>1, StepOfThread DEF PrintOpen, Index
  <2>2. CASE PrintPart(t)
    <3>1. Index(t)'
      BY <1>0, <2>2 DEF PrintPart, Index
    <3> QED
      BY <1>0, <2>2, <3>1, StepOfThread DEF PrintPart
  <2>3. CASE PrintName(t)
    <3>1. Index(t)'
      BY <1>0, <2>3 DEF PrintName, Index
    <3> QED
      BY <1>0, <2>3, <3>1, StepOfThread DEF PrintName
  <2> QED
    BY <1>8, <2>1, <2>2, <2>3
<1>9. ASSUME NEW t \in Threads, DeletePart(t)
      PROVE  ProbeInv'
  <2>1. i[t] \in 1..MaxParts /\ pc[t] = "delete"
    BY <1>0, <1>9 DEF DeletePart, Index
  <2>2. parts' \in [Pids -> Parts]
    BY <1>0, <1>9, <2>1 DEF DeletePart, Parts, LastStored
  <2>3. i' \in [Threads -> Nat] /\ Index(t)'
    BY <1>0, <1>9, <2>1 DEF DeletePart, Index
  <2> QED
    BY <1>0, <1>9, <2>1, <2>2, <2>3, StepOfThread DEF DeletePart
<1>10. ASSUME NEW t \in Threads, PrintFlags(t)
       PROVE  ProbeInv'
  <2>1. Index(t)'
    BY <1>0, <1>10 DEF PrintFlags, Index
  <2> QED
    BY <1>0, <1>10, <2>1, StepOfThread DEF PrintFlags
<1>11. ASSUME NEW t \in Threads, Chdir(t)
       PROVE  ProbeInv'
  <2>1. \E S : todo[t] \in Seq(S)
    BY DEF ProbeInv
  <2>2. Len(todo[t]) \in Nat /\ Len(todo[t]) # 0
    BY <1>11, <2>1, LenProperties, EmptySeq DEF Chdir
  <2>3. Call(t).at \in Dirs
    BY <1>11, <2>2 DEF Chdir, Call, ProbeInv, Wanted
  <2> QED
    BY <1>0, <1>11, <2>3, StepOfThread DEF Chdir, Index
<1>12. CASE UNCHANGED vars
  BY <1>12 DEF vars, ProbeInv, Index
<1> QED
  BY <1>1, <1>2, <1>3, <1>4, <1>5, <1>6, <1>7, <1>8, <1>9, <1>10, <1>11, <1>12 DEF Next

(* Every variable stays in its type, and $i within the loops' limits, for  *)
(* any paths and command lines and however the threads' probes alternate.  *)
THEOREM FramingTypes == Spec => []TypeOK
<1>1. ProbeInv => TypeOK
  <2> SUFFICES ASSUME ProbeInv
               PROVE  TypeOK
    OBVIOUS
  <2>1. ASSUME NEW t \in Threads
        PROVE  i[t] \in IF pc[t] = "args" THEN 1..(MaxArgs + 1)
                        ELSE 0..(MaxParts + MaxArgs)
    <3>1. /\ Index(t) /\ i[t] \in Nat
          /\ MaxParts \in Nat /\ MaxArgs \in Nat
      BY FramingAssumption DEF ProbeInv
    <3> QED
      BY <3>1 DEF Index
  <2> QED
    BY <2>1 DEF ProbeInv, Parts, TypeOK
<1> QED
  BY <1>1, InitProbe, StepProbe, PTL DEF Spec

-----------------------------------------------------------------------------
(* That the streams are the truth is shown in four parts: what a round of   *)
(* processBpftraceOutput reads, what it reads of a log of whole chunks that *)
(* may break off anywhere, that a call's line is what its probe prints in   *)
(* pieces, and that in every state the log is such chunks and every thread  *)
(* has said so many pieces of its call.                                    *)

(* Least elements. *)
LEMMA Least ==
    ASSUME NEW T, T \subseteq Nat, T # {}
    PROVE  \E m \in T : \A x \in T : m <= x
<1>1. PICK m \in T : \A x \in T : <<x, m>> \notin OpToRel(<, Nat)
  BY NatLessThanWellFounded, WFMin
<1>2. \A x \in T : ~(x < m)
  BY <1>1 DEF OpToRel
<1> QED
  BY <1>2

(* What holds at 0 and goes up to n. *)
LEMMA Climb ==
    ASSUME NEW n \in Nat, NEW S, 0 \in S, \A j \in 0..n-1 : j \in S => j + 1 \in S
    PROVE  \A j \in 0..n : j \in S
<1> SUFFICES ASSUME NEW j \in 0..n, j \notin S
             PROVE  FALSE
  OBVIOUS
<1> DEFINE T == {k \in 0..n : k \notin S}
<1>1. PICK m \in T : \A x \in T : m <= x
  <2>1. T \subseteq Nat /\ T # {}
    OBVIOUS
  <2> HIDE DEF T
  <2> QED
    BY <2>1, Least
<1>2. m \in 1..n /\ m \notin S
  OBVIOUS
<1>3. m - 1 \in S
  <2>1. m - 1 \in 0..n-1 /\ ~(m <= m - 1)
    BY <1>2
  <2>2. m - 1 \in 0..n
    BY <2>1
  <2> QED
    BY <1>1, <2>1, <2>2
<1>4. m - 1 + 1 = m
  BY <1>2
<1> QED
  BY <1>2, <1>3, <1>4

(* The first of a range of positions, if it has one. *)
LEMMA FirstIsThere ==
    ASSUME NEW T, T \subseteq Nat, T # {}
    PROVE  Min(T) \in T /\ \A x \in T : Min(T) <= x
BY Least DEF Min

(* Leading newlines are skipped, and nothing else. *)
LEMMA SkipSpaceSkips ==
    ASSUME NEW raw, NEW n \in Nat, Len(raw) = n, NEW k \in 1..n+1
    PROVE  /\ SkipSpace(raw, k) \in k..n+1
           /\ \A j \in k..SkipSpace(raw, k) - 1 : raw[j] = "nl"
           /\ SkipSpace(raw, k) <= n => raw[SkipSpace(raw, k)] # "nl"
<1> DEFINE I == {j \in k..n : raw[j] # "nl"}
<1>1. SkipSpace(raw, k) = IF (IF I # {} THEN Min(I) ELSE 0) = 0 THEN n + 1 ELSE (IF I # {} THEN Min(I) ELSE 0)
  BY DEF SkipSpace, OrEnd, SelectInSubSeq
<1>2. I # {} => Min(I) \in I /\ \A x \in I : Min(I) <= x
  <2>1. I \subseteq Nat
    OBVIOUS
  <2> HIDE DEF I
  <2> QED
    BY <2>1, FirstIsThere
<1>3. SkipSpace(raw, k) = IF I # {} THEN Min(I) ELSE n + 1
  BY <1>1, <1>2
<1>4. CASE I = {}
  BY <1>3, <1>4
<1>5. CASE I # {}
  <2>1. PICK m \in I : m = SkipSpace(raw, k) /\ \A x \in I : m <= x
    BY <1>2, <1>3, <1>5
  <2>2. \A j \in k..m-1 : j \in k..n /\ ~(m <= j)
    BY <2>1
  <2> QED
    BY <2>1, <2>2
<1> QED
  BY <1>4, <1>5

(* What is found is the next 0x80, or the end. *)
LEMMA NextDelimiterIsNext ==
    ASSUME NEW raw, NEW n \in Nat, Len(raw) = n, NEW k \in 1..n+1
    PROVE  /\ NextDelimiter(raw, k) \in k..n+1
           /\ \A j \in k..NextDelimiter(raw, k) - 1 : raw[j] # D
           /\ NextDelimiter(raw, k) <= n => raw[NextDelimiter(raw, k)] = D
<1> DEFINE I == {j \in k..n : raw[j] = D}
<1>1. NextDelimiter(raw, k) = IF (IF I # {} THEN Min(I) ELSE 0) = 0 THEN n + 1 ELSE (IF I # {} THEN Min(I) ELSE 0)
  BY DEF NextDelimiter, OrEnd, SelectInSubSeq
<1>2. I # {} => Min(I) \in I /\ \A x \in I : Min(I) <= x
  <2>1. I \subseteq Nat
    OBVIOUS
  <2> HIDE DEF I
  <2> QED
    BY <2>1, FirstIsThere
<1>3. NextDelimiter(raw, k) = IF I # {} THEN Min(I) ELSE n + 1
  BY <1>1, <1>2
<1>4. CASE I = {}
  BY <1>3, <1>4
<1>5. CASE I # {}
  <2>1. PICK m \in I : m = NextDelimiter(raw, k) /\ \A x \in I : m <= x
    BY <1>2, <1>3, <1>5
  <2>2. \A j \in k..m-1 : j \in k..n /\ ~(m <= j)
    BY <2>1
  <2> QED
    BY <2>1, <2>2
<1> QED
  BY <1>4, <1>5

(* A round reads on behind where it began. *)
LEMMA ReadsLater ==
    ASSUME NEW raw, NEW n \in Nat, Len(raw) = n, NEW k \in 1..n+1, NEW f, NEW g,
           \A j \in k+1..n+1 : f[j] = g[j]
    PROVE  ReadChunk(raw, k, f) = ReadChunk(raw, k, g)
<1> DEFINE start == SkipSpace(raw, k)
           digits == IF start <= n /\ raw[start] \in Pids THEN 1 ELSE 0
           open == start + digits
           close == NextDelimiter(raw, open + 1)
           next == IF close <= n THEN close + 1 ELSE n + 1
<1>1. start \in k..n+1
  BY SkipSpaceSkips
<1>2. open \in k..n+2
  BY <1>1
<1> HIDE DEF start
<1>3. CASE open > n \/ raw[open] # D
  BY <1>3 DEF ReadChunk, start
<1>4. CASE ~(open > n)
  <2>1. open + 1 \in 1..n+1
    BY <1>2, <1>4
  <2> HIDE DEF open
  <2>2. close \in open+1..n+1
    BY <2>1, NextDelimiterIsNext
  <2> HIDE DEF close
  <2>3. next \in k+1..n+1
    BY <1>2, <1>4, <2>2
  <2>4. f[next] = g[next]
    BY <2>3
  <2> QED
    BY <2>4 DEF ReadChunk, start, open, close
<1> QED
  BY <1>3, <1>4

(* processBpftraceOutput is one round after the other. *)
LEMMA StreamsFrom ==
    ASSUME NEW raw, NEW n \in Nat, Len(raw) = n
    PROVE  \E f : /\ Streams(raw) = f[1]
                  /\ \A k \in 1..n+1 : f[k] = ReadChunk(raw, k, f)
<1> DEFINE Reads(f, low) == \A k \in low..n+1 : f[k] = ReadChunk(raw, k, f)
           S == {j \in 0..n : \E f : Reads(f, n + 1 - j)}
<1>1. 0 \in S
  <2> DEFINE f == [k \in {n + 1} |-> ReadChunk(raw, n + 1, <<>>)]
  <2>1. f[n + 1] = ReadChunk(raw, n + 1, <<>>)
    OBVIOUS
  <2> HIDE DEF f
  <2>2. ReadChunk(raw, n + 1, <<>>) = ReadChunk(raw, n + 1, f)
    <3>1. n + 1 \in 1..n+1 /\ n + 1 + 1..n + 1 = {}
      OBVIOUS
    <3> DEFINE e == <<>>
    <3>2. \A j \in n + 1 + 1..n + 1 : e[j] = f[j]
      BY <3>1
    <3> HIDE DEF e
    <3>3. ReadChunk(raw, n + 1, e) = ReadChunk(raw, n + 1, f)
      BY <3>1, <3>2, ReadsLater
    <3> QED
      BY <3>3 DEF e
  <2>3. \A k \in n+1..n+1 : k = n + 1
    OBVIOUS
  <2>4. Reads(f, n + 1)
    BY <2>1, <2>2, <2>3
  <2> QED
    BY <2>4
<1>2. ASSUME NEW j \in 0..n-1, j \in S
      PROVE  j + 1 \in S
  <2>1. PICK f : Reads(f, n + 1 - j)
    BY <1>2
  <2> DEFINE low == n + 1 - j
             g == [k \in 1..n+1 |-> IF k = low - 1 THEN ReadChunk(raw, k, f) ELSE f[k]]
  <2>2. low \in 2..n+1 /\ j + 1 \in 0..n /\ n + 1 - (j + 1) = low - 1
    OBVIOUS
  <2> HIDE DEF low
  <2>3. \A k \in 1..n+1 : g[k] = IF k = low - 1 THEN ReadChunk(raw, k, f) ELSE f[k]
    OBVIOUS
  <2> HIDE DEF g
  <2>4. ASSUME NEW k \in low-1..n+1
        PROVE  g[k] = ReadChunk(raw, k, g)
    <3>1. k \in 1..n+1
      BY <2>2
    <3>2. \A m \in k+1..n+1 : m \in 1..n+1 /\ m # low - 1
      BY <2>2
    <3>3. \A m \in k+1..n+1 : f[m] = g[m]
      BY <2>3, <3>2
    <3>4. ReadChunk(raw, k, f) = ReadChunk(raw, k, g)
      BY <3>1, <3>3, ReadsLater
    <3>5. CASE k = low - 1
      BY <2>3, <3>1, <3>4, <3>5
    <3>6. CASE k # low - 1
      <4>1. k \in low..n+1
        BY <2>2, <3>6
      <4>2. f[k] = ReadChunk(raw, k, f)
        BY <2>1, <4>1 DEF low
      <4> QED
        BY <2>3, <3>1, <3>4, <3>6, <4>2
    <3> QED
      BY <3>5, <3>6
  <2>5. Reads(g, low - 1)
    BY <2>4
  <2> QED
    BY <2>2, <2>5
<1>3. n \in S
  <2> HIDE DEF S
  <2>1. \A j \in 0..n-1 : j \in S => j + 1 \in S
    BY <1>2
  <2>2. \A j \in 0..n : j \in S
    BY <1>1, <2>1, Climb
  <2> QED
    BY <2>2
<1>4. PICK f : Reads(f, 1)
  <2>1. n + 1 - n = 1
    OBVIOUS
  <2> QED
    BY <1>3, <2>1
<1> DEFINE g == [k \in 1..n+1 |-> f[k]]
           Is(h) == h = [k \in 1..n+1 |-> ReadChunk(raw, k, h)]
<1>5. Is(g)
  <2>1. ASSUME NEW k \in 1..n+1
        PROVE  f[k] = ReadChunk(raw, k, g)
    <3>1. \A m \in k+1..n+1 : f[m] = g[m]
      OBVIOUS
    <3> HIDE DEF g
    <3>2. ReadChunk(raw, k, f) = ReadChunk(raw, k, g)
      BY <3>1, ReadsLater
    <3> QED
      BY <1>4, <3>2
  <2> QED
    BY <2>1, Zenon
<1> HIDE DEF g
<1> DEFINE from == CHOOSE h : h = [k \in 1..n+1 |-> ReadChunk(raw, k, h)]
<1>6. Is(from)
  BY <1>5, Zenon
<1>7. Streams(raw) = from[1]
  BY Zenon DEF Streams
<1>8. \A k \in 1..n+1 : from[k] = ReadChunk(raw, k, from)
  BY <1>6, Zenon
<1> QED
  BY <1>7, <1>8, Zenon

-----------------------------------------------------------------------------
Letters == {"execve", "creat", "openat", "flags", "nl", "/"} \cup UNION {ToSet(n) : n \in Names}
Text == Seq(Letters)
Symbols == Pids \cup Letters \cup {D}

(* Positions d + 1 to f of a log are one chunk. *)
IsChunk(raw, d, f) ==
    /\ d + 3 <= f
    /\ raw[d + 1] \in Pids /\ raw[d + 2] = D /\ raw[f] = D
    /\ \A k \in d+3..f-1 : raw[k] \in Letters

(* What process p says comes after, or before, what all said. *)
Then(heard, p, content) == [heard EXCEPT ![p] = @ \o content]
First(heard, p, content) == [heard EXCEPT ![p] = content \o @]
(* All was said in two parts. *)
Splits(all, before, later) == \A p \in Pids : all[p] = before[p] \o later[p]

(* From d the next chunk ends at f, and its process has then said more. *)
NextChunk(raw, E, heard, d, f) ==
    /\ IsChunk(raw, d, f)
    /\ \A e \in E : e <= d \/ f <= e
    /\ heard[f] = Then(heard[d], raw[d + 1], SubSeq(raw, d + 3, f - 1))

(* A log is chunks: E is where they end, heard what the processes have     *)
(* said up to there.                                                       *)
Chunks(raw, E, heard) ==
    /\ raw \in Seq(Symbols)
    /\ E \subseteq 0..Len(raw) /\ 0 \in E /\ Len(raw) \in E
    /\ heard \in [E -> [Pids -> Text]] /\ heard[0] = NoStreams
    /\ \A d \in E : d # Len(raw) => \E f \in E : NextChunk(raw, E, heard, d, f)

(* What two texts have in common. *)
LEMMA Spelt ==
    ASSUME NEW s, NEW t, NEW a \in Nat, NEW b \in Nat,
           \A k \in a..b : s[k] = t[k] /\ t[k] \in Letters
    PROVE  SubSeq(t, a, b) = SubSeq(s, a, b) /\ SubSeq(t, a, b) \in Text
<1> DEFINE n == IF a <= b THEN b - a + 1 ELSE 0
<1>1. n \in Nat /\ \A k \in 1..n : a + k - 1 \in a..b
  OBVIOUS
<1>2. SubSeq(t, a, b) = [k \in 1..n |-> t[a + k - 1]] /\ SubSeq(s, a, b) = [k \in 1..n |-> s[a + k - 1]]
  BY SubSeqProperties
<1> HIDE DEF n
<1>3. SubSeq(t, a, b) \in [1..n -> Letters]
  BY <1>1, <1>2
<1>4. SubSeq(t, a, b) \in Text
  BY <1>1, <1>3, SeqDef DEF Text
<1> QED
  BY <1>1, <1>2, <1>4

(* A text has only letters. *)
LEMMA OneLetter ==
    ASSUME NEW S, NEW x, x \notin S
    PROVE  <<x>> \notin Seq(S)
<1>1. \A t \in Seq(S) : Len(t) = 1 => t[1] \in S
  OBVIOUS
<1> DEFINE t == <<x>>
<1>2. t[1] = x /\ Len(t) = 1
  OBVIOUS
<1> HIDE DEF t
<1>3. t \notin Seq(S)
  BY <1>1, <1>2
<1> QED
  BY <1>3 DEF t

(* Texts are put together in any order. *)
LEMMA Together == \A a, b, c \in Text : a \o b \in Text /\ (a \o b) \o c = a \o (b \o c)
BY ConcatProperties, ConcatAssociative DEF Text

(* More said by one process is said after what was said before, and before *)
(* what is said later.                                                     *)
LEMMA SaidBetween ==
    ASSUME NEW all, NEW before \in [Pids -> Text], NEW later \in [Pids -> Text],
           NEW c \in Text, NEW p \in Pids
    PROVE  /\ Then(before, p, c) \in [Pids -> Text] /\ First(later, p, c) \in [Pids -> Text]
           /\ Splits(all, Then(before, p, c), later) => Splits(all, before, First(later, p, c))
<1>1. \A b, l \in Text : b \o c \in Text /\ c \o l \in Text /\ (b \o c) \o l = b \o (c \o l)
  BY Together
<1> DEFINE now == Then(before, p, c)
           then == First(later, p, c)
<1>2. now \in [Pids -> Text] /\ then \in [Pids -> Text]
  <2>1. c \o later[p] \in Text /\ before[p] \o c \in Text
    BY <1>1
  <2> QED
    BY <2>1 DEF Then, First
<1>3. ASSUME Splits(all, now, later), NEW q \in Pids
      PROVE  all[q] = before[q] \o then[q]
  <2>1. CASE q = p
    <3>1. now[q] = before[q] \o c /\ then[q] = c \o later[q]
      BY <2>1 DEF Then, First
    <3>2. all[q] = now[q] \o later[q]
      BY <1>3 DEF Splits
    <3>3. (before[q] \o c) \o later[q] = before[q] \o (c \o later[q])
      BY <1>1
    <3> QED
      BY <3>1, <3>2, <3>3, Zenon
  <2>2. CASE q # p
    <3>1. now[q] = before[q] /\ then[q] = later[q]
      BY <2>2 DEF Then, First
    <3>2. all[q] = now[q] \o later[q]
      BY <1>3 DEF Splits
    <3> QED
      BY <3>1, <3>2, Zenon
  <2> QED
    BY <2>1, <2>2
<1> QED
  BY <1>2, <1>3 DEF Splits

(* A chunk of process p, with content c. *)
ChunkOf(raw, d, f, p, c) ==
    /\ Len(raw) \in Nat /\ d \in Nat /\ f \in 1..Len(raw)
    /\ IsChunk(raw, d, f)
    /\ p = raw[d + 1] /\ c = SubSeq(raw, d + 3, f - 1)

(* A whole chunk goes before what follows in its process's stream. *)
LEMMA ReadsWhole ==
    ASSUME D \notin Letters, NEW raw, NEW d, NEW f, NEW p, NEW c, ChunkOf(raw, d, f, p, c),
           NEW from, NEW after \in [Pids -> Text], after = from[f + 1], NEW k, k = d + 1
    PROVE  ReadChunk(raw, k, from) = First(after, p, c)
<1> SUFFICES ReadChunk(raw, d + 1, from)
             = [from[f + 1] EXCEPT ![raw[d + 1]] = SubSeq(raw, d + 3, f - 1) \o @]
  BY DEF First, ChunkOf
<1>0. PICK n \in Nat : n = Len(raw) /\ d \in Nat /\ f \in 1..n /\ IsChunk(raw, d, f)
  BY DEF ChunkOf
<1>1. /\ d + 3 <= f /\ raw[d + 1] \in Pids /\ raw[d + 2] = D /\ raw[f] = D
      /\ \A j \in d+3..f-1 : raw[j] # D
  BY <1>0 DEF IsChunk
<1>2. d + 1 \in 1..n /\ d + 2 \in 1..n /\ d + 3 \in 1..n+1
  BY <1>0, <1>1
<1>3. SkipSpace(raw, d + 1) = d + 1
  <2>1. raw[d + 1] # "nl"
    BY <1>1, FramingAssumption
  <2>2. k \in 1..n+1 /\ raw[k] # "nl"
    BY <1>2, <2>1
  <2>4. SkipSpace(raw, k) \in k..n+1 /\ \A j \in k..SkipSpace(raw, k) - 1 : raw[j] = "nl"
    BY <1>0, <2>2, SkipSpaceSkips
  <2>5. SkipSpace(raw, k) = k
    BY <1>0, <2>2, <2>4
  <2> QED
    BY <2>5
<1>4. NextDelimiter(raw, d + 3) = f
  <2>1. PICK e : e = NextDelimiter(raw, d + 3)
    OBVIOUS
  <2>2. e \in d+3..n+1 /\ (\A j \in d+3..e-1 : raw[j] # D) /\ (e <= n => raw[e] = D)
    BY <1>0, <1>2, <2>1, NextDelimiterIsNext
  <2>3. ~(f < e)
    BY <1>0, <1>1, <2>2
  <2>4. ~(e < f)
    BY <1>0, <1>1, <2>2
  <2> QED
    BY <1>0, <2>1, <2>2, <2>3, <2>4
<1>5. from[f + 1] # Fails
  <2>1. PICK q \in Pids : TRUE
    BY FramingAssumption
  <2>2. from[f + 1][q] \in Seq(Letters)
    BY DEF Text
  <2>3. Fails[q] = <<D>>
    BY DEF Fails
  <2>4. <<D>> \notin Seq(Letters)
    BY OneLetter
  <2> QED
    BY <2>2, <2>3, <2>4
<1> DEFINE start == SkipSpace(raw, d + 1)
           digits == IF start <= Len(raw) /\ raw[start] \in Pids THEN 1 ELSE 0
           open == start + digits
           close == NextDelimiter(raw, open + 1)
           rest == from[IF close <= Len(raw) THEN close + 1 ELSE Len(raw) + 1]
<1>6. ReadChunk(raw, d + 1, from) =
        IF open > Len(raw) \/ raw[open] # D THEN NoStreams
        ELSE IF digits = 0 THEN Fails
        ELSE IF ~(close <= Len(raw)) THEN NoStreams
        ELSE IF rest = Fails THEN Fails
        ELSE [rest EXCEPT ![raw[start]] = SubSeq(raw, open + 1, close - 1) \o @]
  BY Zenon DEF ReadChunk, IsClosed
<1>7. start = d + 1
  BY <1>3
<1> HIDE DEF start
<1>8. digits = 1
  BY <1>0, <1>1, <1>2, <1>7
<1> HIDE DEF digits
<1>9. open = d + 2 /\ open + 1 = d + 3
  BY <1>0, <1>7, <1>8
<1> HIDE DEF open
<1>10. close = f
  BY <1>4, <1>9
<1> HIDE DEF close
<1>11. rest = from[f + 1]
  BY <1>0, <1>10
<1> HIDE DEF rest
<1>12. ~(open > Len(raw)) /\ raw[open] = D /\ close <= Len(raw) /\ ~(digits = 0)
  BY <1>0, <1>1, <1>2, <1>8, <1>9, <1>10
<1> QED
  BY <1>5, <1>6, <1>7, <1>9, <1>10, <1>11, <1>12, Zenon

(* An unfinished chunk, or none, gives no stream. *)
LEMMA ReadsNoMore ==
    ASSUME NEW raw, NEW n \in Nat, Len(raw) = n, NEW k \in 1..n+1, NEW from,
           \/ \A j \in k..n : raw[j] = "nl"
           \/ /\ raw[k] \in Pids
              /\ k + 1 <= n => \/ raw[k + 1] # D
                               \/ \A j \in k+2..n : raw[j] # D
    PROVE  ReadChunk(raw, k, from) = NoStreams
<1> DEFINE start == SkipSpace(raw, k)
           digits == IF start <= Len(raw) /\ raw[start] \in Pids THEN 1 ELSE 0
           open == start + digits
           close == NextDelimiter(raw, open + 1)
           rest == from[IF close <= Len(raw) THEN close + 1 ELSE Len(raw) + 1]
<1>1. ReadChunk(raw, k, from) =
        IF open > Len(raw) \/ raw[open] # D THEN NoStreams
        ELSE IF digits = 0 THEN Fails
        ELSE IF ~(close <= Len(raw)) THEN NoStreams
        ELSE IF rest = Fails THEN Fails
        ELSE [rest EXCEPT ![raw[start]] = SubSeq(raw, open + 1, close - 1) \o @]
  BY Zenon DEF ReadChunk, IsClosed
<1>2. /\ start \in k..n+1 /\ (\A j \in k..start-1 : raw[j] = "nl")
      /\ start <= n => raw[start] # "nl"
  BY SkipSpaceSkips
<1> HIDE DEF start
<1>3. CASE \A j \in k..n : raw[j] = "nl"
  <2>1. start = n + 1
    BY <1>2, <1>3
  <2>2. open > Len(raw)
    BY <2>1
  <2> HIDE DEF open
  <2> QED
    BY <1>1, <2>2, Zenon
<1>4. CASE /\ ~(\A j \in k..n : raw[j] = "nl")
           /\ raw[k] \in Pids
           /\ k + 1 <= n => \/ raw[k + 1] # D
                            \/ \A j \in k+2..n : raw[j] # D
  <2>1. k <= n /\ raw[k] # "nl"
    BY <1>4, FramingAssumption
  <2>2. start = k
    BY <1>2, <2>1
  <2>3. digits = 1
    BY <1>4, <2>1, <2>2
  <2>4. open = k + 1 /\ open + 1 = k + 2
    BY <2>2, <2>3
  <2> HIDE DEF digits, open
  <2>5. CASE open > Len(raw) \/ raw[open] # D
    BY <1>1, <2>5, Zenon
  <2>6. CASE ~(open > Len(raw) \/ raw[open] # D)
    <3>1. k + 2 \in 1..n+1 /\ \A j \in k+2..n : raw[j] # D
      BY <1>4, <2>4, <2>6
    <3>2. NextDelimiter(raw, k + 2) > n
      BY <3>1, NextDelimiterIsNext
    <3>3. ~(close <= Len(raw))
      BY <2>4, <3>2, <3>1, NextDelimiterIsNext
    <3>4. ~(digits = 0)
      BY <2>3
    <3> HIDE DEF close, rest
    <3> QED
      BY <1>1, <2>6, <3>3, <3>4, Zenon
  <2> QED
    BY <2>5, <2>6
<1> QED
  BY <1>3, <1>4

(* What is read of the beginning of a log: the streams of its last whole   *)
(* chunk; what was said up to an earlier one is a beginning of them.       *)
LEMMA BeginningRead ==
    ASSUME D \notin Letters, NEW text, NEW N \in Nat, Len(text) = N, NEW E, NEW heard,
           Chunks(text, E, heard),
           NEW n \in 0..N, NEW raw, Len(raw) = n \/ (Len(raw) = n + 1 /\ raw[n + 1] = "nl"),
           \A k \in 1..n : raw[k] = text[k]
    PROVE  \E e \in E : /\ Streams(raw) = heard[e]
                        /\ n \in E => e = n
                        /\ \A d \in E : d <= e =>
                              \A p \in Pids : \E x \in Text : heard[e][p] = heard[d][p] \o x
<1>1. E \subseteq 0..N /\ 0 \in E /\ N \in E
  BY DEF Chunks
<1>h. heard \in [E -> [Pids -> Text]] /\ heard[0] = NoStreams
  BY DEF Chunks
<1>n. \A d \in E : d # N => \E f \in E : NextChunk(text, E, heard, d, f)
  BY DEF Chunks
<1>2. PICK e \in E : e <= n /\ \A d \in E : d <= n => d <= e
  <2> DEFINE T == {n - d : d \in {d \in E : d <= n}}
  <2>1. T \subseteq Nat /\ n - 0 \in T
    BY <1>1
  <2>2. PICK m \in T : \A x \in T : m <= x
    <3> HIDE DEF T
    <3> QED
      BY <2>1, Least
  <2>3. PICK e \in E : e <= n /\ m = n - e
    BY <2>2
  <2>4. ASSUME NEW d \in E, d <= n
        PROVE  d <= e
    <3>1. n - d \in T
      BY <2>4
    <3>2. n - e <= n - d
      BY <2>2, <2>3, <3>1
    <3> QED
      BY <1>1, <3>2
  <2> QED
    BY <2>3, <2>4
<1>3. e \in 0..n /\ (n \in E => e = n)
  BY <1>1, <1>2
<1>4. PICK l \in Nat : Len(raw) = l /\ (l = n \/ (l = n + 1 /\ raw[n + 1] = "nl"))
  OBVIOUS
<1>5. PICK from : /\ Streams(raw) = from[1]
                  /\ \A k \in 1..l+1 : from[k] = ReadChunk(raw, k, from)
  BY <1>4, StreamsFrom
<1>6. from[e + 1] = NoStreams
  <2>1. e + 1 \in 1..l+1 /\ e + 1 + 1 = e + 2 /\ e + 1 + 2 = e + 3
    BY <1>1, <1>2, <1>4
  <2>2. CASE e = n
    <3>1. \A j \in e+1..l : raw[j] = "nl"
      BY <1>4, <2>2
    <3>2. ReadChunk(raw, e + 1, from) = NoStreams
      BY <1>4, <2>1, <3>1, ReadsNoMore
    <3> QED
      BY <1>5, <2>1, <3>2
  <2>3. CASE e # n
    <3>0. e # N
      BY <1>1, <1>2, <2>3
    <3>1. PICK f \in E : IsChunk(text, e, f) /\ \A d \in E : d <= e \/ f <= d
      BY <1>n, <3>0 DEF NextChunk
    <3>2. /\ e + 3 <= f /\ f \in Nat /\ e \in Nat
          /\ text[e + 1] \in Pids /\ text[e + 2] = D /\ \A k \in e+3..f-1 : text[k] \in Letters
      BY <1>1, <3>1 DEF IsChunk
    <3>3. n < f
      BY <1>1, <1>2, <3>1, <3>2
    <3>4. raw[e + 1] \in Pids
      BY <1>1, <1>2, <2>3, <3>2
    <3>5. ASSUME e + 2 <= l, raw[e + 2] = D
          PROVE  \A j \in e+3..l : raw[j] # D
      <4> SUFFICES ASSUME NEW j \in e+3..l
                   PROVE  raw[j] # D
        OBVIOUS
      <4>1. CASE j <= n
        <5>1. j \in 1..n /\ j \in e+3..f-1
          BY <3>2, <3>3, <4>1
        <5> QED
          BY <3>2, <5>1
      <4>2. CASE ~(j <= n)
        <5>1. j = n + 1 /\ raw[n + 1] = "nl"
          BY <1>4, <3>2, <4>2
        <5> QED
          BY <5>1 DEF D
      <4> QED
        BY <4>1, <4>2
    <3>6. ReadChunk(raw, e + 1, from) = NoStreams
      BY <1>4, <2>1, <3>4, <3>5, ReadsNoMore
    <3> QED
      BY <1>5, <2>1, <3>6
  <2> QED
    BY <2>2, <2>3
<1> DEFINE ReadFrom(d) == /\ from[d + 1] \in [Pids -> Text]
                      /\ Splits(heard[e], heard[d], from[d + 1])
           S == {j \in 0..e : \A d \in E : e - j <= d /\ d <= e => ReadFrom(d)}
<1>7. 0 \in S
  <2>1. NoStreams \in [Pids -> Text]
    BY DEF NoStreams, Text
  <2>2. \A p \in Pids : heard[e][p] \o NoStreams[p] = heard[e][p]
    BY <1>1 DEF NoStreams, Text
  <2>3. ReadFrom(e)
    BY <1>6, <2>1, <2>2 DEF Splits
  <2> HIDE DEF ReadFrom
  <2>4. \A d \in E : e - 0 <= d /\ d <= e => d = e
    BY <1>1
  <2>5. 0 \in 0..e
    BY <1>1
  <2> QED
    BY <2>3, <2>4, <2>5
<1>8. ASSUME NEW j \in 0..e-1, j \in S
      PROVE  j + 1 \in S
  <2>1. ASSUME NEW d \in E, e - (j + 1) <= d, d < e
        PROVE  ReadFrom(d)
    <3>0. d # N /\ ~(e <= d)
      BY <1>1, <1>2, <2>1
    <3>1. PICK f \in E : /\ IsChunk(text, d, f) /\ f <= e
                         /\ heard[f] = Then(heard[d], text[d + 1], SubSeq(text, d + 3, f - 1))
      <4>1. PICK f \in E : NextChunk(text, E, heard, d, f)
        BY <1>n, <3>0
      <4>2. f <= e
        BY <1>2, <3>0, <4>1 DEF NextChunk
      <4> QED
        BY <4>1, <4>2 DEF NextChunk
    <3>2. /\ d + 3 <= f /\ f \in 1..l /\ f \in 1..n /\ d \in Nat
      BY <1>1, <1>2, <1>4, <3>1 DEF IsChunk
    <3>3. ReadFrom(f)
      <4>1. e - j <= f /\ f <= e
        BY <1>1, <2>1, <3>1, <3>2
      <4> HIDE DEF ReadFrom
      <4> QED
        BY <1>8, <4>1
    <3>4. IsChunk(raw, d, f)
      BY <3>1, <3>2 DEF IsChunk
    <3>5. PICK p \in Pids : p = text[d + 1] /\ raw[d + 1] = p
      BY <3>1, <3>2 DEF IsChunk
    <3>6. PICK c \in Text : c = SubSeq(text, d + 3, f - 1) /\ c = SubSeq(raw, d + 3, f - 1)
      <4>1. \A k \in d+3..f-1 : raw[k] = text[k] /\ text[k] \in Letters
        BY <3>1, <3>2 DEF IsChunk
      <4>2. d + 3 \in Nat /\ f - 1 \in Nat
        BY <3>2
      <4>3. PICK a, b \in Nat : a = d + 3 /\ b = f - 1
        BY <4>2
      <4>4. \A k \in a..b : raw[k] = text[k] /\ text[k] \in Letters
        BY <4>1, <4>3
      <4>5. SubSeq(text, a, b) = SubSeq(raw, a, b) /\ SubSeq(text, a, b) \in Text
        BY <4>4, Spelt
      <4> QED
        BY <4>3, <4>5
    <3>7. from[d + 1] = First(from[f + 1], p, c)
      <4>1. PICK k, r : k = d + 1 /\ r = from[f + 1]
        OBVIOUS
      <4>3. ReadChunk(raw, k, from) = First(r, p, c)
        <5>1. Len(raw) = l /\ d \in Nat /\ f \in 1..l /\ r \in [Pids -> Text]
          BY <1>4, <3>2, <3>3, <4>1
        <5>2. c = SubSeq(raw, d + 3, f - 1) /\ p = raw[d + 1]
          BY <3>5, <3>6
        <5>3. ChunkOf(raw, d, f, p, c)
          BY <3>4, <5>1, <5>2 DEF ChunkOf
        <5> QED
          BY <4>1, <5>1, <5>3, ReadsWhole
      <4>2. d + 1 \in 1..l+1
        BY <3>2
      <4> QED
        BY <1>5, <4>1, <4>2, <4>3
    <3>8. heard[f] = Then(heard[d], p, c)
      BY <3>1, <3>5, <3>6
    <3>9. heard[d] \in [Pids -> Text]
      BY <1>h
    <3> HIDE DEF S
    <3>10. PICK all, before, now, later, then :
              /\ all = heard[e] /\ before = heard[d] /\ now = heard[f]
              /\ later = from[f + 1] /\ then = from[d + 1]
      OBVIOUS
    <3>11. /\ before \in [Pids -> Text] /\ later \in [Pids -> Text]
           /\ now = Then(before, p, c) /\ then = First(later, p, c)
           /\ Splits(all, now, later)
      BY <3>3, <3>7, <3>8, <3>9, <3>10
    <3>12. then \in [Pids -> Text] /\ Splits(all, before, then)
      BY <3>11, SaidBetween
    <3> QED
      BY <3>10, <3>12
  <2> HIDE DEF ReadFrom
  <2>2. ASSUME NEW d \in E, e - (j + 1) <= d, d <= e, ~(d < e)
        PROVE  ReadFrom(d)
    BY <1>1, <1>7, <2>2
  <2>3. j + 1 \in 0..e
    BY <1>1
  <2> QED
    BY <2>1, <2>2, <2>3
<1>9. e \in S
  <2> HIDE DEF S
  <2>1. \A j \in 0..e-1 : j \in S => j + 1 \in S
    BY <1>8
  <2>2. e \in Nat
    BY <1>1
  <2>3. \A j \in 0..e : j \in S
    BY <1>7, <2>1, <2>2, Climb
  <2> QED
    BY <2>2, <2>3
<1>10. ASSUME NEW d \in E, d <= e
       PROVE  ReadFrom(d)
  <2>1. e - e <= d
    BY <1>1, <1>2
  <2> HIDE DEF ReadFrom
  <2> QED
    BY <1>9, <1>10, <2>1
<1>11. from[1] = heard[e]
  <2>1. ReadFrom(0)
    <3>1. 0 <= e
      BY <1>1, <1>2
    <3> HIDE DEF ReadFrom
    <3> QED
      BY <1>1, <1>10, <3>1
  <2>2. from[1] \in [Pids -> Text] /\ \A p \in Pids : heard[e][p] = NoStreams[p] \o from[1][p]
    <3>1. 0 + 1 = 1
      OBVIOUS
    <3> QED
      BY <1>h, <2>1, <3>1 DEF Splits
  <2>3. \A p \in Pids : heard[e][p] = from[1][p]
    BY <2>2 DEF NoStreams, Text
  <2>4. heard[e] \in [Pids -> Text]
    BY <1>h
  <2> QED
    BY <2>2, <2>3, <2>4
<1>12. ASSUME NEW d \in E, d <= e, NEW p \in Pids
       PROVE  \E x \in Text : heard[e][p] = heard[d][p] \o x
  BY <1>10, <1>12 DEF Splits
<1>13. Streams(raw) = heard[e]
  BY <1>5, <1>11
<1> QED
  BY <1>3, <1>12, <1>13

(* The chunk of process p with content c. *)
Spoken(p, c) == <<p, D>> \o c \o <<D>>

(* What a chunk looks like. *)
LEMMA ChunkText ==
    ASSUME NEW p \in Pids, NEW c \in Text, NEW t, t = Spoken(p, c)
    PROVE  /\ t \in Seq(Symbols) /\ Len(t) = Len(c) + 3 /\ Len(c) \in Nat
           /\ t[1] = p /\ t[2] = D /\ t[Len(c) + 3] = D
           /\ \A k \in 1..Len(c) : t[k + 2] = c[k]
<1>1. c \in Seq(Symbols) /\ <<p, D>> \in Seq(Symbols) /\ <<D>> \in Seq(Symbols) /\ Len(c) \in Nat
  BY DEF Text, Symbols
<1>2. Len(<<p, D>>) = 2 /\ <<p, D>>[1] = p /\ <<p, D>>[2] = D /\ Len(<<D>>) = 1 /\ <<D>>[1] = D
  OBVIOUS
<1> DEFINE a == <<p, D>>
           z == <<D>>
<1>3. PICK s : s = a \o c
  OBVIOUS
<1>4. t = s \o z
  BY <1>3 DEF Spoken
<1> HIDE DEF a, z
<1>5. /\ s \in Seq(Symbols) /\ Len(s) = Len(c) + 2 /\ s[1] = p /\ s[2] = D
      /\ \A k \in 1..Len(c) : s[k + 2] = c[k]
  BY <1>1, <1>2, <1>3, ConcatProperties DEF a
<1>6. /\ t \in Seq(Symbols) /\ Len(t) = Len(s) + 1 /\ t[Len(s) + 1] = D
      /\ \A k \in 1..Len(s) : t[k] = s[k]
  BY <1>1, <1>2, <1>4, <1>5, ConcatProperties DEF z
<1>7. Len(c) + 2 + 1 = Len(c) + 3 /\ \A k \in 1..Len(c) : k + 2 \in 1..Len(c) + 2
  BY <1>1
<1>8. 1 \in 1..Len(c) + 2 /\ 2 \in 1..Len(c) + 2
  BY <1>1
<1> QED
  BY <1>1, <1>5, <1>6, <1>7, <1>8

(* What has been said in a log of whole chunks. *)
Heard(text, all) == \E E, heard : Chunks(text, E, heard) /\ heard[Len(text)] = all

(* Nothing has been printed yet. *)
LEMMA NothingHeard == Heard(<<>>, NoStreams)
<1> DEFINE heard == [e \in {0} |-> NoStreams]
<1>1. Len(<<>>) = 0 /\ <<>> \in Seq(Symbols) /\ 0..0 = {0}
  OBVIOUS
<1>2. NoStreams \in [Pids -> Text]
  BY DEF NoStreams, Text
<1>3. heard \in [{0} -> [Pids -> Text]] /\ heard[0] = NoStreams
  BY <1>2
<1> HIDE DEF heard
<1>4. Chunks(<<>>, {0}, heard)
  BY <1>1, <1>3 DEF Chunks
<1> QED
  BY <1>1, <1>3, <1>4 DEF Heard

(* One more chunk, and its process has said its content. *)
LEMMA ChunkHeard ==
    ASSUME NEW text, NEW all, Heard(text, all), NEW p \in Pids, NEW c \in Text
    PROVE  Heard(text \o Spoken(p, c), Then(all, p, c))
<1>0. PICK t : t = Spoken(p, c)
  OBVIOUS
<1>1. PICK E, heard : Chunks(text, E, heard) /\ heard[Len(text)] = all
  BY DEF Heard
<1>2. PICK N, M \in Nat : N = Len(text) /\ M = Len(c) /\ text \in Seq(Symbols)
  BY <1>1 DEF Chunks, Text
<1>3. /\ t \in Seq(Symbols) /\ Len(t) = M + 3
      /\ t[1] = p /\ t[2] = D /\ t[M + 3] = D
      /\ \A k \in 1..M : t[k + 2] = c[k]
  BY <1>0, <1>2, ChunkText
<1>4. PICK new : new = text \o t /\ new = text \o Spoken(p, c)
  BY <1>0
<1> DEFINE L == N + M + 3
<1>5. /\ new \in Seq(Symbols) /\ Len(new) = L
      /\ \A k \in 1..N : new[k] = text[k]
      /\ \A k \in 1..M+3 : new[N + k] = t[k]
  <2>1. new = text \o t /\ text \in Seq(Symbols) /\ Len(text) = N
    BY <1>2, <1>4
  <2>2. t \in Seq(Symbols) /\ Len(t) = M + 3
    BY <1>3
  <2>3. new \in Seq(Symbols) /\ Len(new) = N + (M + 3)
    <3>1. text \in Seq(Symbols) /\ t \in Seq(Symbols)
      BY <2>1, <2>2
    <3>2. text \o t \in Seq(Symbols) /\ Len(text \o t) = Len(text) + Len(t)
      BY <3>1, ConcatProperties
    <3> QED
      BY <2>1, <2>2, <3>2, Zenon
  <2>4. \A k \in 1..N : new[k] = text[k]
    BY <2>1, <2>2, ConcatProperties
  <2>5. ASSUME NEW k \in 1..M+3
        PROVE  new[N + k] = t[k]
    <3>1. PICK j : j = N + k /\ j \in 1..N + (M + 3) /\ ~(j <= N) /\ j - N = k
      OBVIOUS
    <3>2. new[j] = IF j <= N THEN text[j] ELSE t[j - N]
      BY <2>1, <2>2, <3>1, ConcatProperties
    <3> QED
      BY <3>1, <3>2
  <2> QED
    BY <2>3, <2>4, <2>5
<1>6. /\ new[N + 1] = p /\ new[N + 2] = D /\ new[L] = D
      /\ \A k \in 1..M : new[N + 2 + k] = c[k]
  <2>1. 1 \in 1..M+3 /\ 2 \in 1..M+3 /\ M + 3 \in 1..M+3 /\ \A k \in 1..M : k + 2 \in 1..M+3
    OBVIOUS
  <2>2. L = N + (M + 3) /\ \A k \in 1..M : N + 2 + k = N + (k + 2)
    OBVIOUS
  <2> HIDE DEF L
  <2> QED
    BY <1>3, <1>5, <2>1, <2>2
<1>7. L \in Nat /\ N < L /\ N + 3 <= L /\ L - 1 = N + 2 + M
  OBVIOUS
<1> HIDE DEF L
<1>8. SubSeq(new, N + 3, L - 1) = c
  <2>1. \A j \in N+3..L-1 : \E k \in 1..M : j = N + 2 + k
    <3>1. \A j \in N+3..L-1 : j - (N + 2) \in 1..M /\ j = N + 2 + (j - (N + 2))
      BY <1>7
    <3> QED
      BY <3>1
  <2>2. \A j \in N+3..L-1 : new[j] \in Letters
    BY <1>2, <1>6, <2>1 DEF Text
  <2>3. N + 3 \in Int /\ L - 1 \in Int /\ (IF N + 3 <= L - 1 THEN L - 1 - (N + 3) + 1 ELSE 0) = M
        /\ \A k \in 1..M : N + 3 + k - 1 = N + 2 + k /\ k \in 1..(L-1)-(N+3)+1
    BY <1>7
  <2>4. PICK a, b \in Int : a = N + 3 /\ b = L - 1
    BY <2>3
  <2>5. PICK s : s = SubSeq(new, a, b)
    OBVIOUS
  <2>6. /\ s \in Seq(Letters) /\ Len(s) = M
        /\ \A k \in 1..M : s[k] = new[N + 2 + k]
    BY <2>2, <2>3, <2>4, <2>5, SubSeqProperties
  <2>7. s = c
    BY <1>2, <1>6, <2>6, SeqEqual DEF Text
  <2> QED
    BY <2>4, <2>5, <2>7
<1> DEFINE F == E \cup {L}
           later == [e \in F |-> IF e = L THEN Then(all, p, c) ELSE heard[e]]
<1>9. E \subseteq 0..N /\ 0 \in E /\ N \in E /\ heard \in [E -> [Pids -> Text]]
      /\ heard[0] = NoStreams /\ heard[N] = all
      /\ \A d \in E : d # N => \E f \in E : NextChunk(text, E, heard, d, f)
  BY <1>1, <1>2 DEF Chunks
<1>10. Then(all, p, c) \in [Pids -> Text]
  <2>1. all \in [Pids -> Text]
    BY <1>9
  <2>2. all[p] \o c \in Text
    BY <2>1, Together
  <2> QED
    BY <2>1, <2>2 DEF Then
<1>11. /\ later \in [F -> [Pids -> Text]] /\ later[L] = Then(all, p, c)
       /\ \A e \in E : later[e] = heard[e]
  BY <1>7, <1>9, <1>10
<1> HIDE DEF later
<1>12. ASSUME NEW d \in E, d # N
       PROVE  \E f \in F : NextChunk(new, F, later, d, f)
  <2>1. PICK f \in E : NextChunk(text, E, heard, d, f)
    BY <1>9, <1>12
  <2>2. /\ d + 3 <= f /\ text[d + 1] \in Pids /\ text[d + 2] = D /\ text[f] = D
        /\ \A k \in d+3..f-1 : text[k] \in Letters
    BY <2>1 DEF NextChunk, IsChunk
  <2>3. d \in Nat /\ f \in 1..N /\ f <= N /\ d + 1 \in 1..N /\ d + 2 \in 1..N
    BY <1>9, <2>2
  <2>4. \A k \in d+3..f-1 : new[k] = text[k] /\ text[k] \in Letters
    BY <1>5, <2>2, <2>3
  <2>5. IsChunk(new, d, f)
    BY <1>5, <2>2, <2>3, <2>4 DEF IsChunk
  <2>6. SubSeq(new, d + 3, f - 1) = SubSeq(text, d + 3, f - 1)
    <3>1. PICK a, b \in Nat : a = d + 3 /\ b = f - 1
      BY <2>3
    <3>a. \A k \in a..b : new[k] = text[k] /\ text[k] \in Letters
      BY <2>4, <3>1
    <3>2. SubSeq(text, a, b) = SubSeq(new, a, b)
      BY <3>a, Spelt
    <3> QED
      BY <3>1, <3>2
  <2>7. later[f] = Then(later[d], new[d + 1], SubSeq(new, d + 3, f - 1))
    <3>1. heard[f] = Then(heard[d], text[d + 1], SubSeq(text, d + 3, f - 1))
      BY <2>1 DEF NextChunk
    <3>2. later[f] = heard[f] /\ later[d] = heard[d] /\ new[d + 1] = text[d + 1]
      BY <1>5, <1>11, <2>3
    <3> QED
      BY <2>6, <3>1, <3>2, Zenon
  <2>8. \A e \in F : e <= d \/ f <= e
    <3>1. \A e \in E : e <= d \/ f <= e
      BY <2>1 DEF NextChunk
    <3>2. f <= L
      BY <1>7, <2>3
    <3> QED
      BY <3>1, <3>2
  <2> QED
    BY <2>5, <2>7, <2>8 DEF NextChunk
<1>13. NextChunk(new, F, later, N, L)
  <2>1. IsChunk(new, N, L)
    <3>1. \A j \in N+3..L-1 : new[j] \in Letters
      <4>1. \A j \in N+3..L-1 : j - (N + 2) \in 1..M /\ j = N + 2 + (j - (N + 2))
        BY <1>7
      <4>2. \A k \in 1..M : c[k] \in Letters
        BY <1>2 DEF Text
      <4> QED
        BY <1>6, <4>1, <4>2
    <3> QED
      BY <1>6, <1>7, <3>1 DEF IsChunk
  <2>2. \A e \in F : e <= N \/ L <= e
    BY <1>7, <1>9
  <2>3. later[L] = Then(later[N], new[N + 1], SubSeq(new, N + 3, L - 1))
    BY <1>6, <1>8, <1>9, <1>11, Zenon
  <2> QED
    BY <2>1, <2>2, <2>3 DEF NextChunk
<1>14. Chunks(new, F, later)
  <2>1. F \subseteq 0..L /\ 0 \in F /\ L \in F /\ N \in F
    BY <1>7, <1>9
  <2>2. later[0] = NoStreams
    BY <1>9, <1>11
  <2>3. \A d \in F : d # L => \E f \in F : NextChunk(new, F, later, d, f)
    BY <1>12, <1>13
  <2> HIDE DEF F
  <2> QED
    BY <1>5, <1>11, <2>1, <2>2, <2>3 DEF Chunks
<1>15. later[Len(new)] = Then(all, p, c)
  BY <1>5, <1>11
<1> HIDE DEF F
<1> QED
  BY <1>4, <1>14, <1>15 DEF Heard

Begins(s, t) == \E x \in Text : t = s \o x
(* raw is read when n symbols of the text have been written. *)
IsReadOf(raw, text, n) ==
    /\ n \in 0..Len(text) /\ \A k \in 1..n : raw[k] = text[k]
    /\ Len(raw) = n \/ (Len(raw) = n + 1 /\ raw[n + 1] = "nl")

(* What is read of the beginning of a log of whole chunks. *)
LEMMA HeardIsRead ==
    ASSUME D \notin Letters, NEW text, NEW all, Heard(text, all),
           NEW n, NEW raw, IsReadOf(raw, text, n)
    PROVE  /\ Streams(raw) \in [Pids -> Text]
           /\ \A p \in Pids : Begins(Streams(raw)[p], all[p])
           /\ n = Len(text) => Streams(raw) = all
<1> SUFFICES /\ Streams(raw) \in [Pids -> Text]
             /\ \A p \in Pids : \E x \in Text : all[p] = Streams(raw)[p] \o x
             /\ n = Len(text) => Streams(raw) = all
  BY DEF Begins
<1>1. PICK E, heard : Chunks(text, E, heard) /\ heard[Len(text)] = all
  BY DEF Heard
<1>2. PICK N \in Nat : N = Len(text)
  BY <1>1 DEF Chunks
<1>3. E \subseteq 0..N /\ N \in E /\ heard \in [E -> [Pids -> Text]] /\ heard[N] = all
  BY <1>1, <1>2 DEF Chunks
<1>4. PICK e \in E : Streams(raw) = heard[e] /\ (n \in E => e = n)
  BY <1>1, <1>2, BeginningRead DEF IsReadOf
<1>5. \A p \in Pids : \E x \in Text : all[p] = heard[e][p] \o x
  <2>1. PICK d \in E : /\ N \in E => d = N
                       /\ \A b \in E : b <= d =>
                             \A p \in Pids : \E x \in Text : heard[d][p] = heard[b][p] \o x
    <3>1. N \in 0..N /\ Len(text) = N /\ \A k \in 1..N : text[k] = text[k]
      BY <1>2
    <3> QED
      BY <1>1, <3>1, BeginningRead
  <2>2. d = N /\ e <= d
    BY <1>3, <2>1
  <2> QED
    BY <1>3, <2>1, <2>2
<1> QED
  BY <1>2, <1>3, <1>4, <1>5

-----------------------------------------------------------------------------
(* f[k] is what the first k of the n pieces g give together. *)
Runs(n, g, f) ==
    /\ f \in [0..n -> Text] /\ f[0] = <<>>
    /\ \A k \in 1..n : f[k] = f[k - 1] \o g[k]

RunsTo(n, g, text) == \E f : Runs(n, g, f) /\ f[n] = text
(* The m pieces g come after the piece x in b. *)
Follow(m, g, x, b) == b[1] = x /\ \A k \in 1..m : g[k] \in Text /\ b[k + 1] = g[k]

(* The empty text. *)
LEMMA NothingBefore == <<>> \in Text /\ \A c \in Text : <<>> \o c = c /\ c \o <<>> = c
BY DEF Text

(* Pieces, put together. *)
LEMMA FlattenRuns ==
    ASSUME NEW n \in Nat, NEW g \in [1..n -> Text]
    PROVE  RunsTo(n, g, FlattenSeq(g))
<1> SUFFICES \E f : Runs(n, g, f) /\ FlattenSeq(g) = f[n]
  BY DEF RunsTo
<1>1. g \in Seq(Text) /\ Len(g) = n
  BY SeqDef
<1>2. CASE n = 0
  <2> DEFINE f == [k \in 0..n |-> <<>>]
  <2>1. g = <<>>
    BY <1>1, <1>2, EmptySeq
  <2>2. FlattenSeq(g) = <<>>
    BY <1>1, <1>2, <2>1 DEF FlattenSeq
  <2>3. f[0] = <<>> /\ f[n] = <<>> /\ f \in [0..n -> Text] /\ 1..n = {}
    BY <1>2 DEF Text
  <2> HIDE DEF f
  <2> QED
    BY <2>2, <2>3 DEF Runs
<1>3. CASE n # 0
  <2> DEFINE Joins(h, m) == \A k \in 1..m : h[k] = IF k = 1 THEN g[k] ELSE h[k - 1] \o g[k]
             S == {j \in 0..n-1 : \E h : Joins(h, j + 1)}
  <2>1. 0 \in S
    <3> DEFINE h == [k \in 1..1 |-> g[1]]
    <3>1. h[1] = g[1] /\ \A k \in 1..0+1 : k = 1
      OBVIOUS
    <3> HIDE DEF h
    <3>2. Joins(h, 0 + 1)
      BY <3>1
    <3>3. 0 \in 0..n-1
      BY <1>3
    <3> QED
      BY <3>2, <3>3
  <2>2. ASSUME NEW j \in 0..n-1-1, j \in S
        PROVE  j + 1 \in S
    <3>1. PICK h : Joins(h, j + 1)
      BY <2>2
    <3> DEFINE e == [k \in 1..j+2 |-> IF k = j + 2 THEN h[j + 1] \o g[j + 2] ELSE h[k]]
    <3>2. \A k \in 1..j+2 : e[k] = IF k = j + 2 THEN h[j + 1] \o g[j + 2] ELSE h[k]
      OBVIOUS
    <3> HIDE DEF e
    <3>3. ASSUME NEW k \in 1..j+2
          PROVE  e[k] = IF k = 1 THEN g[k] ELSE e[k - 1] \o g[k]
      <4>1. CASE k = j + 2
        <5>1. k # 1 /\ j + 1 \in 1..j+2 /\ k - 1 = j + 1 /\ j + 1 # j + 2
          BY <4>1
        <5>2. e[j + 1] = h[j + 1]
          BY <3>2, <5>1
        <5>3. e[k] = h[j + 1] \o g[k]
          BY <3>2, <4>1
        <5> QED
          BY <5>1, <5>2, <5>3
      <4>2. CASE k # j + 2
        <5>1. k \in 1..j+1 /\ (k # 1 => k - 1 \in 1..j+2 /\ k - 1 # j + 2)
          BY <4>2
        <5>2. e[k] = h[k] /\ (k # 1 => e[k - 1] = h[k - 1])
          BY <3>2, <4>2, <5>1
        <5>3. h[k] = IF k = 1 THEN g[k] ELSE h[k - 1] \o g[k]
          BY <3>1, <5>1
        <5> QED
          BY <5>2, <5>3
      <4> QED
        BY <4>1, <4>2
    <3>4. j + 1 + 1 = j + 2 /\ j + 1 \in 0..n-1
      OBVIOUS
    <3>5. Joins(e, j + 1 + 1)
      BY <3>3, <3>4
    <3> HIDE DEF Joins
    <3> QED
      BY <3>4, <3>5
  <2>3. n - 1 \in S
    <3> HIDE DEF S
    <3>1. PICK m \in Nat : m = n - 1
      BY <1>3
    <3>2. \A j \in 0..m-1 : j \in S => j + 1 \in S
      BY <2>2, <3>1
    <3>3. \A j \in 0..m : j \in S
      BY <2>1, <3>2, Climb
    <3> QED
      BY <3>1, <3>3
  <2>4. PICK h : \A k \in 1..n : h[k] = IF k = 1 THEN g[k] ELSE h[k - 1] \o g[k]
    <3>1. n - 1 + 1 = n
      OBVIOUS
    <3> QED
      BY <2>3, <3>1
  <2> DEFINE Is(x) == x = [k \in 1..Len(g) |-> IF k = 1 THEN g[k] ELSE x[k - 1] \o g[k]]
             y == [k \in 1..n |-> h[k]]
             flatten == CHOOSE x : x = [k \in 1..Len(g) |-> IF k = 1 THEN g[k] ELSE x[k - 1] \o g[k]]
  <2>5. Is(y)
    <3>1. \A k \in 1..n : k # 1 => k - 1 \in 1..n
      OBVIOUS
    <3>2. \A k \in 1..n : h[k] = IF k = 1 THEN g[k] ELSE y[k - 1] \o g[k]
      BY <2>4, <3>1
    <3> QED
      BY <1>1, <3>2, Zenon
  <2> HIDE DEF y
  <2>6. Is(flatten)
    BY <2>5, Zenon
  <2>7. FlattenSeq(g) = flatten[Len(g)]
    <3>1. Len(g) # 0
      BY <1>1, <1>3
    <3> QED
      BY <3>1, Zenon DEF FlattenSeq
  <2>8. \A k \in 1..n : flatten[k] = IF k = 1 THEN g[k] ELSE flatten[k - 1] \o g[k]
    BY <1>1, <2>6, Zenon
  <2> HIDE DEF flatten
  <2>9. \A k \in 1..n : flatten[k] \in Text
    <3> DEFINE V == {j \in 0..n-1 : flatten[j + 1] \in Text}
    <3>1. 0 \in V
      <4>1. 1 \in 1..n /\ 0 + 1 = 1 /\ 0 \in 0..n-1
        BY <1>3
      <4> QED
        BY <2>8, <4>1
    <3>2. ASSUME NEW j \in 0..n-1-1, j \in V
          PROVE  j + 1 \in V
      <4>1. j + 1 + 1 \in 1..n /\ j + 1 + 1 # 1 /\ j + 1 + 1 - 1 = j + 1 /\ j + 1 \in 0..n-1
        OBVIOUS
      <4>2. flatten[j + 1 + 1] = flatten[j + 1] \o g[j + 1 + 1]
        <5>1. PICK k \in 1..n : k = j + 1 + 1 /\ k # 1 /\ k - 1 = j + 1
          BY <4>1
        <5>2. flatten[k] = flatten[k - 1] \o g[k]
          BY <2>8, <5>1
        <5> QED
          BY <5>1, <5>2, Zenon
      <4>3. flatten[j + 1] \in Text /\ g[j + 1 + 1] \in Text
        BY <3>2, <4>1
      <4> QED
        BY <4>1, <4>2, <4>3, Together
    <3>3. PICK m \in Nat : m = n - 1
      BY <1>3
    <3>4. \A j \in 0..m : j \in V
      <4> HIDE DEF V
      <4>1. \A j \in 0..m-1 : j \in V => j + 1 \in V
        BY <3>2, <3>3
      <4> QED
        BY <3>1, <4>1, Climb
    <3> SUFFICES ASSUME NEW k \in 1..n
                 PROVE  flatten[k] \in Text
      OBVIOUS
    <3>5. k - 1 \in 0..m /\ k - 1 + 1 = k
      BY <3>3
    <3> QED
      BY <3>4, <3>5
  <2> DEFINE f == [k \in 0..n |-> IF k = 0 THEN <<>> ELSE flatten[k]]
  <2>10. f \in [0..n -> Text] /\ f[0] = <<>> /\ \A k \in 1..n : f[k] = flatten[k]
    <3>1. PICK e \in Text : e = <<>>
      BY NothingBefore
    <3>2. f = [k \in 0..n |-> IF k = 0 THEN e ELSE flatten[k]]
      BY <3>1
    <3> HIDE DEF f
    <3>3. \A k \in 0..n : k # 0 => k \in 1..n
      OBVIOUS
    <3>4. f \in [0..n -> Text] /\ f[0] = e /\ \A k \in 1..n : f[k] = flatten[k]
      BY <2>9, <3>2, <3>3
    <3> QED
      BY <3>1, <3>4
  <2> HIDE DEF f
  <2>11. ASSUME NEW k \in 1..n
         PROVE  f[k] = f[k - 1] \o g[k]
    <3>1. CASE k = 1
      <4>1. f[k] = g[k] /\ f[k - 1] = <<>>
        BY <2>8, <2>10, <3>1
      <4> QED
        BY <4>1, NothingBefore
    <3>2. CASE k # 1
      <4>1. k - 1 \in 1..n
        BY <3>2
      <4> QED
        BY <2>8, <2>10, <3>2, <4>1
    <3> QED
      BY <3>1, <3>2
  <2>12. FlattenSeq(g) = f[n]
    BY <1>1, <1>3, <2>7, <2>10
  <2> QED
    BY <2>10, <2>11, <2>12 DEF Runs
<1> QED
  BY <1>2, <1>3

AllText(n, g) == \A k \in 1..n : g[k] \in Text

(* What has been run through is a beginning of what will be. *)
LEMMA RunGoesOn ==
    ASSUME NEW n \in Nat, NEW g, NEW f, Runs(n, g, f), AllText(n, g), NEW j \in 0..n
    PROVE  Begins(f[j], f[n])
<1> SUFFICES \E x \in Text : f[n] = f[j] \o x
  BY DEF Begins
<1> DEFINE S == {m \in 0..n : \E x \in Text : f[n] = f[n - m] \o x}
<1>1. /\ f \in [0..n -> Text] /\ \A k \in 1..n : f[k] = f[k - 1] \o g[k]
      /\ \A k \in 1..n : g[k] \in Text
  BY DEF Runs, AllText
<1>2. 0 \in S
  <2>1. f[n] \in Text /\ n - 0 = n /\ 0 \in 0..n
    BY <1>1
  <2> QED
    BY <2>1, NothingBefore
<1>3. ASSUME NEW m \in 0..n-1, m \in S
      PROVE  m + 1 \in S
  <2>1. PICK x \in Text : f[n] = f[n - m] \o x
    BY <1>3
  <2>2. PICK k \in 1..n : k = n - m /\ k - 1 = n - (m + 1)
    OBVIOUS
  <2>3. PICK a, b \in Text : a = f[k - 1] /\ b = g[k]
    <3>1. k - 1 \in 0..n
      OBVIOUS
    <3> QED
      BY <1>1, <3>1
  <2>4. f[n] = (a \o b) \o x
    BY <1>1, <2>1, <2>2, <2>3
  <2>5. b \o x \in Text /\ (a \o b) \o x = a \o (b \o x)
    BY Together
  <2>6. m + 1 \in 0..n
    OBVIOUS
  <2> QED
    BY <2>2, <2>3, <2>4, <2>5, <2>6
<1>4. \A m \in 0..n : m \in S
  <2> HIDE DEF S
  <2>1. \A m \in 0..n-1 : m \in S => m + 1 \in S
    BY <1>3
  <2> QED
    BY <1>2, <2>1, Climb
<1>5. n - j \in 0..n /\ n - (n - j) = j
  OBVIOUS
<1> QED
  BY <1>4, <1>5

(* No pieces yet. *)
LEMMA NoRun == \A g : RunsTo(0, g, <<>>)
<1> SUFFICES ASSUME NEW g
             PROVE  \E f : Runs(0, g, f) /\ f[0] = <<>>
  BY DEF RunsTo
<1>1. PICK e \in Text : e = <<>>
  BY NothingBefore
<1> DEFINE f == [k \in 0..0 |-> e]
<1>2. f \in [0..0 -> Text] /\ f[0] = e /\ 1..0 = {}
  OBVIOUS
<1> HIDE DEF f
<1> QED
  BY <1>1, <1>2 DEF Runs

(* One more piece at the end. *)
LEMMA RunTo ==
    ASSUME NEW m \in Nat, NEW g, NEW t, RunsTo(m, g, t), NEW y \in Text,
           NEW n, n = m + 1, g[n] = y
    PROVE  RunsTo(n, g, t \o y)
<1>0. PICK f : Runs(m, g, f) /\ f[m] = t
  BY DEF RunsTo
<1> SUFFICES \E h : Runs(m + 1, g, h) /\ h[m + 1] = f[m] \o y
  BY <1>0 DEF RunsTo
<1>1. /\ f \in [0..m -> Text] /\ f[0] = <<>>
      /\ \A k \in 1..m : f[k] = f[k - 1] \o g[k]
  BY <1>0 DEF Runs
<1>2. PICK z \in Text : z = f[m] \o y
  <2>1. f[m] \in Text
    BY <1>1
  <2> QED
    BY <2>1, Together
<1> DEFINE h == [k \in 0..m+1 |-> IF k = m + 1 THEN z ELSE f[k]]
<1>3. h \in [0..m+1 -> Text] /\ h[m + 1] = z /\ \A k \in 0..m : h[k] = f[k]
  BY <1>1
<1> HIDE DEF h
<1>4. h[0] = <<>>
  <2>1. 0 \in 0..m
    OBVIOUS
  <2> QED
    BY <1>1, <1>3, <2>1
<1>5. ASSUME NEW k \in 1..m+1
      PROVE  h[k] = h[k - 1] \o g[k]
  <2>1. CASE k = m + 1
    <3>1. k - 1 = m /\ m \in 0..m
      BY <2>1
    <3> QED
      BY <1>2, <1>3, <2>1, <3>1
  <2>2. CASE k # m + 1
    <3>1. k \in 1..m /\ k \in 0..m /\ k - 1 \in 0..m
      BY <2>2
    <3> QED
      BY <1>1, <1>3, <3>1
  <2> QED
    BY <2>1, <2>2
<1> QED
  BY <1>2, <1>3, <1>4, <1>5 DEF Runs

(* One more piece at the beginning. *)
LEMMA RunFrom ==
    ASSUME NEW m \in Nat, NEW g, NEW t, RunsTo(m, g, t), NEW x \in Text, NEW b,
           Follow(m, g, x, b), NEW n, n = m + 1
    PROVE  RunsTo(n, b, x \o t)
<1>a. PICK f : Runs(m, g, f) /\ f[m] = t
  BY DEF RunsTo
<1> SUFFICES \E h : Runs(m + 1, b, h) /\ h[m + 1] = x \o f[m]
  BY <1>a DEF RunsTo
<1>b. b[1] = x /\ \A k \in 1..m : g[k] \in Text /\ b[k + 1] = g[k]
  BY DEF Follow
<1>0. \A u, v \in Text : (x \o u) \o v = x \o (u \o v)
  BY Together
<1>1. /\ f \in [0..m -> Text] /\ f[0] = <<>>
      /\ \A k \in 1..m : f[k] = f[k - 1] \o g[k]
  BY <1>a DEF Runs
<1>2. PICK e \in Text : e = <<>>
  BY NothingBefore
<1> DEFINE h == [k \in 0..m+1 |-> IF k = 0 THEN e ELSE x \o f[k - 1]]
<1>3. /\ h \in [0..m+1 -> Text] /\ h[0] = e
      /\ \A k \in 1..m+1 : h[k] = x \o f[k - 1]
  <2>1. ASSUME NEW k \in 0..m+1, k # 0
        PROVE  x \o f[k - 1] \in Text
    <3>1. k - 1 \in 0..m
      BY <2>1
    <3>2. f[k - 1] \in Text
      BY <1>1, <3>1
    <3> QED
      BY <3>2, Together
  <2> QED
    BY <2>1
<1> HIDE DEF h
<1>4. ASSUME NEW k \in 1..m+1
      PROVE  h[k] = h[k - 1] \o b[k]
  <2>1. CASE k = 1
    <3>1. k \in 1..m+1 /\ k - 1 = 0 /\ b[k] = x /\ f[k - 1] = e
      BY <1>b, <1>1, <1>2, <2>1
    <3>2. h[k] = x \o e /\ h[k - 1] = e
      BY <1>3, <3>1
    <3>3. x \o e = x /\ e \o x = x
      BY <1>2, NothingBefore
    <3> QED
      BY <3>1, <3>2, <3>3
  <2>2. CASE k # 1
    <3>1. PICK j \in 1..m : j = k - 1
      BY <2>2
    <3>2. j \in 1..m+1 /\ j - 1 \in 0..m /\ j + 1 = k /\ j \in 0..m
      BY <3>1
    <3>3. PICK a, c, d \in Text : a = f[j - 1] /\ c = g[j] /\ d = f[j]
      BY <1>b, <1>1, <3>2
    <3>4. h[k] = x \o d /\ d = a \o c /\ h[j] = x \o a /\ b[k] = c
      <4>1. h[k] = x \o f[j] /\ h[j] = x \o f[j - 1]
        BY <1>3, <3>1, <3>2
      <4>2. f[j] = f[j - 1] \o g[j]
        BY <1>1
      <4>3. b[k] = g[j]
        BY <1>b, <3>2
      <4> QED
        BY <3>3, <4>1, <4>2, <4>3
    <3>5. (x \o a) \o c = x \o (a \o c)
      BY <1>0
    <3>6. h[k - 1] = x \o a /\ h[k] = x \o (a \o c)
      BY <3>1, <3>4
    <3> QED
      BY <3>4, <3>5, <3>6
  <2> QED
    BY <2>1, <2>2
<1>5. h[m + 1] = x \o f[m]
  <2>1. m + 1 \in 1..m+1 /\ m + 1 - 1 = m
    OBVIOUS
  <2> QED
    BY <1>3, <2>1
<1> QED
  BY <1>2, <1>3, <1>4, <1>5 DEF Runs

-----------------------------------------------------------------------------
(* A directory on the root file system that is not too deep. *)
PlainDir(d) == d.mount = <<>> /\ d.path \in Seq(Names) /\ Len(d.path) <= MaxParts

Printed(c) == Min({MaxArgs, Len(c.args)})
(* The chunks that the probe prints of a call, d being where it started. *)
Count(c, d) ==
    CASE c.op = "exec"     -> Printed(c) + 2
      [] c.op = "creat"    -> 1
      [] c.op = "openat"   -> 2
      [] c.op = "relative" -> Len(d.path) + 3
Slash(n) == <<"/">> \o n
Piece(c, d, k) ==
    CASE c.op = "exec"     -> (IF k = 1 THEN <<"execve">> \o c.name
                               ELSE IF k = Count(c, d) THEN <<"nl">> ELSE c.args[k - 1])
      [] c.op = "creat"    -> <<"creat">> \o c.name \o <<"nl">>
      [] c.op = "openat"   -> (IF k = 1 THEN <<"openat">> \o c.name ELSE <<"flags", "nl">>)
      [] c.op = "relative" -> (IF k = 1 THEN <<"openat">>
                               ELSE IF k = Count(c, d) THEN <<"flags", "nl">>
                               ELSE IF k = Count(c, d) - 1 THEN Slash(c.name)
                               ELSE Slash(d.path[k - 1]))
Pieces(c, d) == [k \in 1..Count(c, d) |-> Piece(c, d, k)]

(* What a name is made of. *)
LEMMA NamesAreText ==
    ASSUME \A n \in Names : n \in Seq(ToSet(n))
    PROVE  /\ Names \subseteq Text
           /\ \A n \in Names : Slash(n) \in Text
           /\ \A w \in {"execve", "creat", "openat", "nl"} : <<w>> \in Text
           /\ <<"flags", "nl">> \in Text
<1>1. ASSUME NEW n \in Names
      PROVE  n \in Text
  <2>1. ToSet(n) \subseteq Letters /\ n \in Seq(ToSet(n))
    BY DEF Letters
  <2> QED
    BY <2>1, SeqMonotonic DEF Text
<1>2. {"execve", "creat", "openat", "flags", "nl", "/"} \subseteq Letters
  BY DEF Letters
<1>3. \A w \in Letters : <<w>> \in Text
  BY DEF Text
<1>4. <<"flags", "nl">> \in Text
  BY <1>2 DEF Text
<1>5. \A n \in Names : Slash(n) \in Text
  <2>1. PICK s \in Text : s = <<"/">>
    BY <1>2, <1>3
  <2> QED
    BY <1>1, <2>1, Together DEF Slash
<1> QED
  BY <1>1, <1>2, <1>3, <1>4, <1>5

(* No more arguments are printed than there are, and than MaxArgs. *)
LEMMA PrintedArgs ==
    ASSUME NEW c, c.args \in Seq(Names)
    PROVE  /\ Printed(c) \in Nat /\ Printed(c) \in {MaxArgs, Len(c.args)}
           /\ Printed(c) <= MaxArgs /\ Printed(c) <= Len(c.args)
<1> DEFINE T == {MaxArgs, Len(c.args)}
<1>1. T \subseteq Nat /\ T # {}
  BY FramingAssumption
<1> HIDE DEF T
<1>2. Min(T) \in T /\ \A x \in T : Min(T) <= x
  BY <1>1, FirstIsThere
<1> QED
  BY <1>1, <1>2 DEF T, Printed

Traced == {"exec", "creat", "openat", "relative"}
NamesAreSequences == \A n \in Names : n \in Seq(ToSet(n))

(* A call has chunks, and none has the byte 0x80 in it. *)
LEMMA PiecesAreText ==
    ASSUME NamesAreSequences, NEW c, PlainCall(c), c.op \in Traced,
           NEW d, c.op = "relative" => PlainDir(d)
    PROVE  /\ Count(c, d) \in Nat \ {0}
           /\ \A k \in 1..Count(c, d) : Pieces(c, d)[k] = Piece(c, d, k) /\ Piece(c, d, k) \in Text
<1>1. /\ Names \subseteq Text /\ \A n \in Names : Slash(n) \in Text
      /\ <<"flags", "nl">> \in Text
      /\ <<"execve">> \in Text /\ <<"creat">> \in Text /\ <<"openat">> \in Text /\ <<"nl">> \in Text
  BY NamesAreText DEF NamesAreSequences
<1>2. PICK x, y, z, u, v \in Text : /\ x = <<"execve">> /\ y = <<"creat">> /\ z = <<"openat">>
                                   /\ u = <<"nl">> /\ v = <<"flags", "nl">>
  BY <1>1
<1>3. c.name \in Names /\ c.name \in Text
  BY <1>1 DEF PlainCall, Traced
<1>4. x \o c.name \in Text /\ (y \o c.name) \o u \in Text /\ z \o c.name \in Text
  BY <1>3, Together
<1>5. \A k \in 1..Count(c, d) : Pieces(c, d)[k] = Piece(c, d, k)
  BY DEF Pieces
<1>6. CASE c.op = "exec"
  <2>1. c.args \in Seq(Names)
    BY <1>6 DEF PlainCall
  <2>2. PICK m \in Nat : m = Printed(c) /\ m <= Len(c.args)
    BY <2>1, PrintedArgs
  <2>3. Count(c, d) = m + 2
    BY <1>6, <2>2 DEF Count
  <2>4. ASSUME NEW k \in 1..m+2
        PROVE  Piece(c, d, k) \in Text
    <3>1. Piece(c, d, k) = IF k = 1 THEN x \o c.name ELSE IF k = m + 2 THEN u ELSE c.args[k - 1]
      <4>1. Piece(c, d, k) = IF k = 1 THEN <<"execve">> \o c.name
                             ELSE IF k = Count(c, d) THEN <<"nl">> ELSE c.args[k - 1]
        BY <1>6 DEF Piece
      <4> QED
        BY <1>2, <2>3, <4>1, Zenon
    <3>2. ASSUME k # 1, k # m + 2
          PROVE  c.args[k - 1] \in Text
      <4>1. k - 1 \in 1..Len(c.args)
        BY <2>1, <2>2, <3>2
      <4>2. c.args[k - 1] \in Names
        BY <2>1, <4>1, ElementOfSeq
      <4> QED
        BY <1>1, <4>2
    <3> QED
      BY <1>4, <3>1, <3>2
  <2> QED
    BY <1>5, <2>3, <2>4
<1>7. CASE c.op = "creat"
  <2>1. Count(c, d) = 1
    BY <1>7 DEF Count
  <2>2. \A k : Piece(c, d, k) = (y \o c.name) \o u
    BY <1>2, <1>7 DEF Piece
  <2>3. \A k : Piece(c, d, k) \in Text
    BY <1>4, <2>2, Zenon
  <2>4. Count(c, d) \in Nat \ {0}
    BY <2>1
  <2> QED
    BY <1>5, <2>3, <2>4, Zenon
<1>8. CASE c.op = "openat"
  <2>1. Count(c, d) = 2
    BY <1>8 DEF Count
  <2>2. \A k : Piece(c, d, k) = IF k = 1 THEN z \o c.name ELSE v
    BY <1>2, <1>8 DEF Piece
  <2>3. \A k : Piece(c, d, k) \in Text
    BY <1>4, <2>2, Zenon
  <2>4. Count(c, d) \in Nat \ {0}
    BY <2>1
  <2> QED
    BY <1>5, <2>3, <2>4, Zenon
<1>9. CASE c.op = "relative"
  <2>1. PICK L \in Nat : L = Len(d.path) /\ d.path \in Seq(Names)
    BY <1>9 DEF PlainDir
  <2>2. Count(c, d) = L + 3
    BY <1>9, <2>1 DEF Count
  <2>3. Slash(c.name) \in Text
    BY <1>1, <1>3
  <2>4. ASSUME NEW k \in 1..L+3
        PROVE  Piece(c, d, k) \in Text
    <3>1. Piece(c, d, k) = IF k = 1 THEN z ELSE IF k = L + 3 THEN v
                           ELSE IF k = L + 2 THEN Slash(c.name) ELSE Slash(d.path[k - 1])
      <4>1. L + 3 - 1 = L + 2
        OBVIOUS
      <4> QED
        BY <1>2, <1>9, <2>2, <4>1 DEF Piece
    <3>2. ASSUME k # 1, k # L + 2, k # L + 3
          PROVE  Slash(d.path[k - 1]) \in Text
      <4>1. k - 1 \in 1..Len(d.path)
        BY <2>1, <3>2
      <4>2. d.path[k - 1] \in Names
        BY <2>1, <4>1, ElementOfSeq
      <4> QED
        BY <1>1, <4>2
    <3> QED
      BY <2>3, <3>1, <3>2
  <2> QED
    BY <1>5, <2>2, <2>4
<1> QED
  BY <1>6, <1>7, <1>8, <1>9 DEF Traced

(* The line of one part of a path. *)
LEMMA OneSlashed ==
    ASSUME NEW n, Slash(n) \in Text
    PROVE  Slashed(<<n>>) = Slash(n)
<1>1. PICK y \in Text : y = Slash(n)
  OBVIOUS
<1> DEFINE g == [k \in 1..1 |-> y]
<1>2. g \in [1..1 -> Text] /\ g[1] = y
  OBVIOUS
<1>3. [k \in DOMAIN <<n>> |-> <<"/">> \o <<n>>[k]] = g
  <2>1. DOMAIN <<n>> = 1..1 /\ \A k \in 1..1 : <<n>>[k] = n
    OBVIOUS
  <2>2. \A k \in 1..1 : <<"/">> \o <<n>>[k] = y
    BY <1>1, <2>1, Zenon DEF Slash
  <2> QED
    BY <2>1, <2>2, Zenon
<1> HIDE DEF g
<1>4. PICK f : Runs(1, g, f) /\ FlattenSeq(g) = f[1]
  BY <1>2, FlattenRuns DEF RunsTo
<1>5. f[1] = f[1 - 1] \o g[1] /\ f[0] = <<>> /\ 1 - 1 = 0
  <2>1. 1 \in 1..1
    OBVIOUS
  <2> QED
    BY <1>4, <2>1 DEF Runs
<1>6. f[1] = <<>> \o y
  BY <1>2, <1>5, Zenon
<1> QED
  BY <1>1, <1>3, <1>4, <1>6, NothingBefore, Zenon DEF Slashed

(* A call's line is its chunks' contents, one after the other. *)
LEMMA LineRuns ==
    ASSUME NamesAreSequences, NEW c, PlainCall(c), c.op \in Traced,
           NEW d, NEW e, c.op = "relative" => d = e /\ PlainDir(d)
    PROVE  RunsTo(Count(c, d), Pieces(c, d), Line(c, e))
<1> DEFINE g == Pieces(c, d)
<1>1. /\ Count(c, d) \in Nat \ {0}
      /\ \A k \in 1..Count(c, d) : g[k] = Piece(c, d, k) /\ g[k] \in Text
  BY PiecesAreText
<1> HIDE DEF g
<1>2. RunsTo(0, g, <<>>)
  BY NoRun
<1>3. CASE c.op = "creat"
  <2>1. Count(c, d) = 1 /\ Piece(c, d, 1) = <<"creat">> \o c.name \o <<"nl">>
        /\ Line(c, e) = <<"creat">> \o c.name \o <<"nl">>
    BY <1>3 DEF Count, Piece, Line
  <2>2. PICK y \in Text : y = g[1] /\ y = Line(c, e)
    <3>1. 1 \in 1..Count(c, d)
      BY <2>1
    <3> QED
      BY <1>1, <2>1, <3>1
  <2>3. PICK m, n \in Nat, t \in {<<>>} : m = 0 /\ n = 1 /\ n = m + 1 /\ t = <<>>
    OBVIOUS
  <2>4. RunsTo(n, g, t \o y)
    BY <1>2, <2>2, <2>3, RunTo
  <2>5. t \o y = y
    BY <2>3, NothingBefore
  <2> QED
    BY <2>1, <2>2, <2>3, <2>4, <2>5 DEF g
<1>4. CASE c.op = "openat"
  <2>1. /\ Count(c, d) = 2 /\ Piece(c, d, 1) = <<"openat">> \o c.name
        /\ Piece(c, d, 2) = <<"flags", "nl">>
        /\ Line(c, e) = (<<"openat">> \o c.name) \o <<"flags", "nl">>
    BY <1>4 DEF Count, Piece, Line
  <2>2. PICK y, z \in Text : y = g[1] /\ z = g[2] /\ Line(c, e) = y \o z
    <3>1. 1 \in 1..Count(c, d) /\ 2 \in 1..Count(c, d)
      BY <2>1
    <3> QED
      BY <1>1, <2>1, <3>1
  <2>3. PICK m, n, q \in Nat, t \in {<<>>} : m = 0 /\ n = 1 /\ n = m + 1 /\ t = <<>> /\ q = 2 /\ q = n + 1
    OBVIOUS
  <2>4. RunsTo(n, g, t \o y)
    BY <1>2, <2>2, <2>3, RunTo
  <2>5. t \o y = y
    BY <2>3, NothingBefore
  <2>6. RunsTo(q, g, y \o z)
    BY <2>2, <2>3, <2>4, <2>5, RunTo
  <2> QED
    BY <2>1, <2>2, <2>3, <2>6 DEF g
<1>5. CASE c.op = "exec"
  <2>1. PICK m \in Nat : m = Printed(c) /\ m <= Len(c.args) /\ c.args \in Seq(Names)
    BY <1>5, PrintedArgs DEF PlainCall
  <2>2. Count(c, d) = m + 2
    BY <1>5, <2>1 DEF Count
  <2>3. PICK a : a = SubSeq(c.args, 1, m)
    OBVIOUS
  <2>4. a \in [1..m -> Text] /\ \A k \in 1..m : a[k] = c.args[k]
    <3>1. \A k \in 1..m : c.args[k] \in Names
      BY <2>1, ElementOfSeq
    <3>2. Names \subseteq Text
      BY NamesAreText DEF NamesAreSequences
    <3>3. (IF 1 <= m THEN m - 1 + 1 ELSE 0) = m /\ m - 1 + 1 = m /\ \A k \in 1..m : 1 + k - 1 = k
      OBVIOUS
    <3>4. Len(a) = m /\ a \in Seq(Text) /\ \A k \in 1..m : a[k] = c.args[k]
      BY <2>3, <3>1, <3>2, <3>3, SubSeqProperties
    <3> QED
      BY <3>4
  <2>5. PICK t : t = FlattenSeq(a) /\ RunsTo(m, a, t)
    BY <2>4, FlattenRuns
  <2>6. /\ g[1] = <<"execve">> \o c.name /\ g[m + 2] = <<"nl">>
        /\ \A k \in 1..m : g[k + 1] = a[k]
    <3>1. \A k : Piece(c, d, k) = IF k = 1 THEN <<"execve">> \o c.name
                                   ELSE IF k = m + 2 THEN <<"nl">> ELSE c.args[k - 1]
      BY <1>5, <2>2 DEF Piece
    <3>2. 1 \in 1..Count(c, d) /\ m + 2 \in 1..Count(c, d) /\ m + 2 # 1
      BY <2>2
    <3>3. \A k \in 1..m : k + 1 \in 1..Count(c, d) /\ k + 1 # 1 /\ k + 1 # m + 2 /\ k + 1 - 1 = k
      BY <2>2
    <3> QED
      BY <1>1, <2>4, <3>1, <3>2, <3>3
  <2>7. PICK x, u \in Text : x = g[1] /\ u = g[m + 2]
    <3>1. 1 \in 1..Count(c, d) /\ m + 2 \in 1..Count(c, d)
      BY <2>2
    <3> QED
      BY <1>1, <3>1
  <2>8. PICK p, q \in Nat : p = m + 1 /\ q = p + 1 /\ q = m + 2
    OBVIOUS
  <2>9. Follow(m, a, x, g)
    BY <2>4, <2>6, <2>7 DEF Follow
  <2>10. RunsTo(p, g, x \o t)
    BY <2>5, <2>8, <2>9, RunFrom
  <2>11. RunsTo(q, g, (x \o t) \o u)
    BY <2>7, <2>8, <2>10, RunTo
  <2>12. Line(c, e) = ((<<"execve">> \o c.name) \o FlattenSeq(a)) \o <<"nl">>
    BY <1>5, <2>1, <2>3 DEF Line, Printed
  <2>13. Line(c, e) = (x \o t) \o u
    BY <2>5, <2>6, <2>7, <2>12, Zenon
  <2>14. q = Count(c, d)
    BY <2>2, <2>8
  <2> QED
    BY <2>11, <2>13, <2>14, Zenon DEF g
<1>6. CASE c.op = "relative"
  <2>1. PICK L \in Nat : L = Len(d.path) /\ d.path \in Seq(Names) /\ d.mount = <<>> /\ d = e
    BY <1>6 DEF PlainDir
  <2>2. Count(c, d) = L + 3
    BY <1>6, <2>1 DEF Count
  <2> DEFINE a == [k \in 1..L |-> Slash(d.path[k])]
  <2>3. a \in [1..L -> Text] /\ \A k \in 1..L : a[k] = Slash(d.path[k])
    <3>1. \A k \in 1..L : d.path[k] \in Names
      BY <2>1, ElementOfSeq
    <3>2. \A n \in Names : Slash(n) \in Text
      BY NamesAreText DEF NamesAreSequences
    <3> QED
      BY <3>1, <3>2
  <2>4. Slashed(d.mount \o d.path) = FlattenSeq(a)
    <3>1. d.mount \o d.path = d.path
      BY <2>1
    <3>2. DOMAIN d.path = 1..L
      BY <2>1
    <3> QED
      BY <3>1, <3>2, Zenon DEF Slashed, Slash
  <2> HIDE DEF a
  <2>5. PICK t : t = FlattenSeq(a) /\ RunsTo(L, a, t)
    BY <2>3, FlattenRuns
  <2>6. /\ g[1] = <<"openat">> /\ g[L + 2] = Slash(c.name) /\ g[L + 3] = <<"flags", "nl">>
        /\ \A k \in 1..L : g[k + 1] = a[k]
    <3>1. \A k : Piece(c, d, k) = IF k = 1 THEN <<"openat">> ELSE IF k = L + 3 THEN <<"flags", "nl">>
                                   ELSE IF k = L + 2 THEN Slash(c.name) ELSE Slash(d.path[k - 1])
      <4>1. L + 3 - 1 = L + 2
        OBVIOUS
      <4> QED
        BY <1>6, <2>2, <4>1 DEF Piece
    <3>2. 1 \in 1..Count(c, d) /\ L + 2 \in 1..Count(c, d) /\ L + 3 \in 1..Count(c, d)
          /\ L + 2 # 1 /\ L + 3 # 1 /\ L + 2 # L + 3
      BY <2>2
    <3>3. \A k \in 1..L : k + 1 \in 1..Count(c, d) /\ k + 1 # 1 /\ k + 1 # L + 2 /\ k + 1 # L + 3
                           /\ k + 1 - 1 = k
      BY <2>2
    <3> QED
      BY <1>1, <2>3, <3>1, <3>2, <3>3
  <2>7. PICK x, y, z \in Text : x = g[1] /\ y = g[L + 2] /\ z = g[L + 3]
    <3>1. 1 \in 1..Count(c, d) /\ L + 2 \in 1..Count(c, d) /\ L + 3 \in 1..Count(c, d)
      BY <2>2
    <3> QED
      BY <1>1, <3>1
  <2>8. PICK p, q, r \in Nat : p = L + 1 /\ q = p + 1 /\ q = L + 2 /\ r = q + 1 /\ r = L + 3
    OBVIOUS
  <2>9. Follow(L, a, x, g)
    BY <2>3, <2>6, <2>7 DEF Follow
  <2>10. RunsTo(p, g, x \o t)
    BY <2>5, <2>8, <2>9, RunFrom
  <2>11. RunsTo(q, g, (x \o t) \o y)
    BY <2>7, <2>8, <2>10, RunTo
  <2>12. RunsTo(r, g, ((x \o t) \o y) \o z)
    BY <2>7, <2>8, <2>11, RunTo
  <2>13. Line(c, e) = ((<<"openat">> \o Slashed(d.mount \o d.path)) \o Slashed(<<c.name>>)) \o <<"flags", "nl">>
    <3>1. c.at = NoDir
      BY <1>6 DEF PlainCall
    <3> QED
      BY <1>6, <2>1, <3>1 DEF Line
  <2>14. Slashed(<<c.name>>) = Slash(c.name)
    BY <2>6, <2>7, OneSlashed
  <2>15. Line(c, e) = ((x \o t) \o y) \o z
    BY <2>4, <2>5, <2>6, <2>7, <2>13, <2>14, Zenon
  <2>16. r = Count(c, d)
    BY <2>2, <2>8
  <2> QED
    BY <2>12, <2>15, <2>16, Zenon DEF g
<1> QED
  BY <1>3, <1>4, <1>5, <1>6 DEF Traced

-----------------------------------------------------------------------------
(* Of the n pieces g, j have been said and all have been asked for.        *)
Between(n, g, j, said, asked) ==
    \E base \in Text : \E f : /\ Runs(n, g, f)
                              /\ said = base \o f[j] /\ asked = base \o f[n]

(* A call has been asked for, and nothing of it printed. *)
LEMMA BetweenStart ==
    ASSUME NEW n \in Nat, NEW g, NEW line, RunsTo(n, g, line), NEW s \in Text
    PROVE  Between(n, g, 0, s, s \o line)
<1>1. PICK f : Runs(n, g, f) /\ f[n] = line
  BY DEF RunsTo
<1>2. s = s \o f[0]
  BY <1>1, NothingBefore DEF Runs
<1> QED
  BY <1>1, <1>2 DEF Between

(* y is the piece that comes after the first j. *)
Comes(n, g, j, m, y) == n \in Nat /\ AllText(n, g) /\ j \in Nat /\ m \in 1..n /\ m = j + 1 /\ y = g[m]

(* The next piece is printed. *)
LEMMA BetweenNext ==
    ASSUME NEW n, NEW g, NEW j, NEW s, NEW a, Between(n, g, j, s, a),
           NEW m, NEW y, Comes(n, g, j, m, y), NEW z, z = s \o y
    PROVE  Between(n, g, m, z, a)
<1>0. \A u, v, w \in Text : (u \o v) \o w = u \o (v \o w)
  BY Together
<1>1. PICK base \in Text : \E f : Runs(n, g, f) /\ s = base \o f[j] /\ a = base \o f[n]
  BY DEF Between
<1>2. PICK f : Runs(n, g, f) /\ s = base \o f[j] /\ a = base \o f[n]
  BY <1>1
<1>3. m - 1 = j /\ j \in 0..n /\ m \in 1..n /\ y = g[m] /\ AllText(n, g)
  BY DEF Comes
<1>4. f[m] = f[j] \o y /\ f[j] \in Text /\ y \in Text
  BY <1>2, <1>3 DEF Runs, AllText
<1>5. (base \o f[j]) \o y = base \o (f[j] \o y)
  BY <1>0, <1>4
<1>6. z = base \o f[m]
  BY <1>2, <1>4, <1>5, Zenon
<1> QED
  BY <1>2, <1>6 DEF Between

(* The last piece has been printed. *)
LEMMA BetweenEnd == \A n, g, s, a : Between(n, g, n, s, a) => s = a
BY DEF Between

(* What was said begins what was asked for. *)
LEMMA BetweenPrefix ==
    ASSUME NEW n \in Nat, NEW g, AllText(n, g), NEW j \in 0..n, NEW s, NEW a, Between(n, g, j, s, a)
    PROVE  Begins(s, a)
<1>0. \A x, y, z \in Text : (x \o y) \o z = x \o (y \o z)
  BY Together
<1>1. PICK base \in Text : \E f : Runs(n, g, f) /\ s = base \o f[j] /\ a = base \o f[n]
  BY DEF Between
<1>2. PICK f : Runs(n, g, f) /\ s = base \o f[j] /\ a = base \o f[n]
  BY <1>1
<1>3. PICK x \in Text : f[n] = f[j] \o x
  <2>1. Begins(f[j], f[n])
    BY <1>2, RunGoesOn
  <2> QED
    BY <2>1 DEF Begins
<1>4. f[j] \in Text
  <2>1. f \in [0..n -> Text]
    BY <1>2 DEF Runs
  <2> QED
    BY <2>1
<1>5. (base \o f[j]) \o x = base \o (f[j] \o x)
  BY <1>0, <1>4
<1> QED
  BY <1>2, <1>3, <1>5, Zenon DEF Begins

-----------------------------------------------------------------------------
(* What the names and the directories are then made of. *)
LEMMA PlainText ==
    ASSUME Plain
    PROVE  /\ D \notin Letters /\ NamesAreSequences
           /\ \A d \in Dirs : PlainDir(d)
<1>1. D \notin Letters
  BY DEF Plain, NoDelimiter, Letters, D
<1>2. NamesAreSequences
  BY DEF Plain, NoDelimiter, NamesAreSequences
<1>3. \A d \in Dirs : PlainDir(d)
  BY FramingAssumption DEF Plain, RootDirs, PlainDir
<1> QED
  BY <1>1, <1>2, <1>3

(* How many chunks of its call a thread has printed. *)
Said(t) ==
    CASE pc[t] = "args"   -> i[t]
      [] pc[t] = "store"  -> 0
      [] pc[t] = "parts"  -> 1 + Len(here[t].path) - i[t]
      [] pc[t] = "delete" -> 2 + Len(here[t].path) - i[t]
      [] pc[t] = "flags"  -> Count(Call(t), here[t]) - 1

(* Which call is where, and what a probe has stored. *)
InProbe(t) ==
    /\ pc[t] = "args" => Call(t).op = "exec" /\ i[t] <= Printed(Call(t)) + 1
    /\ pc[t] \in {"store", "parts", "delete"} =>
          /\ Call(t).op = "relative"
          /\ i[t] <= Len(here[t].path)
          /\ \A k \in 0..i[t] - 1 : parts[Process[t]][k] = here[t].path[Len(here[t].path) - k]
    /\ pc[t] = "flags" => Call(t).op \in {"openat", "relative"}
    /\ Call(t).op = "relative" => here[t] \in Dirs

PlainTodo(calls) == \A k \in 1..Len(calls) : PlainCall(calls[k])

Telling(t, all) ==
    /\ PlainTodo(todo[t])
    /\ pc[t] = "out" => all[Process[t]] = done[Process[t]]
    /\ pc[t] # "out" =>
          /\ InProbe(t)
          /\ Between(Count(Call(t), here[t]), Pieces(Call(t), here[t]), Said(t),
                     all[Process[t]], done[Process[t]])

Told(all) ==
    /\ Heard(log, all) /\ all \in [Pids -> Text] /\ done \in [Pids -> Text]
    /\ \A t \in Threads : Telling(t, all)
    /\ \A p \in Pids : (\A t \in Threads : Process[t] # p) => all[p] = done[p]

TruthInv == ProbeInv /\ \E all : Told(all)

(* At first nothing is asked for and nothing is said. *)
LEMMA InitTruth == Plain /\ Init => TruthInv
<1> SUFFICES ASSUME Plain, Init
             PROVE  TruthInv
  OBVIOUS
<1>1. PICK all : all = NoStreams /\ Heard(log, all)
  BY NothingHeard DEF Init
<1>2. done = all /\ all \in [Pids -> Text]
  BY <1>1, NothingBefore DEF Init, NoStreams
<1>3. ASSUME NEW t \in Threads
      PROVE  Telling(t, all)
  <2>1. pc[t] = "out" /\ todo[t] \in Programs[t]
    BY DEF Init
  <2>2. todo[t] \in Seq(ToSet(todo[t])) /\ \A c \in ToSet(todo[t]) : PlainCall(c)
    BY <2>1, FramingAssumption DEF Plain, PlainCalls
  <2>3. PlainTodo(todo[t])
    BY <2>2, ElementOfSeq DEF PlainTodo
  <2> QED
    BY <1>2, <2>1, <2>3 DEF Telling
<1> QED
  BY <1>1, <1>2, <1>3, InitProbe DEF Told, TruthInv

(* A step of one thread leaves what the others are telling. *)
LEMMA OthersTell ==
    ASSUME Plain, NEW t \in Threads, NEW all, Told(all), ProbeInv',
           NEW next \in [Pids -> Text], Heard(log', next), done' \in [Pids -> Text],
           \A q \in Pids \ {Process[t]} : next[q] = all[q] /\ done'[q] = done[q] /\ parts'[q] = parts[q],
           \A u \in Threads \ {t} : /\ pc'[u] = pc[u] /\ i'[u] = i[u]
                                    /\ here'[u] = here[u] /\ todo'[u] = todo[u],
           Telling(t, next)'
    PROVE  TruthInv'
<1>1. ASSUME NEW u \in Threads, u # t
      PROVE  Telling(u, next)'
  <2>1. Process[u] \in Pids \ {Process[t]}
    BY <1>1, FramingAssumption DEF Plain, SingleThreaded
  <2>2. /\ next[Process[u]] = all[Process[u]] /\ done'[Process[u]] = done[Process[u]]
        /\ parts'[Process[u]] = parts[Process[u]]
    BY <2>1
  <2>3. pc'[u] = pc[u] /\ i'[u] = i[u] /\ here'[u] = here[u] /\ todo'[u] = todo[u]
    BY <1>1
  <2>4. Telling(u, all)
    BY DEF Told
  <2>5. Call(u)' = Call(u)
    BY <2>3 DEF Call
  <2>6. InProbe(u)' <=> InProbe(u)
    BY <2>2, <2>3, <2>5 DEF InProbe
  <2>7. Said(u)' = Said(u)
    BY <2>3, <2>5 DEF Said
  <2> QED
    BY <2>2, <2>3, <2>4, <2>5, <2>6, <2>7 DEF Telling
<1>2. \A u \in Threads : Telling(u, next)'
  BY <1>1
<1>3. \A p \in Pids : (\A u \in Threads : Process[u] # p) => next[p] = done'[p]
  BY DEF Told
<1>4. Told(next)'
  BY <1>2, <1>3 DEF Told
<1> QED
  BY <1>4 DEF TruthInv

(* A chunk is printed. *)
LEMMA Speaks ==
    ASSUME NEW all, Told(all), NEW t \in Threads, NEW c \in Text, Prints(t, c),
           NEW p, p = Process[t], NEW next, next = Then(all, p, c)
    PROVE  /\ Heard(log', next) /\ next \in [Pids -> Text]
           /\ next[p] = all[p] \o c /\ \A q \in Pids \ {p} : next[q] = all[q]
<1>1. p \in Pids /\ Heard(log, all) /\ all \in [Pids -> Text]
  BY FramingAssumption DEF Told
<1>2. Heard(log \o Spoken(p, c), Then(all, p, c))
  BY <1>1, ChunkHeard
<1>3. log' = log \o Spoken(p, c)
  BY DEF Prints, Chunk, Spoken
<1>4. all[p] \o c \in Text
  BY <1>1, Together
<1> QED
  BY <1>1, <1>2, <1>3, <1>4 DEF Then

(* The current call, and those after it. *)
LEMMA OneOfCalls ==
    ASSUME NEW all, Told(all), ProbeInv, NEW t \in Threads, todo[t] # <<>>
    PROVE  PlainCall(Call(t)) /\ PlainTodo(Tail(todo[t]))
<1>1. PICK S : todo[t] \in Seq(S)
  BY DEF ProbeInv
<1>2. PlainTodo(todo[t])
  BY DEF Told, Telling
<1>3. Len(todo[t]) \in Nat /\ Len(todo[t]) # 0
  BY <1>1, EmptySeq
<1>4. PlainCall(Call(t))
  BY <1>2, <1>3 DEF PlainTodo, Call
<1>5. /\ Len(Tail(todo[t])) = Len(todo[t]) - 1
      /\ \A k \in 1..Len(Tail(todo[t])) : Tail(todo[t])[k] = todo[t][k + 1]
  BY <1>1, HeadTailProperties
<1>6. PlainTodo(Tail(todo[t]))
  BY <1>2, <1>3, <1>5 DEF PlainTodo
<1> QED
  BY <1>4, <1>6

(* What a call asks for is put after what was asked for before. *)
LEMMA Asks ==
    ASSUME Plain, ProbeInv, NEW all, Told(all), NEW t \in Threads, NEW op \in Traced, Enters(t, op),
           NEW d, op = "relative" => d = cwd[Process[t]]
    PROVE  /\ PlainCall(Call(t)) /\ Call(t).op = op
           /\ op = "relative" => PlainDir(d)
           /\ Count(Call(t), d) \in Nat \ {0} /\ AllText(Count(Call(t), d), Pieces(Call(t), d))
           /\ Between(Count(Call(t), d), Pieces(Call(t), d), 0, all[Process[t]], done'[Process[t]])
           /\ done' \in [Pids -> Text]
           /\ \A q \in Pids \ {Process[t]} : done'[q] = done[q]
<1>1. PICK p, c, e : p = Process[t] /\ p \in Pids /\ c = Call(t) /\ e = cwd[p] /\ e \in Dirs
  BY FramingAssumption DEF ProbeInv
<1>2. c.op = op /\ PlainCall(c) /\ pc[t] = "out"
  BY <1>1, OneOfCalls DEF Enters
<1>3. NamesAreSequences /\ (op = "relative" => d = e /\ PlainDir(d))
  BY <1>1, PlainText
<1>4. PICK n, g : n = Count(c, d) /\ g = Pieces(c, d) /\ n \in Nat \ {0} /\ AllText(n, g)
  <2>1. /\ Count(c, d) \in Nat \ {0}
        /\ \A k \in 1..Count(c, d) : Pieces(c, d)[k] \in Text
    BY <1>2, <1>3, PiecesAreText
  <2> QED
    BY <2>1 DEF AllText
<1>5. RunsTo(n, g, Line(c, e))
  <2>1. RunsTo(Count(c, d), Pieces(c, d), Line(c, e))
    BY <1>2, <1>3, LineRuns
  <2> QED
    BY <1>4, <2>1
<1>6. PICK s \in Text : s = all[p] /\ s = done[p] /\ done \in [Pids -> Text]
  BY <1>1, <1>2 DEF Told, Telling
<1>7. PICK line \in Text : line = Line(c, e)
  <2>1. n \in 0..n
    BY <1>4
  <2> QED
    BY <1>5, <2>1 DEF RunsTo, Runs
<1>8. done' = Then(done, p, line)
  BY <1>1, <1>7 DEF Enters, Then
<1>9. s \o line \in Text
  BY Together
<1>10. done'[p] = s \o line /\ done' \in [Pids -> Text] /\ \A q \in Pids \ {p} : done'[q] = done[q]
  BY <1>1, <1>6, <1>8, <1>9 DEF Then
<1>11. Between(n, g, 0, s, s \o line)
  BY <1>4, <1>5, <1>7, BetweenStart
<1> QED
  BY <1>1, <1>2, <1>3, <1>4, <1>6, <1>10, <1>11

-----------------------------------------------------------------------------
(* The steps of a thread t: what it prints is the next piece of its call.  *)

(* The piece after the first j. *)
LEMMA ThePiece ==
    ASSUME Plain, NEW c, PlainCall(c), c.op \in Traced, NEW d, c.op = "relative" => PlainDir(d),
           NEW j \in Nat, NEW m, m = j + 1, m <= Count(c, d), NEW y, y = Piece(c, d, m)
    PROVE  Comes(Count(c, d), Pieces(c, d), j, m, y) /\ y \in Text
<1>1. /\ Count(c, d) \in Nat \ {0}
      /\ \A k \in 1..Count(c, d) : Pieces(c, d)[k] = Piece(c, d, k) /\ Piece(c, d, k) \in Text
  BY PlainText, PiecesAreText
<1>2. m \in 1..Count(c, d)
  BY <1>1
<1> QED
  BY <1>1, <1>2 DEF Comes, AllText

(* A thread prints a piece. *)
LEMMA Says ==
    ASSUME NEW all, Told(all), NEW t \in Threads, NEW n, NEW g, NEW j, NEW m,
           NEW y \in Text, Comes(n, g, j, m, y), Prints(t, y),
           Between(n, g, j, all[Process[t]], done'[Process[t]])
    PROVE  \E next \in [Pids -> Text] :
              /\ Heard(log', next) /\ \A q \in Pids \ {Process[t]} : next[q] = all[q]
              /\ Between(n, g, m, next[Process[t]], done'[Process[t]])
<1>1. PICK p, s, a : p = Process[t] /\ s = all[p] /\ a = done'[p]
  OBVIOUS
<1>2. PICK next : next = Then(all, p, y)
  OBVIOUS
<1>3. /\ Heard(log', next) /\ next \in [Pids -> Text]
      /\ next[p] = all[p] \o y /\ \A q \in Pids \ {p} : next[q] = all[q]
  BY <1>1, <1>2, Speaks
<1>4. PICK z : z = s \o y
  OBVIOUS
<1>5. Between(n, g, j, s, a)
  BY <1>1
<1>6. Between(n, g, m, z, a)
  BY <1>4, <1>5, BetweenNext
<1>7. next[p] = z
  BY <1>1, <1>3, <1>4, Zenon
<1> QED
  BY <1>1, <1>3, <1>6, <1>7

(* The call a thread is in the middle of. *)
LEMMA MidCall ==
    ASSUME Plain, ProbeInv, NEW all, Told(all), NEW t \in Threads, pc[t] # "out"
    PROVE  /\ PlainCall(Call(t)) /\ Call(t).op \in Traced
           /\ Call(t).op = "relative" => PlainDir(here[t])
           /\ InProbe(t) /\ PlainTodo(Tail(todo[t]))
           /\ Between(Count(Call(t), here[t]), Pieces(Call(t), here[t]), Said(t),
                      all[Process[t]], done[Process[t]])
<1>1. todo[t] # <<>> /\ pc[t] \in {"args", "store", "parts", "delete", "flags"}
  BY DEF ProbeInv
<1>2. PlainCall(Call(t)) /\ PlainTodo(Tail(todo[t]))
  BY <1>1, OneOfCalls
<1>3. /\ InProbe(t)
      /\ Between(Count(Call(t), here[t]), Pieces(Call(t), here[t]), Said(t),
                 all[Process[t]], done[Process[t]])
  BY DEF Told, Telling
<1>4. Call(t).op \in Traced
  BY <1>1, <1>3 DEF InProbe, Traced
<1>5. Call(t).op = "relative" => PlainDir(here[t])
  BY <1>3, PlainText DEF InProbe
<1> QED
  BY <1>2, <1>3, <1>4, <1>5

(* A thread goes on with its call, n pieces of it having been said. *)
LEMMA GoesOn ==
    ASSUME Plain, ProbeInv, ProbeInv', NEW all, Told(all), NEW t \in Threads,
           NEW next \in [Pids -> Text], Heard(log', next), done' \in [Pids -> Text],
           \A q \in Pids \ {Process[t]} : next[q] = all[q] /\ done'[q] = done[q] /\ parts'[q] = parts[q],
           \A u \in Threads \ {t} : pc'[u] = pc[u] /\ i'[u] = i[u] /\ here'[u] = here[u],
           UNCHANGED todo, pc'[t] # "out", InProbe(t)', NEW m, Said(t)' = m,
           Between(Count(Call(t), here'[t]), Pieces(Call(t), here'[t]), m,
                   next[Process[t]], done'[Process[t]])
    PROVE  TruthInv'
<1>1. Call(t)' = Call(t) /\ PlainTodo(todo'[t])
  BY DEF Call, Told, Telling
<1>2. Telling(t, next)'
  BY <1>1 DEF Telling
<1> QED
  BY <1>2, OthersTell

(* A thread's call is over, all of it having been said. *)
LEMMA IsDone ==
    ASSUME Plain, ProbeInv, ProbeInv', NEW all, Told(all), NEW t \in Threads, Leaves(t), todo[t] # <<>>,
           NEW next \in [Pids -> Text], Heard(log', next), done' \in [Pids -> Text],
           \A q \in Pids \ {Process[t]} : next[q] = all[q] /\ done'[q] = done[q] /\ parts'[q] = parts[q],
           UNCHANGED <<i, here>>, next[Process[t]] = done'[Process[t]]
    PROVE  TruthInv'
<1>1. pc'[t] = "out" /\ todo'[t] = Tail(todo[t])
      /\ \A u \in Threads \ {t} : pc'[u] = pc[u] /\ i'[u] = i[u] /\ here'[u] = here[u] /\ todo'[u] = todo[u]
  BY DEF Leaves, ProbeInv
<1>2. PlainTodo(Tail(todo[t]))
  BY OneOfCalls
<1>3. Telling(t, next)'
  BY <1>1, <1>2 DEF Telling
<1> QED
  BY <1>1, <1>3, OthersTell

(* The first piece of a call. *)
LEMMA Begun ==
    ASSUME Plain, ProbeInv, NEW all, Told(all), NEW t \in Threads, NEW op \in Traced, Enters(t, op),
           NEW d, op = "relative" => d = cwd[Process[t]],
           NEW y, y = Piece(Call(t), d, 1), Prints(t, y)
    PROVE  /\ PlainCall(Call(t)) /\ Call(t).op = op /\ 1 <= Count(Call(t), d)
           /\ done' \in [Pids -> Text]
           /\ \A q \in Pids \ {Process[t]} : done'[q] = done[q]
           /\ \E next \in [Pids -> Text] :
                 /\ Heard(log', next) /\ \A q \in Pids \ {Process[t]} : next[q] = all[q]
                 /\ Between(Count(Call(t), d), Pieces(Call(t), d), 1,
                            next[Process[t]], done'[Process[t]])
<1>1. PICK c, n, g, j, m : /\ c = Call(t) /\ n = Count(c, d) /\ g = Pieces(c, d) /\ j = 0 /\ m = 1
  OBVIOUS
<1>2. /\ PlainCall(c) /\ c.op = op /\ (op = "relative" => PlainDir(d))
      /\ n \in Nat \ {0} /\ Between(n, g, j, all[Process[t]], done'[Process[t]])
      /\ done' \in [Pids -> Text] /\ \A q \in Pids \ {Process[t]} : done'[q] = done[q]
  BY <1>1, Asks
<1>3. j \in Nat /\ m = j + 1 /\ m <= n /\ c.op \in Traced
  BY <1>1, <1>2
<1>4. Comes(n, g, j, m, y) /\ y \in Text
  <2>1. m <= Count(c, d) /\ y = Piece(c, d, m)
    BY <1>1, <1>3
  <2>2. Comes(Count(c, d), Pieces(c, d), j, m, y) /\ y \in Text
    BY <1>2, <1>3, <2>1, ThePiece
  <2> QED
    BY <1>1, <2>2
<1>5. \E next \in [Pids -> Text] :
         /\ Heard(log', next) /\ \A q \in Pids \ {Process[t]} : next[q] = all[q]
         /\ Between(n, g, m, next[Process[t]], done'[Process[t]])
  BY <1>2, <1>4, Says
<1> QED
  BY <1>1, <1>2, <1>3, <1>5

(* The next piece of a call. *)
LEMMA Continued ==
    ASSUME Plain, ProbeInv, NEW all, Told(all), NEW t \in Threads, pc[t] # "out", UNCHANGED done,
           NEW j \in Nat, Said(t) = j, NEW m, m = j + 1, m <= Count(Call(t), here[t]),
           NEW y, y = Piece(Call(t), here[t], m), Prints(t, y)
    PROVE  /\ done' \in [Pids -> Text]
           /\ \E next \in [Pids -> Text] :
                 /\ Heard(log', next) /\ \A q \in Pids \ {Process[t]} : next[q] = all[q]
                 /\ Between(Count(Call(t), here[t]), Pieces(Call(t), here[t]), m,
                            next[Process[t]], done'[Process[t]])
<1>1. PICK c, d, n, g : c = Call(t) /\ d = here[t] /\ n = Count(c, d) /\ g = Pieces(c, d)
  OBVIOUS
<1>2. /\ PlainCall(c) /\ c.op \in Traced /\ (c.op = "relative" => PlainDir(d))
      /\ Between(n, g, j, all[Process[t]], done'[Process[t]])
  BY <1>1, MidCall
<1>3. Comes(n, g, j, m, y) /\ y \in Text
  <2>1. m <= Count(c, d) /\ y = Piece(c, d, m)
    BY <1>1
  <2>2. Comes(Count(c, d), Pieces(c, d), j, m, y) /\ y \in Text
    BY <1>2, <2>1, ThePiece
  <2> QED
    BY <1>1, <2>2
<1>4. \E next \in [Pids -> Text] :
         /\ Heard(log', next) /\ \A q \in Pids \ {Process[t]} : next[q] = all[q]
         /\ Between(n, g, m, next[Process[t]], done'[Process[t]])
  BY <1>2, <1>3, Says
<1>5. done' \in [Pids -> Text]
  BY DEF Told
<1> QED
  BY <1>1, <1>4, <1>5

(* creat prints its only chunk. *)
LEMMA CreatTells ==
    ASSUME Plain, ProbeInv, ProbeInv', NEW all, Told(all), NEW t \in Threads, Creat(t)
    PROVE  TruthInv'
<1>1. PICK op, d, y : op = "creat" /\ d = here[t] /\ y = Piece(Call(t), d, 1)
  OBVIOUS
<1>2. Enters(t, op) /\ op \in Traced /\ op # "relative" /\ todo[t] # <<>>
  BY <1>1 DEF Creat, Traced, Enters
<1>3. Prints(t, y)
  BY <1>1 DEF Creat, Piece, Enters
<1>4. /\ Call(t).op = op /\ done' \in [Pids -> Text]
      /\ \A q \in Pids \ {Process[t]} : done'[q] = done[q]
  BY <1>1, <1>2, <1>3, Begun
<1>5. PICK next \in [Pids -> Text] :
         /\ Heard(log', next) /\ \A q \in Pids \ {Process[t]} : next[q] = all[q]
         /\ Between(Count(Call(t), d), Pieces(Call(t), d), 1, next[Process[t]], done'[Process[t]])
  BY <1>1, <1>2, <1>3, Begun
<1>6. Count(Call(t), d) = 1
  BY <1>1, <1>4 DEF Count
<1>7. next[Process[t]] = done'[Process[t]]
  BY <1>5, <1>6, BetweenEnd
<1>8. Leaves(t) /\ UNCHANGED <<parts, i, here>>
  BY DEF Creat
<1> QED
  BY <1>2, <1>4, <1>5, <1>7, <1>8, IsDone

(* execve prints its name. *)
LEMMA ExecTells ==
    ASSUME Plain, ProbeInv, ProbeInv', NEW all, Told(all), NEW t \in Threads, Exec(t)
    PROVE  TruthInv'
<1>1. PICK op, d, y : op = "exec" /\ d = here[t] /\ y = Piece(Call(t), d, 1)
  OBVIOUS
<1>2. Enters(t, op) /\ op \in Traced /\ op # "relative"
  BY <1>1 DEF Exec, Traced
<1>3. Prints(t, y)
  BY <1>1 DEF Exec, Piece, Enters
<1>4. /\ Call(t).op = op /\ PlainCall(Call(t)) /\ done' \in [Pids -> Text]
      /\ \A q \in Pids \ {Process[t]} : done'[q] = done[q]
  BY <1>1, <1>2, <1>3, Begun
<1>5. PICK next \in [Pids -> Text] :
         /\ Heard(log', next) /\ \A q \in Pids \ {Process[t]} : next[q] = all[q]
         /\ Between(Count(Call(t), d), Pieces(Call(t), d), 1, next[Process[t]], done'[Process[t]])
  BY <1>1, <1>2, <1>3, Begun
<1>6. /\ pc'[t] = "args" /\ i'[t] = 1 /\ UNCHANGED <<parts, here, todo>>
      /\ \A u \in Threads \ {t} : pc'[u] = pc[u] /\ i'[u] = i[u]
  BY DEF Exec, FirstArg, ProbeInv
<1>7. Call(t)' = Call(t)
  BY <1>6 DEF Call
<1>8. InProbe(t)'
  <2>1. Printed(Call(t)) \in Nat
    BY <1>1, <1>4, PrintedArgs DEF PlainCall
  <2> QED
    BY <1>1, <1>4, <1>6, <1>7, <2>1 DEF InProbe
<1>9. Said(t)' = 1
  BY <1>6 DEF Said
<1>10. Between(Count(Call(t), here'[t]), Pieces(Call(t), here'[t]), 1, next[Process[t]], done'[Process[t]])
  BY <1>1, <1>5, <1>6
<1> QED
  BY <1>4, <1>5, <1>6, <1>8, <1>9, <1>10, GoesOn

(* execve prints an argument. *)
LEMMA PrintArgTells ==
    ASSUME Plain, ProbeInv, ProbeInv', NEW all, Told(all), NEW t \in Threads, PrintArg(t)
    PROVE  TruthInv'
<1>1. /\ pc[t] = "args" /\ i[t] \in 1..(MaxArgs + 1) /\ i[t] <= MaxArgs /\ i[t] <= Len(Call(t).args)
  BY DEF PrintArg, ProbeInv, Index
<1>2. PlainCall(Call(t)) /\ InProbe(t)
  BY <1>1, MidCall
<1>3. PICK k \in Nat : k = Printed(Call(t)) /\ k \in {MaxArgs, Len(Call(t).args)}
  BY <1>1, <1>2, PrintedArgs DEF PlainCall, InProbe
<1>4. Count(Call(t), here[t]) = k + 2 /\ Call(t).op = "exec"
  BY <1>1, <1>2, <1>3 DEF Count, InProbe
<1>5. PICK j \in Nat, m \in Nat : j = i[t] /\ m = j + 1
  BY <1>1, FramingAssumption
<1>6. Said(t) = j /\ m <= k + 1 /\ m # 1 /\ m # k + 2 /\ m - 1 = j
  BY <1>1, <1>3, <1>5, FramingAssumption DEF Said
<1>7. PICK y : y = Piece(Call(t), here[t], m)
  OBVIOUS
<1>8. Prints(t, y)
  BY <1>4, <1>5, <1>6, <1>7 DEF PrintArg, Piece
<1>9. m <= Count(Call(t), here[t]) /\ pc[t] # "out" /\ UNCHANGED done
  BY <1>1, <1>4, <1>6 DEF PrintArg
<1>10. done' \in [Pids -> Text]
  BY DEF PrintArg, Told
<1>11. PICK next \in [Pids -> Text] :
         /\ Heard(log', next) /\ \A q \in Pids \ {Process[t]} : next[q] = all[q]
         /\ Between(Count(Call(t), here[t]), Pieces(Call(t), here[t]), m, next[Process[t]], done'[Process[t]])
  BY <1>5, <1>6, <1>7, <1>8, <1>9, Continued
<1>12. /\ pc'[t] = "args" /\ i'[t] = m /\ UNCHANGED <<parts, pc, here, todo>>
       /\ \A u \in Threads \ {t} : i'[u] = i[u]
  BY <1>1, <1>5 DEF PrintArg, ProbeInv
<1>13. Call(t)' = Call(t)
  BY <1>12 DEF Call
<1>14. InProbe(t)'
  BY <1>3, <1>4, <1>6, <1>12, <1>13 DEF InProbe
<1>15. Said(t)' = m
  BY <1>12 DEF Said
<1>16. Between(Count(Call(t), here'[t]), Pieces(Call(t), here'[t]), m, next[Process[t]], done'[Process[t]])
  BY <1>11, <1>12
<1> QED
  BY <1>9, <1>10, <1>11, <1>12, <1>14, <1>15, <1>16, GoesOn

(* execve ends its line. *)
LEMMA ExecEndTells ==
    ASSUME Plain, ProbeInv, ProbeInv', NEW all, Told(all), NEW t \in Threads, ExecEnd(t)
    PROVE  TruthInv'
<1>1. /\ pc[t] = "args" /\ i[t] \in 1..(MaxArgs + 1) /\ (i[t] > MaxArgs \/ i[t] > Len(Call(t).args))
  BY DEF ExecEnd, ProbeInv, Index
<1>2. PlainCall(Call(t)) /\ InProbe(t)
  BY <1>1, MidCall
<1>3. PICK k \in Nat : k = Printed(Call(t)) /\ k <= MaxArgs /\ k <= Len(Call(t).args)
  BY <1>1, <1>2, PrintedArgs DEF PlainCall, InProbe
<1>4. Count(Call(t), here[t]) = k + 2 /\ Call(t).op = "exec" /\ i[t] <= k + 1
  BY <1>1, <1>2, <1>3 DEF Count, InProbe
<1>5. PICK j \in Nat, m \in Nat : j = i[t] /\ m = j + 1
  BY <1>1, FramingAssumption
<1>6. Said(t) = j /\ m = k + 2 /\ m # 1
  <2>1. Len(Call(t).args) \in Nat /\ MaxArgs \in Nat
    BY <1>2, <1>4, FramingAssumption DEF PlainCall
  <2> QED
    BY <1>1, <1>3, <1>4, <1>5, <2>1 DEF Said
<1>7. PICK y : y = Piece(Call(t), here[t], m)
  OBVIOUS
<1>8. Prints(t, y)
  BY <1>4, <1>6, <1>7 DEF ExecEnd, Piece
<1>9. m <= Count(Call(t), here[t]) /\ pc[t] # "out" /\ UNCHANGED <<done, parts, i, here>>
  BY <1>1, <1>4, <1>6 DEF ExecEnd
<1>10. done' \in [Pids -> Text]
  BY <1>9 DEF Told
<1>11. PICK next \in [Pids -> Text] :
         /\ Heard(log', next) /\ \A q \in Pids \ {Process[t]} : next[q] = all[q]
         /\ Between(Count(Call(t), here[t]), Pieces(Call(t), here[t]), m, next[Process[t]], done'[Process[t]])
  BY <1>5, <1>6, <1>7, <1>8, <1>9, Continued
<1>12. next[Process[t]] = done'[Process[t]]
  BY <1>4, <1>6, <1>11, BetweenEnd
<1>13. Leaves(t) /\ todo[t] # <<>>
  BY <1>1 DEF ExecEnd, ProbeInv
<1> QED
  BY <1>9, <1>10, <1>11, <1>12, <1>13, IsDone

(* openat prints an absolute name. *)
LEMMA OpenAbsoluteTells ==
    ASSUME Plain, ProbeInv, ProbeInv', NEW all, Told(all), NEW t \in Threads, OpenAbsolute(t)
    PROVE  TruthInv'
<1>1. PICK op, d, y : op = "openat" /\ d = here[t] /\ y = Piece(Call(t), d, 1)
  OBVIOUS
<1>2. Enters(t, op) /\ op \in Traced /\ op # "relative"
  BY <1>1 DEF OpenAbsolute, Traced
<1>3. Prints(t, y)
  BY <1>1 DEF OpenAbsolute, Piece, Enters
<1>4. /\ Call(t).op = op /\ PlainCall(Call(t)) /\ done' \in [Pids -> Text]
      /\ \A q \in Pids \ {Process[t]} : done'[q] = done[q]
  BY <1>1, <1>2, <1>3, Begun
<1>5. PICK next \in [Pids -> Text] :
         /\ Heard(log', next) /\ \A q \in Pids \ {Process[t]} : next[q] = all[q]
         /\ Between(Count(Call(t), d), Pieces(Call(t), d), 1, next[Process[t]], done'[Process[t]])
  BY <1>1, <1>2, <1>3, Begun
<1>6. /\ pc'[t] = "flags" /\ UNCHANGED <<parts, i, here, todo>>
      /\ \A u \in Threads \ {t} : pc'[u] = pc[u]
  BY DEF OpenAbsolute, ProbeInv
<1>7. Call(t)' = Call(t) /\ here'[t] = d
  BY <1>1, <1>6 DEF Call
<1>8. InProbe(t)'
  BY <1>1, <1>4, <1>6, <1>7 DEF InProbe
<1>9. Said(t)' = 1
  <2>1. Count(Call(t), d) = 2
    BY <1>1, <1>4 DEF Count
  <2> QED
    BY <1>6, <1>7, <2>1 DEF Said
<1>10. Between(Count(Call(t), here'[t]), Pieces(Call(t), here'[t]), 1, next[Process[t]], done'[Process[t]])
  BY <1>5, <1>7
<1> QED
  BY <1>4, <1>5, <1>6, <1>8, <1>9, <1>10, GoesOn

(* The directory a relative name is looked up from, root first. *)
LEMMA PathOf ==
    ASSUME Plain, ProbeInv, NEW all, Told(all), NEW t \in Threads, pc[t] \in {"store", "parts", "delete"}
    PROVE  /\ Call(t).op = "relative" /\ PlainDir(here[t]) /\ here[t] \in Dirs
           /\ Len(here[t].path) \in Nat /\ Len(here[t].path) <= MaxParts
           /\ i[t] \in Nat /\ i[t] <= Len(here[t].path)
           /\ \A k \in 0..i[t] - 1 : parts[Process[t]][k] = here[t].path[Len(here[t].path) - k]
           /\ Count(Call(t), here[t]) = Len(here[t].path) + 3
           /\ Between(Count(Call(t), here[t]), Pieces(Call(t), here[t]), Said(t),
                      all[Process[t]], done[Process[t]])
           /\ Call(t).name \in Names
<1>1. /\ PlainCall(Call(t)) /\ InProbe(t) /\ (Call(t).op = "relative" => PlainDir(here[t]))
      /\ Between(Count(Call(t), here[t]), Pieces(Call(t), here[t]), Said(t),
                 all[Process[t]], done[Process[t]])
  BY MidCall
<1>2. /\ Call(t).op = "relative" /\ i[t] <= Len(here[t].path) /\ here[t] \in Dirs
      /\ \A k \in 0..i[t] - 1 : parts[Process[t]][k] = here[t].path[Len(here[t].path) - k]
  BY <1>1 DEF InProbe
<1>3. PlainDir(here[t]) /\ Call(t).name \in Names
  BY <1>1, <1>2 DEF PlainCall
<1>4. Len(here[t].path) \in Nat /\ Len(here[t].path) <= MaxParts /\ i[t] \in Nat
  BY <1>3 DEF PlainDir, ProbeInv
<1>5. Count(Call(t), here[t]) = Len(here[t].path) + 3
  BY <1>2 DEF Count
<1> QED
  BY <1>1, <1>2, <1>3, <1>4, <1>5

(* openat of a relative name starts from the working directory. *)
LEMMA OpenRelativeTells ==
    ASSUME Plain, ProbeInv, ProbeInv', NEW all, Told(all), NEW t \in Threads, OpenRelative(t)
    PROVE  TruthInv'
<1>1. PICK op, d : op = "relative" /\ d = cwd[Process[t]]
  OBVIOUS
<1>2. Enters(t, op) /\ op \in Traced
  BY <1>1 DEF OpenRelative, Traced
<1>3. /\ Call(t).op = op /\ PlainDir(d) /\ done' \in [Pids -> Text]
      /\ \A q \in Pids \ {Process[t]} : done'[q] = done[q]
      /\ Between(Count(Call(t), d), Pieces(Call(t), d), 0, all[Process[t]], done'[Process[t]])
  BY <1>1, <1>2, Asks
<1>4. /\ pc'[t] = "store" /\ i'[t] = 0 /\ here'[t] = d /\ UNCHANGED <<log, parts, todo>>
      /\ \A u \in Threads \ {t} : pc'[u] = pc[u] /\ i'[u] = i[u] /\ here'[u] = here[u]
  BY <1>1 DEF OpenRelative, ProbeInv
<1>5. d \in Dirs
  BY <1>1, FramingAssumption DEF ProbeInv
<1>6. Call(t)' = Call(t)
  BY <1>4 DEF Call
<1>7. InProbe(t)'
  <2>1. Len(d.path) \in Nat /\ 0..0 - 1 = {}
    BY <1>3 DEF PlainDir
  <2> QED
    BY <1>1, <1>3, <1>4, <1>5, <1>6, <2>1 DEF InProbe
<1>8. Said(t)' = 0
  BY <1>4 DEF Said
<1>9. Heard(log', all) /\ all \in [Pids -> Text]
  BY <1>4 DEF Told
<1> QED
  BY <1>3, <1>4, <1>7, <1>8, <1>9, GoesOn

(* openat keeps a part of the path, the last one first. *)
LEMMA StorePartTells ==
    ASSUME Plain, ProbeInv, ProbeInv', NEW all, Told(all), NEW t \in Threads, StorePart(t)
    PROVE  TruthInv'
<1>1. pc[t] = "store" /\ i[t] < MaxParts /\ i[t] < Len(Reverse(here[t].path))
  BY DEF StorePart, MoreParts, Ancestors
<1>2. PICK L, k, s : L = Len(here[t].path) /\ k = i[t] /\ s = here[t].path
  OBVIOUS
<1>3. /\ Call(t).op = "relative" /\ PlainDir(here[t]) /\ here[t] \in Dirs
      /\ L \in Nat /\ k \in Nat
      /\ \A h \in 0..k - 1 : parts[Process[t]][h] = s[L - h]
      /\ Between(Count(Call(t), here[t]), Pieces(Call(t), here[t]), Said(t),
                 all[Process[t]], done[Process[t]])
  BY <1>1, <1>2, PathOf
<1>4. k + 1 <= L /\ Reverse(s)[k + 1] = s[L - k]
  <2>1. Len(Reverse(s)) = L /\ \A h \in 1..L : Reverse(s)[h] = s[L - h + 1]
    BY <1>2, <1>3 DEF Reverse
  <2>2. k < L
    BY <1>1, <1>2, <2>1
  <2>3. k + 1 \in 1..L /\ L - (k + 1) + 1 = L - k
    BY <1>3, <2>2
  <2> QED
    BY <2>1, <2>3
<1>5. /\ pc'[t] = "store" /\ i'[t] = k + 1 /\ UNCHANGED <<log, pc, here, todo, done>>
      /\ \A u \in Threads \ {t} : i'[u] = i[u]
      /\ \A q \in Pids \ {Process[t]} : parts'[q] = parts[q]
  BY <1>1, <1>2 DEF StorePart, ProbeInv
<1>6. \A h \in 0..(k + 1) - 1 : parts'[Process[t]][h] = s[L - h]
  <2>1. parts[Process[t]] \in Parts /\ parts \in [Pids -> Parts] /\ Process[t] \in Pids
    BY FramingAssumption DEF ProbeInv
  <2>2. k \in 0..(MaxParts - 1)
    BY <1>1, <1>2, <1>3, FramingAssumption
  <2>3. /\ parts'[Process[t]][k] = Reverse(s)[k + 1]
        /\ \A h \in 0..(MaxParts - 1) : h # k => parts'[Process[t]][h] = parts[Process[t]][h]
    BY <1>2, <2>1, <2>2 DEF StorePart, Ancestors, Parts
  <2>4. \A h \in 0..(k + 1) - 1 : h \in 0..(MaxParts - 1) /\ (h # k => h \in 0..k - 1)
    BY <1>3, <2>2, FramingAssumption
  <2> QED
    BY <1>3, <1>4, <2>3, <2>4
<1>7. Call(t)' = Call(t)
  BY <1>5 DEF Call
<1>8. InProbe(t)'
  BY <1>2, <1>3, <1>4, <1>5, <1>6, <1>7 DEF InProbe
<1>9. Said(t)' = 0 /\ Said(t) = 0
  BY <1>1, <1>5 DEF Said
<1>10. Heard(log', all) /\ all \in [Pids -> Text] /\ done' \in [Pids -> Text]
  BY <1>5 DEF Told
<1> QED
  BY <1>3, <1>5, <1>8, <1>9, <1>10, GoesOn

(* All parts have been kept, and openat prints its name. *)
LEMMA PrintOpenTells ==
    ASSUME Plain, ProbeInv, ProbeInv', NEW all, Told(all), NEW t \in Threads, PrintOpen(t)
    PROVE  TruthInv'
<1>1. pc[t] = "store" /\ ~(i[t] < MaxParts /\ i[t] < Len(Reverse(here[t].path)))
  BY DEF PrintOpen, MoreParts, Ancestors
<1>2. /\ Call(t).op = "relative" /\ here[t] \in Dirs
      /\ Len(here[t].path) \in Nat /\ Len(here[t].path) <= MaxParts
      /\ i[t] \in Nat /\ i[t] <= Len(here[t].path)
      /\ \A k \in 0..i[t] - 1 : parts[Process[t]][k] = here[t].path[Len(here[t].path) - k]
      /\ Count(Call(t), here[t]) = Len(here[t].path) + 3
  BY <1>1, PathOf
<1>3. i[t] = Len(here[t].path)
  <2>1. Len(Reverse(here[t].path)) = Len(here[t].path)
    BY <1>2 DEF Reverse
  <2> QED
    BY <1>1, <1>2, <2>1, FramingAssumption
<1>4. PICK j, m \in Nat : j = 0 /\ m = 1 /\ m = j + 1
  OBVIOUS
<1>5. Said(t) = j /\ m <= Count(Call(t), here[t]) /\ pc[t] # "out"
  BY <1>1, <1>2, <1>4 DEF Said
<1>6. PICK y : y = Piece(Call(t), here[t], m)
  OBVIOUS
<1>7. Prints(t, y) /\ UNCHANGED done
  BY <1>2, <1>4, <1>6 DEF PrintOpen, Piece
<1>8. done' \in [Pids -> Text]
  BY <1>7 DEF Told
<1>9. PICK next \in [Pids -> Text] :
         /\ Heard(log', next) /\ \A q \in Pids \ {Process[t]} : next[q] = all[q]
         /\ Between(Count(Call(t), here[t]), Pieces(Call(t), here[t]), m, next[Process[t]], done'[Process[t]])
  BY <1>4, <1>5, <1>6, <1>7, Continued
<1>10. /\ pc'[t] = "parts" /\ UNCHANGED <<parts, i, here, todo>>
       /\ \A u \in Threads \ {t} : pc'[u] = pc[u]
  BY DEF PrintOpen, ProbeInv
<1>11. Call(t)' = Call(t)
  BY <1>10 DEF Call
<1>12. InProbe(t)'
  BY <1>2, <1>10, <1>11 DEF InProbe
<1>13. Said(t)' = m
  BY <1>2, <1>3, <1>4, <1>10 DEF Said
<1>14. Between(Count(Call(t), here'[t]), Pieces(Call(t), here'[t]), m, next[Process[t]], done'[Process[t]])
  BY <1>9, <1>10
<1> QED
  BY <1>7, <1>8, <1>9, <1>10, <1>12, <1>13, <1>14, GoesOn

(* openat prints a part of the path, the first one first. *)
LEMMA PrintPartTells ==
    ASSUME Plain, ProbeInv, ProbeInv', NEW all, Told(all), NEW t \in Threads, PrintPart(t)
    PROVE  TruthInv'
<1>1. pc[t] = "parts" /\ i[t] > 0
  BY DEF PrintPart
<1>2. PICK L, k, s : L = Len(here[t].path) /\ k = i[t] /\ s = here[t].path
  OBVIOUS
<1>3. /\ Call(t).op = "relative" /\ here[t] \in Dirs /\ s \in Seq(Names)
      /\ L \in Nat /\ k \in Nat /\ k <= L /\ k > 0
      /\ \A h \in 0..k - 1 : parts[Process[t]][h] = s[L - h]
      /\ Count(Call(t), here[t]) = L + 3
  BY <1>1, <1>2, PathOf DEF PlainDir
<1>4. PICK j, m \in Nat : j = 1 + L - k /\ m = j + 1
  <2>1. L \in Nat /\ k \in Nat /\ k <= L
    BY <1>3
  <2>2. 1 + L - k \in Nat /\ (1 + L - k) + 1 \in Nat
    BY <2>1
  <2> QED
    BY <2>2
<1>5. Said(t) = j /\ m <= Count(Call(t), here[t]) /\ pc[t] # "out"
  BY <1>1, <1>2, <1>3, <1>4 DEF Said
<1>6. PICK y : y = Piece(Call(t), here[t], m)
  OBVIOUS
<1>7. Prints(t, y) /\ UNCHANGED done
  <2>1. m # 1 /\ m # L + 3 /\ m # L + 2 /\ m - 1 = L - (k - 1) /\ L + 3 - 1 = L + 2
    BY <1>3, <1>4
  <2>2. y = Slash(s[L - (k - 1)])
    BY <1>2, <1>3, <1>6, <2>1 DEF Piece
  <2>3. k - 1 \in 0..k - 1 /\ L - (k - 1) \in 1..L
    BY <1>3
  <2>4. PICK n \in Names : n = s[L - (k - 1)]
    BY <1>2, <1>3, <2>3, ElementOfSeq
  <2>5. Slash(n) \in Text
    BY PlainText, NamesAreText DEF NamesAreSequences
  <2>6. Slashed(<<n>>) = Slash(n)
    BY <2>5, OneSlashed
  <2>7. parts[Process[t]][LastStored(i[t])] = n
    BY <1>2, <1>3, <2>3, <2>4 DEF LastStored
  <2> QED
    BY <2>2, <2>4, <2>6, <2>7 DEF PrintPart
<1>8. done' \in [Pids -> Text]
  BY <1>7 DEF Told
<1>9. PICK next \in [Pids -> Text] :
         /\ Heard(log', next) /\ \A q \in Pids \ {Process[t]} : next[q] = all[q]
         /\ Between(Count(Call(t), here[t]), Pieces(Call(t), here[t]), m, next[Process[t]], done'[Process[t]])
  BY <1>4, <1>5, <1>6, <1>7, Continued
<1>10. /\ pc'[t] = "delete" /\ UNCHANGED <<parts, i, here, todo>>
       /\ \A u \in Threads \ {t} : pc'[u] = pc[u]
  BY DEF PrintPart, ProbeInv
<1>11. Call(t)' = Call(t)
  BY <1>10 DEF Call
<1>12. InProbe(t)'
  BY <1>2, <1>3, <1>10, <1>11 DEF InProbe
<1>13. Said(t)' = m
  BY <1>2, <1>3, <1>4, <1>10 DEF Said
<1>14. Between(Count(Call(t), here'[t]), Pieces(Call(t), here'[t]), m, next[Process[t]], done'[Process[t]])
  BY <1>9, <1>10
<1> QED
  BY <1>7, <1>8, <1>9, <1>10, <1>12, <1>13, <1>14, GoesOn

(* openat forgets the part it printed. *)
LEMMA DeletePartTells ==
    ASSUME Plain, ProbeInv, ProbeInv', NEW all, Told(all), NEW t \in Threads, DeletePart(t)
    PROVE  TruthInv'
<1>1. pc[t] = "delete" /\ i[t] \in 1..MaxParts
  BY DEF DeletePart, ProbeInv, Index
<1>2. PICK L, k, s : L = Len(here[t].path) /\ k = i[t] /\ s = here[t].path
  OBVIOUS
<1>3. /\ Call(t).op = "relative" /\ here[t] \in Dirs
      /\ L \in Nat /\ k \in Nat /\ k <= L /\ k > 0
      /\ \A h \in 0..k - 1 : parts[Process[t]][h] = s[L - h]
      /\ Between(Count(Call(t), here[t]), Pieces(Call(t), here[t]), Said(t),
                 all[Process[t]], done[Process[t]])
  BY <1>1, <1>2, PathOf, FramingAssumption
<1>4. /\ pc'[t] = "parts" /\ i'[t] = k - 1 /\ UNCHANGED <<log, here, todo, done>>
      /\ \A u \in Threads \ {t} : pc'[u] = pc[u] /\ i'[u] = i[u]
      /\ \A q \in Pids \ {Process[t]} : parts'[q] = parts[q]
  BY <1>2 DEF DeletePart, ProbeInv
<1>5. \A h \in 0..(k - 1) - 1 : parts'[Process[t]][h] = s[L - h]
  <2>1. parts[Process[t]] \in Parts /\ parts \in [Pids -> Parts] /\ Process[t] \in Pids
    BY FramingAssumption DEF ProbeInv
  <2>2. \A h \in 0..(MaxParts - 1) : h # k - 1 => parts'[Process[t]][h] = parts[Process[t]][h]
    BY <1>2, <2>1 DEF DeletePart, LastStored, Parts
  <2>3. \A h \in 0..(k - 1) - 1 : h \in 0..(MaxParts - 1) /\ h # k - 1 /\ h \in 0..k - 1
    BY <1>1, <1>2, <1>3, FramingAssumption
  <2> QED
    BY <1>3, <2>2, <2>3
<1>6. Call(t)' = Call(t)
  BY <1>4 DEF Call
<1>7. InProbe(t)'
  BY <1>2, <1>3, <1>4, <1>5, <1>6 DEF InProbe
<1>8. Said(t)' = Said(t)
  BY <1>1, <1>2, <1>3, <1>4 DEF Said
<1>9. Heard(log', all) /\ all \in [Pids -> Text] /\ done' \in [Pids -> Text]
  BY <1>4 DEF Told
<1> QED
  BY <1>3, <1>4, <1>7, <1>8, <1>9, GoesOn

(* openat prints the name after the parts. *)
LEMMA PrintNameTells ==
    ASSUME Plain, ProbeInv, ProbeInv', NEW all, Told(all), NEW t \in Threads, PrintName(t)
    PROVE  TruthInv'
<1>1. pc[t] = "parts" /\ i[t] = 0
  BY DEF PrintName
<1>2. PICK L : L = Len(here[t].path)
  OBVIOUS
<1>3. /\ Call(t).op = "relative" /\ here[t] \in Dirs /\ L \in Nat
      /\ Count(Call(t), here[t]) = L + 3 /\ Call(t).name \in Names
  BY <1>1, <1>2, PathOf
<1>4. PICK j, m \in Nat : j = 1 + L /\ m = j + 1
  BY <1>3
<1>5. Said(t) = j /\ m <= Count(Call(t), here[t]) /\ pc[t] # "out"
  BY <1>1, <1>2, <1>3, <1>4 DEF Said
<1>6. PICK y : y = Piece(Call(t), here[t], m)
  OBVIOUS
<1>7. Prints(t, y) /\ UNCHANGED done
  <2>1. m # 1 /\ m # L + 3 /\ m = L + 3 - 1
    BY <1>3, <1>4
  <2>2. y = Slash(Call(t).name)
    BY <1>3, <1>6, <2>1 DEF Piece
  <2>3. Slash(Call(t).name) \in Text
    BY <1>3, PlainText, NamesAreText DEF NamesAreSequences
  <2>4. Slashed(<<Call(t).name>>) = Slash(Call(t).name)
    BY <2>3, OneSlashed
  <2> QED
    BY <2>2, <2>4 DEF PrintName
<1>8. done' \in [Pids -> Text]
  BY <1>7 DEF Told
<1>9. PICK next \in [Pids -> Text] :
         /\ Heard(log', next) /\ \A q \in Pids \ {Process[t]} : next[q] = all[q]
         /\ Between(Count(Call(t), here[t]), Pieces(Call(t), here[t]), m, next[Process[t]], done'[Process[t]])
  BY <1>4, <1>5, <1>6, <1>7, Continued
<1>10. /\ pc'[t] = "flags" /\ UNCHANGED <<parts, i, here, todo>>
       /\ \A u \in Threads \ {t} : pc'[u] = pc[u]
  BY DEF PrintName, ProbeInv
<1>11. Call(t)' = Call(t)
  BY <1>10 DEF Call
<1>12. InProbe(t)'
  BY <1>3, <1>10, <1>11 DEF InProbe
<1>13. Said(t)' = m
  BY <1>3, <1>4, <1>10, <1>11 DEF Said
<1>14. Between(Count(Call(t), here'[t]), Pieces(Call(t), here'[t]), m, next[Process[t]], done'[Process[t]])
  BY <1>9, <1>10
<1> QED
  BY <1>7, <1>8, <1>9, <1>10, <1>12, <1>13, <1>14, GoesOn

(* openat prints the flags and ends its line. *)
LEMMA PrintFlagsTells ==
    ASSUME Plain, ProbeInv, ProbeInv', NEW all, Told(all), NEW t \in Threads, PrintFlags(t)
    PROVE  TruthInv'
<1>1. pc[t] = "flags"
  BY DEF PrintFlags
<1>2. /\ Call(t).op \in {"openat", "relative"}
      /\ Call(t).op = "relative" => PlainDir(here[t])
  BY <1>1, MidCall DEF InProbe
<1>3. PICK m \in Nat : m = Count(Call(t), here[t]) /\ m # 1 /\ m # 0
  BY <1>2 DEF Count, PlainDir
<1>4. PICK j \in Nat : m = j + 1
  BY <1>3
<1>5. Said(t) = j /\ m <= Count(Call(t), here[t]) /\ pc[t] # "out"
  BY <1>1, <1>3, <1>4 DEF Said
<1>6. PICK y : y = Piece(Call(t), here[t], m)
  OBVIOUS
<1>7. Prints(t, y) /\ UNCHANGED <<done, parts, i, here>>
  BY <1>2, <1>3, <1>6 DEF PrintFlags, Piece
<1>8. done' \in [Pids -> Text]
  BY <1>7 DEF Told
<1>9. PICK next \in [Pids -> Text] :
         /\ Heard(log', next) /\ \A q \in Pids \ {Process[t]} : next[q] = all[q]
         /\ Between(Count(Call(t), here[t]), Pieces(Call(t), here[t]), m, next[Process[t]], done'[Process[t]])
  BY <1>4, <1>5, <1>6, <1>7, Continued
<1>10. next[Process[t]] = done'[Process[t]]
  BY <1>3, <1>9, BetweenEnd
<1>11. Leaves(t) /\ todo[t] # <<>>
  BY <1>1 DEF PrintFlags, ProbeInv
<1> QED
  BY <1>7, <1>8, <1>9, <1>10, <1>11, IsDone

(* chdir prints nothing. *)
LEMMA ChdirTells ==
    ASSUME Plain, ProbeInv, ProbeInv', NEW all, Told(all), NEW t \in Threads, Chdir(t)
    PROVE  TruthInv'
<1>1. pc[t] = "out" /\ todo[t] # <<>> /\ Leaves(t) /\ UNCHANGED <<log, parts, i, here, done>>
  BY DEF Chdir
<1>2. all[Process[t]] = done'[Process[t]]
  BY <1>1 DEF Told, Telling
<1>3. Heard(log', all) /\ all \in [Pids -> Text] /\ done' \in [Pids -> Text]
  BY <1>1 DEF Told
<1> QED
  BY <1>1, <1>2, <1>3, IsDone

(* Every step keeps it so. *)
LEMMA StepTruth == Plain /\ TruthInv /\ [Next]_vars => TruthInv'
<1> SUFFICES ASSUME Plain, TruthInv, [Next]_vars
             PROVE  TruthInv'
  OBVIOUS
<1>1. ProbeInv /\ ProbeInv'
  BY StepProbe DEF TruthInv
<1>2. PICK all : Told(all)
  BY DEF TruthInv
<1>3. ASSUME NEW t \in Threads,
             \/ Creat(t) \/ Exec(t) \/ PrintArg(t) \/ ExecEnd(t)
             \/ OpenAbsolute(t) \/ OpenRelative(t)
             \/ StorePart(t) \/ PrintOpen(t) \/ PrintPart(t) \/ DeletePart(t)
             \/ PrintName(t) \/ PrintFlags(t) \/ Chdir(t)
      PROVE  TruthInv'
  BY <1>1, <1>2, <1>3, CreatTells, ExecTells, PrintArgTells, ExecEndTells,
     OpenAbsoluteTells, OpenRelativeTells, StorePartTells, PrintOpenTells, PrintPartTells,
     DeletePartTells, PrintNameTells, PrintFlagsTells, ChdirTells
<1>4. CASE UNCHANGED vars
  <2>1. UNCHANGED <<log, parts, pc, i, here, todo, done>>
    BY <1>4 DEF vars
  <2>2. Heard(log', all) /\ done' = done
    BY <1>2, <2>1 DEF Told
  <2>3. ASSUME NEW t \in Threads
        PROVE  Telling(t, all)'
    <3>1. Call(t)' = Call(t) /\ Telling(t, all)
      BY <1>2, <2>1 DEF Call, Told
    <3>2. (InProbe(t)' <=> InProbe(t)) /\ Said(t)' = Said(t)
      BY <2>1, <3>1 DEF InProbe, Said
    <3> QED
      BY <2>1, <3>1, <3>2 DEF Telling
  <2>4. Told(all)'
    BY <1>2, <2>2, <2>3 DEF Told
  <2> QED
    BY <1>1, <2>4 DEF TruthInv
<1> QED
  BY <1>3, <1>4 DEF Next

-----------------------------------------------------------------------------
(* From what has been said to what is read. *)

(* A text begins itself. *)
LEMMA BeginsItself == \A s \in Text : Begins(s, s)
<1> SUFFICES ASSUME NEW s \in Text
             PROVE  \E x \in Text : s = s \o x
  BY DEF Begins
<1> QED
  BY NothingBefore

(* The beginning of a beginning. *)
LEMMA BeginsBeginning ==
    ASSUME NEW s \in Text, NEW t, NEW u, Begins(s, t), Begins(t, u)
    PROVE  Begins(s, u)
<1>1. PICK x \in Text : t = s \o x
  BY DEF Begins
<1>2. PICK y \in Text : u = t \o y
  BY DEF Begins
<1>3. x \o y \in Text
  BY Together
<1>4. (s \o x) \o y = s \o (x \o y)
  BY Together
<1>5. u = s \o (x \o y)
  BY <1>1, <1>2, <1>4, Zenon
<1> QED
  BY <1>3, <1>5 DEF Begins

(* A beginning is a prefix. *)
LEMMA BeginningIsPrefix ==
    ASSUME NEW s \in Text, NEW t, Begins(s, t)
    PROVE  IsPrefix(s, t)
<1>1. PICK x \in Text : t = s \o x
  BY DEF Begins
<1>2. PICK n \in Nat : n = Len(s)
  BY DEF Text
<1>3. /\ n <= Len(t)
      /\ \A k \in 1..n : t[k] = s[k] /\ s[k] \in Letters
  BY <1>1, <1>2, ConcatProperties, ElementOfSeq DEF Text
<1>4. SubSeq(s, 1, n) = SubSeq(t, 1, n)
  BY <1>3, Spelt
<1>5. SubSeq(s, 1, n) = s
  BY <1>2 DEF Text
<1> QED
  BY <1>2, <1>3, <1>4, <1>5 DEF IsPrefix

(* A thread has not said more pieces than its call has. *)
LEMMA NotTooMuch ==
    ASSUME Plain, ProbeInv, NEW all, Told(all), NEW t \in Threads, pc[t] # "out"
    PROVE  Said(t) \in 0..Count(Call(t), here[t])
<1>1. /\ PlainCall(Call(t)) /\ InProbe(t) /\ Call(t).op \in Traced
      /\ Call(t).op = "relative" => PlainDir(here[t])
  BY MidCall
<1>2. Count(Call(t), here[t]) \in Nat \ {0}
  BY <1>1, PlainText, PiecesAreText
<1>3. CASE pc[t] = "args"
  <2>1. Call(t).op = "exec" /\ i[t] <= Printed(Call(t)) + 1 /\ i[t] \in Nat
    BY <1>1, <1>3 DEF InProbe, ProbeInv
  <2>2. Printed(Call(t)) \in Nat
    BY <1>1, <2>1, PrintedArgs DEF PlainCall
  <2> QED
    BY <1>3, <2>1, <2>2 DEF Said, Count
<1>4. CASE pc[t] = "store"
  BY <1>2, <1>4 DEF Said
<1>5. CASE pc[t] \in {"parts", "delete"}
  <2>1. /\ Len(here[t].path) \in Nat /\ i[t] \in Nat /\ i[t] <= Len(here[t].path)
        /\ Count(Call(t), here[t]) = Len(here[t].path) + 3
    BY <1>5, PathOf
  <2> QED
    BY <1>5, <2>1 DEF Said
<1>6. CASE pc[t] = "flags"
  BY <1>2, <1>6 DEF Said
<1> QED
  BY <1>3, <1>4, <1>5, <1>6 DEF ProbeInv

(* What a process has said begins what it has asked for. *)
LEMMA SaidIsAsked ==
    ASSUME Plain, ProbeInv, NEW all, Told(all), NEW p \in Pids
    PROVE  Begins(all[p], done[p])
<1>1. all[p] \in Text
  BY DEF Told
<1>2. CASE \A t \in Threads : Process[t] # p
  BY <1>1, <1>2, BeginsItself DEF Told
<1>3. ASSUME NEW t \in Threads, Process[t] = p
      PROVE  Begins(all[p], done[p])
  <2>1. CASE pc[t] = "out"
    <3>1. all[p] = done[p]
      BY <1>3, <2>1 DEF Told, Telling
    <3> QED
      BY <1>1, <3>1, BeginsItself
  <2>2. CASE pc[t] # "out"
    <3>1. PICK n, g, j, s, a : /\ n = Count(Call(t), here[t]) /\ g = Pieces(Call(t), here[t])
                               /\ j = Said(t) /\ s = all[p] /\ a = done[p]
      OBVIOUS
    <3>2. Between(n, g, j, s, a)
      BY <1>3, <2>2, <3>1, MidCall
    <3>3. n \in Nat /\ AllText(n, g) /\ j \in 0..n
      <4>1. /\ PlainCall(Call(t)) /\ Call(t).op \in Traced
            /\ Call(t).op = "relative" => PlainDir(here[t])
        BY <2>2, MidCall
      <4>2. /\ Count(Call(t), here[t]) \in Nat \ {0}
            /\ \A k \in 1..Count(Call(t), here[t]) : Pieces(Call(t), here[t])[k] \in Text
        BY <4>1, PlainText, PiecesAreText
      <4>3. j \in 0..n
        BY <2>2, <3>1, NotTooMuch
      <4> QED
        BY <3>1, <4>2, <4>3 DEF AllText
    <3> QED
      BY <3>1, <3>2, <3>3, BetweenPrefix
  <2> QED
    BY <2>1, <2>2
<1> QED
  BY <1>2, <1>3

(* What is read when n symbols have reached the file. *)
LEMMA LogIsRead ==
    ASSUME log \in Seq(Symbols), NEW n \in 0..Len(log), NEW raw, raw = ReadLog(n)
    PROVE  IsReadOf(raw, log, n)
<1> SUFFICES /\ Len(raw) = n \/ (Len(raw) = n + 1 /\ raw[n + 1] = "nl")
             /\ \A k \in 1..n : raw[k] = log[k]
  BY DEF IsReadOf
<1>1. PICK flushed : flushed = SubSeq(log, 1, n)
  OBVIOUS
<1>2. /\ flushed \in Seq(Symbols) /\ Len(flushed) = n
      /\ \A k \in 1..n : flushed[k] = log[k]
  BY <1>1
<1>3. "nl" \in Symbols
  BY DEF Symbols, Letters
<1>4. CASE raw = flushed
  BY <1>2, <1>4
<1>5. CASE raw = Append(flushed, "nl")
  BY <1>2, <1>3, <1>5, AppendProperties
<1> QED
  BY <1>1, <1>4, <1>5 DEF ReadLog

(* However little of the log has been flushed when it is read, the streams *)
(* are beginnings of what the processes did, and the whole log gives all   *)
(* their calls.                                                            *)
LEMMA TruthIsRead == Plain /\ TruthInv => TraceIsTruth
<1> SUFFICES ASSUME Plain, TruthInv
             PROVE  TraceIsTruth
  OBVIOUS
<1>1. PICK all : Told(all) /\ Heard(log, all) /\ all \in [Pids -> Text] /\ done \in [Pids -> Text]
  BY DEF TruthInv, Told
<1>2. ProbeInv /\ D \notin Letters /\ log \in Seq(Symbols) /\ Len(log) \in 0..Len(log)
  BY <1>1, PlainText DEF TruthInv, Heard, Chunks
<1>3. ASSUME NEW n \in 0..Len(log)
      PROVE  LET streams == Streams(ReadLog(n)) IN
             /\ streams \in [Pids -> Text]
             /\ \A p \in Pids : Begins(streams[p], all[p])
             /\ n = Len(log) => streams = all
  <2>1. PICK raw : raw = ReadLog(n)
    OBVIOUS
  <2>2. IsReadOf(raw, log, n)
    BY <1>2, <2>1, LogIsRead
  <2> QED
    BY <1>1, <1>2, <2>1, <2>2, HeardIsRead
<1>4. ASSUME NEW n \in 0..Len(log)
      PROVE  LET streams == Streams(ReadLog(n)) IN
             streams # Fails /\ \A p \in Pids : IsPrefix(streams[p], done[p])
  <2>1. PICK streams \in [Pids -> Text] : /\ streams = Streams(ReadLog(n))
                                          /\ \A p \in Pids : Begins(streams[p], all[p])
    BY <1>3
  <2>2. streams # Fails
    <3>1. PICK q \in Pids : TRUE
      BY FramingAssumption
    <3>2. streams[q] \in Seq(Letters)
      BY DEF Text
    <3>3. Fails[q] = <<D>>
      BY DEF Fails
    <3>4. <<D>> \notin Seq(Letters)
      BY <1>2, OneLetter
    <3> QED
      BY <3>2, <3>3, <3>4
  <2>3. ASSUME NEW p \in Pids
        PROVE  IsPrefix(streams[p], done[p])
    <3>1. PICK s \in Text : s = streams[p]
      OBVIOUS
    <3>2. PICK u, v : u = all[p] /\ v = done[p]
      OBVIOUS
    <3>3. Begins(s, u) /\ Begins(u, v)
      BY <1>1, <1>2, <2>1, <3>1, <3>2, SaidIsAsked
    <3>4. Begins(s, v)
      BY <3>3, BeginsBeginning
    <3> QED
      BY <3>1, <3>2, <3>4, BeginningIsPrefix
  <2> QED
    BY <2>1, <2>2, <2>3
<1>5. ASSUME BuildEnded
      PROVE  Streams(ReadLog(Len(log))) = done
  <2>1. Streams(ReadLog(Len(log))) = all
    BY <1>2, <1>3
  <2>2. \A t \in Threads : pc[t] = "out"
    BY <1>2, <1>5 DEF BuildEnded, ProbeInv
  <2>3. \A t \in Threads : all[Process[t]] = done[Process[t]]
    BY <1>1, <2>2 DEF Told, Telling
  <2>4. \A p \in Pids : all[p] = done[p]
    BY <1>1, <2>3 DEF Told
  <2> QED
    BY <1>1, <2>1, <2>4
<1> QED
  BY <1>4, <1>5 DEF TraceIsTruth

(* Whatever the processes of a build do and however their probes alternate, *)
(* the streams processBpftraceOutput puts together from what has been      *)
(* flushed are beginnings of what each process asked the kernel for, never *)
(* a failure, and in the end they are all of it, word for word and in      *)
(* order.                                                                  *)
THEOREM StreamsAreTheTruth ==
    ASSUME Plain
    PROVE  Spec => []TraceIsTruth
<1>1. Init => TruthInv
  BY InitTruth
<1>2. TruthInv /\ [Next]_vars => TruthInv'
  BY StepTruth
<1>3. TruthInv => TraceIsTruth
  BY TruthIsRead
<1> QED
  BY <1>1, <1>2, <1>3, PTL DEF Spec

-----------------------------------------------------------------------------
(* Which tasks the script follows: under which conditions it traces the    *)
(* whole build, and nothing else.                                          *)

(* Ids are given out to tasks of the build or to others; a process belongs *)
(* to the build if its tasks do.                                           *)
FamilyInv ==
    /\ phase \in {"wait", "build", "built"} /\ attached \in BOOLEAN
    /\ group \in [Ids -> Ids]
    /\ alive \subseteq used /\ used \subseteq Ids
    /\ tracked \subseteq used /\ ours \subseteq used
    /\ Root \in alive /\ Root \in ours
    /\ \A t \in alive : /\ group[t] \in used
                        /\ t \in ours <=> group[t] \in ours

LEMMA InitFamily == TPInit => FamilyInv
BY IdsAssumption DEF TPInit, FamilyInv

LEMMA StepFamily == FamilyInv /\ [TPNext]_tpVars => FamilyInv'
<1> SUFFICES ASSUME FamilyInv, [TPNext]_tpVars
             PROVE  FamilyInv'
  OBVIOUS
<1> USE IdsAssumption DEF FamilyInv
<1>1. CASE Attach
  BY <1>1 DEF Attach, Insert, ScriptPid
<1>2. CASE StartBuild \/ BuildEnds
  BY <1>2 DEF StartBuild, BuildEnds
<1>3. ASSUME NEW t \in alive, Exit(t)
      PROVE  FamilyInv'
  BY <1>3 DEF Exit
<1>4. ASSUME NEW t \in Ids, NEW c \in Ids, Fork(t, c)
      PROVE  FamilyInv'
  BY <1>4 DEF Fork, Create, Insert
<1>5. ASSUME NEW t \in Ids, NEW c \in Ids, NewThread(t, c)
      PROVE  FamilyInv'
  BY <1>5 DEF NewThread, Create, Insert
<1>6. CASE UNCHANGED tpVars
  BY <1>6 DEF tpVars
<1> QED
  BY <1>1, <1>2, <1>3, <1>4, <1>5, <1>6 DEF TPNext

-----------------------------------------------------------------------------
Fits == Cardinality(tracked) <= MaxTracked

LEMMA InsertFits ==
    ASSUME NEW s, NEW c, Cardinality(s) <= MaxTracked
    PROVE  Cardinality(Insert(s, c)) <= MaxTracked
BY DEF Insert

LEMMA StepFits == Fits /\ [TPNext]_tpVars => Fits'
<1> SUFFICES ASSUME Fits, [TPNext]_tpVars
             PROVE  Cardinality(tracked') <= MaxTracked
  BY DEF Fits
<1> USE DEF Fits
<1>1. CASE Attach
  <2>1. Cardinality({}) <= MaxTracked
    BY FS_EmptySet, IdsAssumption
  <2> QED
    BY <1>1, <2>1, InsertFits DEF Attach
<1>2. ASSUME NEW t, NEW c, NEW g, Create(t, c, g)
      PROVE  Cardinality(tracked') <= MaxTracked
  BY <1>2, InsertFits DEF Create
<1>3. ASSUME UNCHANGED tracked
      PROVE  Cardinality(tracked') <= MaxTracked
  BY <1>3
<1> QED
  BY <1>1, <1>2, <1>3 DEF TPNext, StartBuild, BuildEnds, Exit, Fork, NewThread, tpVars

(* Every variable of the script and of the tasks stays in its type, and    *)
(* the hash within its capacity.                                           *)
THEOREM TaskTypes == TPSpec => []TPTypeOK
<1>1. TPInit => Fits
  BY FS_EmptySet, IdsAssumption DEF TPInit, Fits
<1>2. FamilyInv /\ Fits => TPTypeOK
  BY DEF FamilyInv, Fits, TPTypeOK
<1> QED
  BY <1>1, <1>2, InitFamily, StepFamily, StepFits, PTL DEF TPSpec

-----------------------------------------------------------------------------
(* With room for every id and an attachment that is waited for, the tasks  *)
(* of the build and their processes are in the hash.                       *)
Unhurried == ~AttachMayTimeOut /\ Cardinality(Ids) <= MaxTracked

TracedInv ==
    /\ phase # "wait" => attached
    /\ phase = "wait" => alive \cap ours = {Root} /\ group[Root] = Root
    /\ attached => \A t \in alive \cap ours : t \in tracked /\ group[t] \in tracked

LEMMA RoomForAll ==
    ASSUME Unhurried, NEW s \in SUBSET Ids, NEW c \in Ids
    PROVE  Insert(s, c) = s \cup {c}
<1>1. /\ s \cup {c} \subseteq Ids
      /\ IsFiniteSet(Ids)
  BY IdsAssumption
<1>2. /\ IsFiniteSet(s \cup {c})
      /\ Cardinality(s \cup {c}) <= Cardinality(Ids)
  BY <1>1, FS_Subset
<1>3. /\ Cardinality(s \cup {c}) \in Nat
      /\ Cardinality(Ids) \in Nat
  BY <1>1, <1>2, FS_CardinalityType
<1> QED
  BY <1>2, <1>3, IdsAssumption DEF Insert, Unhurried

LEMMA InitTraced == TPInit => TracedInv
BY IdsAssumption DEF TPInit, TracedInv

LEMMA StepTraced ==
    ASSUME Unhurried, FamilyInv, TracedInv, [TPNext]_tpVars
    PROVE  TracedInv'
<1> USE IdsAssumption DEF TracedInv
<1>1. CASE Attach
  <2>1. tracked' = {Root}
    BY <1>1, RoomForAll DEF Attach, ScriptPid
  <2>2. phase = "wait"
    BY <1>1 DEF Attach
  <2> QED
    BY <1>1, <2>1, <2>2 DEF Attach
<1>2. CASE StartBuild
  BY <1>2 DEF StartBuild, MayBuild, Unhurried
<1>3. CASE BuildEnds
  BY <1>3 DEF BuildEnds
<1>4. ASSUME NEW t \in alive, Exit(t)
      PROVE  TracedInv'
  <2>1. \A u \in alive' : u # t /\ group'[u] = group[u]
    BY <1>4 DEF Exit, FamilyInv
  <2> QED
    BY <1>4, <2>1 DEF Exit, FamilyInv
<1>5. ASSUME NEW t \in Ids, NEW c \in Ids, NEW g \in {c, group[t]}, Create(t, c, g)
      PROVE  TracedInv'
  <2>1. attached /\ phase = "build"
    BY <1>5 DEF Create
  <2>2. t \in alive /\ c \notin alive /\ \A u \in alive : group[u] # c
    BY <1>5 DEF Create
  <2>3. \A u \in alive : /\ group'[u] = group[u]
                         /\ u \in ours' <=> u \in ours
    BY <1>5, <2>2 DEF Create, FamilyInv
  <2>4. group'[c] = g /\ (c \in ours' <=> t \in ours)
    BY <1>5 DEF Create, FamilyInv
  <2>5. tracked \subseteq tracked'
    BY <1>5 DEF Create, Insert
  <2>6. t \in ours => c \in tracked' /\ g \in tracked'
    <3> SUFFICES ASSUME t \in ours
                 PROVE  c \in tracked' /\ g \in tracked'
      OBVIOUS
    <3>1. t \in tracked /\ group[t] \in tracked
      BY <2>1, <2>2
    <3>2. tracked' = tracked \cup {c}
      BY <1>5, <2>1, <3>1, RoomForAll DEF Create, ForkIsSeen, FamilyInv
    <3> QED
      BY <3>1, <3>2
  <2>7. /\ attached' /\ phase' = "build"
        /\ alive' = alive \cup {c}
    BY <1>5, <2>1 DEF Create
  <2> QED
    BY <2>1, <2>2, <2>3, <2>4, <2>5, <2>6, <2>7
<1>6. CASE UNCHANGED tpVars
  BY <1>6 DEF tpVars
<1> QED
  BY <1>1, <1>2, <1>3, <1>4, <1>5, <1>6 DEF TPNext, Fork, NewThread

(* Every process of the build is traced, whatever thread of whatever       *)
(* process created it (the filters of bpftrace_script.h:22 and 28), when   *)
(* the hash has room and the build waits for the probes (tracker.cpp:295). *)
THEOREM WholeBuildIsTraced ==
    ASSUME Unhurried
    PROVE  TPSpec => []BuildIsTraced
<1>1. FamilyInv /\ TracedInv => BuildIsTraced
  BY DEF TracedInv, BuildIsTraced, IsTraced
<1>2. FamilyInv /\ TracedInv /\ [TPNext]_tpVars => TracedInv'
  BY StepTraced
<1> QED
  BY <1>1, <1>2, InitFamily, StepFamily, InitTraced, PTL DEF TPSpec

-----------------------------------------------------------------------------
(* The hash holds nothing but ids of the build, as long as none of them is *)
(* given to a stranger later.                                              *)
LEMMA StepOurs ==
    ASSUME ~IdsAreReused, FamilyInv, tracked \subseteq ours, [TPNext]_tpVars
    PROVE  (tracked \subseteq ours)'
<1> USE IdsAssumption DEF FamilyInv
<1>1. CASE Attach
  BY <1>1 DEF Attach, Insert, ScriptPid
<1>2. CASE StartBuild \/ BuildEnds
  BY <1>2 DEF StartBuild, BuildEnds
<1>3. ASSUME NEW t \in alive, Exit(t)
      PROVE  (tracked \subseteq ours)'
  BY <1>3 DEF Exit
<1>4. ASSUME NEW t \in Ids, NEW c \in Ids, NEW g, Create(t, c, g)
      PROVE  (tracked \subseteq ours)'
  <2>1. c \notin tracked
    BY <1>4 DEF Create
  <2>2. tracked' \subseteq tracked \cup (IF t \in tracked THEN {c} ELSE {})
    BY <1>4 DEF Create, ForkIsSeen, Insert
  <2> QED
    BY <1>4, <2>1, <2>2 DEF Create
<1>5. CASE UNCHANGED tpVars
  BY <1>5 DEF tpVars
<1> QED
  BY <1>1, <1>2, <1>3, <1>4, <1>5 DEF TPNext, Fork, NewThread

(* Nothing that is not part of the build is traced as long as the kernel   *)
(* gives no id out twice: entries are only made for children of entries    *)
(* (bpftrace_script.h:22), and are never removed (:24).                    *)
THEOREM NothingElseIsTraced ==
    ASSUME ~IdsAreReused
    PROVE  TPSpec => []OnlyBuildIsTraced
<1>1. FamilyInv /\ tracked \subseteq ours => OnlyBuildIsTraced
  BY DEF FamilyInv, OnlyBuildIsTraced, IsTraced
<1>2. FamilyInv /\ tracked \subseteq ours /\ [TPNext]_tpVars
      => (tracked \subseteq ours)'
  BY StepOurs
<1>3. TPInit => tracked \subseteq ours
  BY DEF TPInit
<1> QED
  BY <1>1, <1>2, <1>3, InitFamily, StepFamily, PTL DEF TPSpec
=============================================================================
