-------------------------- MODULE BuildGraphProofs --------------------------
(***************************************************************************)
(* Proofs about module BuildGraph, for every set of commands and roots:    *)
(* pruneGraph keeps exactly the edges that are needed, and their nodes.    *)
(***************************************************************************)
EXTENDS BuildGraph, SequenceTheorems, TLAPS

-----------------------------------------------------------------------------
(* Types. *)

TypeInv ==
    /\ TypeOK
    /\ phase \in {"parse", "dedup"} =>
         visited = {} /\ frontier = {} /\ next = {} /\ reachable = {}
    /\ phase = "parse" => i = 1 /\ best = [p \in Paths |-> 0]
    /\ \A k \in 1..Len(edges) : edges[k] \in Possible

LEMMA EdgeTypes ==
    ASSUME TypeInv, NEW k \in 1..Len(edges)
    PROVE  /\ Output(k) \in Paths /\ Inputs(k) \subseteq Paths
           /\ Priority[edges[k].command] \in Nat
BY GraphAssumption DEF TypeInv, Output, Inputs

LEMMA InitTypes == Init => TypeInv
BY DEF Init, TypeInv, TypeOK

LEMMA StepTypes == TypeInv /\ [Next]_vars => TypeInv'
<1> SUFFICES ASSUME TypeInv, [Next]_vars
             PROVE  TypeInv'
  OBVIOUS
<1> USE DEF TypeInv, TypeOK
<1>0. Len(edges) \in Nat
  OBVIOUS
<1>1. ASSUME NEW e \in Possible, AddEdge(e)
      PROVE  TypeInv'
  <2>1. /\ edges' \in Seq(Possible)
        /\ Len(edges') = Len(edges) + 1
        /\ \A k \in 1..Len(edges) : edges'[k] = edges[k]
        /\ edges'[Len(edges) + 1] = e
    BY <1>1 DEF AddEdge
  <2>2. nodes' \subseteq Paths
    BY <1>1, GraphAssumption DEF AddEdge
  <2>3. /\ phase = "parse" /\ phase' = phase /\ kept' = kept \cup {Len(edges) + 1}
        /\ i' = i /\ best' = best /\ UNCHANGED <<visited, frontier, next, reachable>>
    BY <1>1 DEF AddEdge, NewIndex, searchVars
  <2>4. i = 1 /\ best = [p \in Paths |-> 0]
    BY <2>3
  <2>5. /\ kept' \subseteq 1..Len(edges')
        /\ i' \in 1..(Len(edges') + 1)
        /\ best' \in [Paths -> 0..Len(edges')]
    <3>1. \A k \in kept : k \in 1..(Len(edges) + 1)
      BY <1>0
    <3>2. Len(edges) + 1 \in 1..(Len(edges) + 1) /\ 0 \in 0..(Len(edges) + 1)
      BY <1>0
    <3>3. kept' \subseteq 1..Len(edges')
      BY <2>1, <2>3, <3>1, <3>2
    <3>4. i' \in 1..(Len(edges') + 1)
      BY <1>0, <2>1, <2>3, <2>4
    <3>5. best' \in [Paths -> 0..Len(edges')]
      BY <2>1, <2>3, <2>4, <3>2
    <3> QED
      BY <3>3, <3>4, <3>5
  <2>6. \A k \in 1..Len(edges') : edges'[k] \in Possible
    BY <1>0, <2>1
  <2> QED
    BY <2>1, <2>2, <2>3, <2>4, <2>5, <2>6
<1>2. ASSUME NEW names \in ArtifactSets, CallPrune(names)
      PROVE  TypeInv'
  BY <1>2 DEF CallPrune, searchVars
<1>3. CASE Consider
  BY <1>0, <1>3, EdgeTypes DEF Consider, searchVars
<1>4. CASE Dedup
  BY <1>4, EdgeTypes DEF Dedup
<1>5. ASSUME NEW n \in Paths, Visit(n)
      PROVE  TypeInv'
  BY <1>5, EdgeTypes DEF Visit, NotVisited
<1>6. CASE NextLevel \/ Prune \/ Sweep
  BY <1>6 DEF NextLevel, Prune, Sweep, AfterMove, searchVars
<1>7. CASE UNCHANGED vars
  BY <1>7 DEF vars, searchVars, Output, Inputs
<1> QED
  BY <1>1, <1>2, <1>3, <1>4, <1>5, <1>6, <1>7 DEF Next

(* Every variable keeps its type.                                          *)
THEOREM GraphTypes == Spec => []TypeOK
<1>1. TypeInv => TypeOK
  BY DEF TypeInv
<1> QED
  BY <1>1, InitTypes, StepTypes, PTL DEF Spec

-----------------------------------------------------------------------------
(* The first loop: best has, of the edges before i, the first with the     *)
(* highest priority.                                                       *)

Prio(k) == Priority[edges[k].command]

BestInv ==
    phase = "dedup" =>
        \A o \in Paths :
            /\ best[o] < i
            /\ best[o] = 0 => \A k \in 1..(i - 1) : Output(k) # o
            /\ best[o] # 0 =>
                 /\ Output(best[o]) = o
                 /\ \A k \in 1..(i - 1) : Output(k) = o =>
                        /\ Prio(k) <= Prio(best[o])
                        /\ k < best[o] => Prio(k) < Prio(best[o])

(* The search: what is visited and not waiting has been expanded, and is   *)
(* needed.                                                                 *)
SearchInv ==
    phase = "search" =>
        /\ kept = Winners /\ roots # {}
        /\ \A k \in Winners : IsRoot(k) => Output(k) \in visited
        /\ \A k \in Winners :
              Output(k) \in visited \ (frontier \cup next) => k \in reachable
        /\ \A k \in reachable : Output(k) \in visited /\ Inputs(k) \subseteq visited
        /\ visited \subseteq Needed

Goal == kept = IF roots = {} THEN Winners
               ELSE {k \in Winners : Output(k) \in Needed}

KeptInv == phase \in {"sweep", "done"} => Goal

LEMMA InitKept == Init => BestInv /\ SearchInv /\ KeptInv
BY DEF Init, BestInv, SearchInv, KeptInv

(* What Winners and Needed are depends on the edges and the roots alone.   *)
LEMMA SameEdgesSameGoal ==
    ASSUME edges' = edges, roots' = roots
    PROVE  /\ Winners' = Winners /\ Needed' = Needed
           /\ \A k : /\ Output(k)' = Output(k) /\ Inputs(k)' = Inputs(k)
                     /\ IsRoot(k)' = IsRoot(k)
BY DEF Winners, IsWinner, Makers, Needed, Closed, Output, Inputs, IsRoot

(* Needed is closed itself. *)
LEMMA NeededIsClosed ==
    ASSUME TypeInv
    PROVE  Closed(Needed)
BY EdgeTypes DEF Closed, Needed, Winners

(* The winners are the edges best points to when the loop has ended.       *)
LEMMA BestAreWinners ==
    ASSUME TypeInv, BestInv, phase = "dedup", i > Len(edges)
    PROVE  {k \in 1..Len(edges) : best[Output(k)] = k} = Winners
<1>1. i = Len(edges) + 1 /\ Len(edges) \in Nat
  BY DEF TypeInv, TypeOK
<1>2. ASSUME NEW k \in 1..Len(edges), best[Output(k)] = k
      PROVE  IsWinner(k)
  BY <1>1, <1>2, EdgeTypes DEF BestInv, IsWinner, Makers, Prio
<1>3. ASSUME NEW k \in 1..Len(edges), IsWinner(k)
      PROVE  best[Output(k)] = k
  <2> DEFINE b == best[Output(k)]
  <2>1. Output(k) \in Paths /\ b \in 0..Len(edges)
    BY EdgeTypes DEF TypeInv, TypeOK
  <2>2. b # 0
    BY <1>1, <2>1 DEF BestInv
  <2>3. Output(b) = Output(k) /\ b \in Makers(Output(k)) /\ k \in Makers(Output(b))
    BY <2>1, <2>2 DEF BestInv, Makers
  <2>4. IsWinner(b)
    BY <1>2, <2>1, <2>2, <2>3
  <2>5. Prio(b) \in Nat /\ Prio(k) \in Nat
    BY <2>1, <2>2, EdgeTypes DEF Prio
  <2> QED
    BY <1>3, <2>1, <2>3, <2>4, <2>5 DEF IsWinner, Prio
<1> QED
  BY <1>2, <1>3 DEF Winners

LEMMA StepBest ==
    ASSUME TypeInv, BestInv, [Next]_vars
    PROVE  BestInv'
<1>0. Len(edges) \in Nat /\ i \in Nat /\ best \in [Paths -> Nat]
  BY DEF TypeInv, TypeOK
<1>1. ASSUME NEW e \in Possible, AddEdge(e)
      PROVE  BestInv'
  BY <1>1 DEF AddEdge, BestInv
<1>2. ASSUME NEW names \in ArtifactSets, CallPrune(names)
      PROVE  BestInv'
  BY <1>2 DEF CallPrune, BestInv, TypeInv
<1>3. CASE Consider
  <2> DEFINE o == Output(i)
  <2>1. i \in 1..Len(edges) /\ i' = i + 1 /\ edges' = edges
    BY <1>0, <1>3 DEF Consider, TypeInv, TypeOK
  <2>2. o \in Paths /\ Prio(i) \in Nat
    BY <2>1, EdgeTypes DEF Prio
  <2>3. \A k : Output(k)' = Output(k) /\ Prio(k)' = Prio(k)
    BY <2>1 DEF Output, Prio
  <2>4. \A p \in Paths \ {o} : best'[p] = best[p]
    BY <1>0, <1>3 DEF Consider
  <2>5. best'[o] = IF best[o] = 0 \/ Prio(i) > Prio(best[o]) THEN i ELSE best[o]
    BY <1>0, <1>3, <2>2 DEF Consider, Beats, Prio
  <2>6. \A k \in 1..Len(edges) : Prio(k) \in Nat
    BY EdgeTypes DEF Prio
  <2>7. phase = "dedup"
    BY <1>3 DEF Consider
  <2>8. best[o] \in 0..Len(edges)
    BY <2>2 DEF TypeInv, TypeOK
  <2>9. \A k \in 1..(i' - 1) : k \in 1..(i - 1) \/ k = i
    BY <2>1, <1>0
  <2>10. ASSUME NEW p \in Paths \ {o}
         PROVE  /\ best'[p] < i'
                /\ best'[p] = 0 => \A k \in 1..(i' - 1) : Output(k) # p
                /\ best'[p] # 0 =>
                     /\ Output(best'[p]) = p
                     /\ \A k \in 1..(i' - 1) : Output(k) = p =>
                            /\ Prio(k) <= Prio(best'[p])
                            /\ k < best'[p] => Prio(k) < Prio(best'[p])
    BY <1>0, <2>1, <2>4, <2>7, <2>9 DEF BestInv
  <2>11. /\ best'[o] < i'
         /\ best'[o] # 0
         /\ Output(best'[o]) = o
         /\ \A k \in 1..(i' - 1) : Output(k) = o =>
                /\ Prio(k) <= Prio(best'[o])
                /\ k < best'[o] => Prio(k) < Prio(best'[o])
    <3>1. CASE best[o] = 0
      BY <1>0, <2>1, <2>2, <2>5, <2>7, <2>9, <3>1 DEF BestInv
    <3>2. CASE best[o] # 0
      <4>1. /\ best[o] < i /\ Output(best[o]) = o /\ Prio(best[o]) \in Nat
            /\ \A k \in 1..(i - 1) : Output(k) = o =>
                   /\ Prio(k) <= Prio(best[o])
                   /\ k < best[o] => Prio(k) < Prio(best[o])
        BY <2>2, <2>6, <2>7, <2>8, <3>2 DEF BestInv
      <4> HIDE DEF o
      <4>2. \A k \in 1..(i - 1) : Prio(k) \in Nat
        BY <1>0, <2>1, <2>6
      <4>3. CASE Prio(i) > Prio(best[o])
        BY <1>0, <2>1, <2>2, <2>5, <2>9, <3>2, <4>1, <4>2, <4>3 DEF o
      <4>4. CASE ~(Prio(i) > Prio(best[o]))
        BY <1>0, <2>1, <2>2, <2>5, <2>8, <2>9, <3>2, <4>1, <4>2, <4>4
      <4> QED
        BY <4>3, <4>4
    <3> QED
      BY <3>1, <3>2
  <2> QED
    BY <2>3, <2>10, <2>11 DEF BestInv
<1>4. CASE Dedup
  BY <1>4 DEF Dedup, BestInv
<1>5. ASSUME NEW n \in Paths, Visit(n)
      PROVE  BestInv'
  BY <1>5 DEF Visit, BestInv
<1>6. CASE NextLevel \/ Prune \/ Sweep
  BY <1>6 DEF NextLevel, Prune, Sweep, BestInv
<1>7. CASE UNCHANGED vars
  BY <1>7 DEF vars, BestInv, Output, Prio
<1> QED
  BY <1>1, <1>2, <1>3, <1>4, <1>5, <1>6, <1>7 DEF Next

-----------------------------------------------------------------------------
(* The search. *)

LEMMA StepSearch ==
    ASSUME TypeInv, BestInv, SearchInv, [Next]_vars
    PROVE  SearchInv'
<1>1. ASSUME NEW e \in Possible, AddEdge(e)
      PROVE  SearchInv'
  BY <1>1 DEF AddEdge, SearchInv
<1>2. ASSUME NEW names \in ArtifactSets, CallPrune(names)
      PROVE  SearchInv'
  BY <1>2 DEF CallPrune, SearchInv
<1>3. CASE Consider
  BY <1>3 DEF Consider, SearchInv
<1>4. CASE Dedup
  <2> SUFFICES ASSUME phase' = "search"
               PROVE  SearchInv'
    BY DEF SearchInv
  <2>1. edges' = edges /\ roots' = roots /\ roots # {}
    BY <1>4 DEF Dedup
  <2>2. kept' = Winners
    BY <1>4, BestAreWinners DEF Dedup
  <2>3. /\ visited' = {Output(k) : k \in {w \in Winners : IsRoot(w)}}
        /\ frontier' = visited' /\ reachable' = {}
    BY <1>4, BestAreWinners DEF Dedup, TypeInv
  <2>4. visited' \subseteq Needed
    <3> SUFFICES ASSUME NEW k \in Winners, IsRoot(k)
                 PROVE  Output(k) \in Needed
      BY <2>3
    <3> QED
      BY NeededIsClosed DEF Closed
  <2> QED
    BY <2>1, <2>2, <2>3, <2>4, SameEdgesSameGoal DEF SearchInv
<1>5. ASSUME NEW n \in Paths, Visit(n)
      PROVE  SearchInv'
  <2> DEFINE new == {k \in kept \ reachable : Output(k) = n}
             found == UNION {Inputs(k) : k \in new}
  <2>1. /\ edges' = edges /\ roots' = roots /\ kept' = kept /\ phase = "search"
        /\ n \in frontier
        /\ reachable' = reachable \cup new
        /\ next' = next \cup (found \ visited)
        /\ visited' = visited \cup found
        /\ frontier' = frontier \ {n}
    BY <1>5 DEF Visit, NotVisited
  <2>2. /\ kept = Winners /\ roots # {} /\ visited \subseteq Needed
        /\ \A k \in Winners : IsRoot(k) => Output(k) \in visited
        /\ \A k \in Winners :
              Output(k) \in visited \ (frontier \cup next) => k \in reachable
        /\ \A k \in reachable : Output(k) \in visited /\ Inputs(k) \subseteq visited
    BY <2>1 DEF SearchInv
  <2>3. n \in visited
    BY <2>1 DEF TypeInv, TypeOK
  <2>4. \A k \in new : Inputs(k) \subseteq Needed
    BY <2>2, <2>3, NeededIsClosed DEF Closed
  <2>5. visited' \subseteq Needed
    BY <2>1, <2>2, <2>4
  <2>6. \A k \in reachable' : Output(k) \in visited' /\ Inputs(k) \subseteq visited'
    BY <2>1, <2>2, <2>3
  <2>7. \A k \in Winners :
           Output(k) \in visited' \ (frontier' \cup next') => k \in reachable'
    <3> SUFFICES ASSUME NEW k \in Winners,
                        Output(k) \in visited' \ (frontier' \cup next')
                 PROVE  k \in reachable'
      OBVIOUS
    <3>1. Output(k) \in visited /\ Output(k) \notin next
      BY <2>1
    <3>2. CASE Output(k) = n
      BY <2>1, <2>2, <3>2
    <3>3. CASE Output(k) # n
      BY <2>1, <2>2, <3>1, <3>3
    <3> QED
      BY <3>2, <3>3
  <2>8. \A k \in Winners : IsRoot(k) => Output(k) \in visited'
    BY <2>1, <2>2
  <2> HIDE DEF new, found
  <2> QED
    BY <2>1, <2>2, <2>5, <2>6, <2>7, <2>8, SameEdgesSameGoal DEF SearchInv
<1>6. CASE NextLevel
  <2>1. /\ edges' = edges /\ roots' = roots /\ kept' = kept /\ visited' = visited
        /\ reachable' = reachable /\ phase = "search"
        /\ frontier' \cup next' = frontier \cup next
    BY <1>6 DEF NextLevel, AfterMove
  <2> QED
    BY <2>1, SameEdgesSameGoal DEF SearchInv
<1>7. CASE Prune \/ Sweep
  BY <1>7 DEF Prune, Sweep, SearchInv
<1>8. CASE UNCHANGED vars
  <2>1. /\ edges' = edges /\ roots' = roots /\ kept' = kept /\ visited' = visited
        /\ reachable' = reachable /\ phase' = phase
        /\ frontier' = frontier /\ next' = next
    BY <1>8 DEF vars, searchVars
  <2> QED
    BY <2>1, SameEdgesSameGoal DEF SearchInv
<1> QED
  BY <1>1, <1>2, <1>3, <1>4, <1>5, <1>6, <1>7, <1>8 DEF Next

LEMMA StepKept ==
    ASSUME TypeInv, BestInv, SearchInv, KeptInv, [Next]_vars
    PROVE  KeptInv'
<1>1. CASE (\E e \in Possible : AddEdge(e)) \/ (\E names \in ArtifactSets : CallPrune(names))
  BY <1>1 DEF AddEdge, CallPrune, KeptInv
<1>2. CASE Consider \/ NextLevel \/ (\E n \in Paths : Visit(n))
  BY <1>2 DEF Consider, NextLevel, Visit, KeptInv
<1>3. CASE Dedup
  <2>1. edges' = edges /\ roots' = roots /\ kept' = Winners
    BY <1>3, BestAreWinners DEF Dedup
  <2>2. phase' \in {"sweep", "done"} => roots = {}
    BY <1>3 DEF Dedup
  <2> QED
    BY <2>1, <2>2, SameEdgesSameGoal DEF KeptInv, Goal
<1>4. CASE Prune
  <2>1. /\ edges' = edges /\ roots' = roots /\ kept' = reachable
        /\ frontier = {} /\ next = {} /\ phase = "search"
    BY <1>4 DEF Prune
  <2>2. /\ kept = Winners /\ roots # {} /\ visited \subseteq Needed
        /\ \A k \in Winners : IsRoot(k) => Output(k) \in visited
        /\ \A k \in Winners : Output(k) \in visited => k \in reachable
        /\ \A k \in reachable : Output(k) \in visited /\ Inputs(k) \subseteq visited
    BY <2>1 DEF SearchInv
  <2>3. Closed(visited) /\ visited \in SUBSET Paths
    BY <2>2 DEF Closed, TypeInv, TypeOK
  <2>4. Needed \subseteq visited
    BY <2>3 DEF Needed
  <2>5. reachable = {k \in Winners : Output(k) \in Needed}
    BY <2>2, <2>4 DEF TypeInv, TypeOK
  <2>6. Goal'
    BY <2>1, <2>2, <2>5, SameEdgesSameGoal DEF Goal
  <2> QED
    BY <2>6 DEF KeptInv
<1>5. CASE Sweep \/ UNCHANGED vars
  <2>1. /\ edges' = edges /\ roots' = roots /\ kept' = kept
        /\ phase' \in {"sweep", "done"} => phase \in {"sweep", "done"}
    BY <1>5 DEF Sweep, vars
  <2> QED
    BY <2>1, SameEdgesSameGoal DEF KeptInv, Goal
<1> QED
  BY <1>1, <1>2, <1>3, <1>4, <1>5 DEF Next

(* pruneGraph keeps exactly the winning edge of each output the artifacts  *)
(* depend on, whatever the commands and however the search orders them     *)
(* (build_graph.cpp:59 and 79).                                            *)
THEOREM PruneIsExact == Spec => []KeepsWhatIsNeeded
<1> DEFINE Inv == TypeInv /\ BestInv /\ SearchInv /\ KeptInv
<1>1. Init => Inv
  BY InitTypes, InitKept
<1>2. Inv /\ [Next]_vars => Inv'
  BY StepTypes, StepBest, StepSearch, StepKept
<1>3. Inv => KeepsWhatIsNeeded
  BY DEF KeptInv, Goal, KeepsWhatIsNeeded
<1> QED
  BY <1>1, <1>2, <1>3, PTL DEF Spec

-----------------------------------------------------------------------------
(* Nodes. *)

NodesInv ==
    /\ \A k \in 1..Len(edges) : Inputs(k) \cup {Output(k)} \subseteq nodes
          \/ phase = "done"
    /\ phase = "done" => nodes = Referenced(kept)

LEMMA ReferencedMeans ==
    ASSUME NEW ks, NEW p
    PROVE  p \in Referenced(ks) <=> \E k \in ks : p \in Inputs(k) \cup {Output(k)}
<1> DEFINE ins == {Inputs(k) : k \in ks}
<1>1. p \in UNION ins <=> \E k \in ks : p \in Inputs(k)
  <2>1. ASSUME NEW k \in ks, p \in Inputs(k)
        PROVE  p \in UNION ins
    BY <2>1, Inputs(k) \in ins
  <2>2. ASSUME p \in UNION ins
        PROVE  \E k \in ks : p \in Inputs(k)
    <3>1. PICK S \in ins : p \in S
      BY <2>2
    <3> QED
      BY <3>1
  <2> QED
    BY <2>1, <2>2
<1>2. p \in {Output(k) : k \in ks} <=> \E k \in ks : p = Output(k)
  OBVIOUS
<1>3. Referenced(ks) = (UNION ins) \cup {Output(k) : k \in ks}
  BY Zenon DEF Referenced
<1> HIDE DEF ins
<1> QED
  BY <1>1, <1>2, <1>3

LEMMA StepNodes ==
    ASSUME TypeInv, NodesInv, [Next]_vars
    PROVE  NodesInv'
<1> USE DEF NodesInv
<1>1. ASSUME NEW e \in Possible, AddEdge(e)
      PROVE  NodesInv'
  <2>1. /\ Len(edges) \in Nat /\ Len(edges') = Len(edges) + 1
        /\ \A k \in 1..Len(edges) : edges'[k] = edges[k]
        /\ edges'[Len(edges) + 1] = e
    BY <1>1 DEF AddEdge, TypeInv, TypeOK
  <2>2. nodes' = nodes \cup e.inputs \cup {e.output} /\ phase = "parse" /\ phase' = phase
    BY <1>1 DEF AddEdge
  <2>3. ASSUME NEW k \in 1..Len(edges')
        PROVE  Inputs(k)' \cup {Output(k)'} \subseteq nodes'
    <3>1. CASE k \in 1..Len(edges)
      BY <2>1, <2>2, <3>1 DEF Inputs, Output
    <3>2. CASE k = Len(edges) + 1
      BY <2>1, <2>2, <3>2 DEF Inputs, Output
    <3> QED
      BY <2>1, <3>1, <3>2
  <2> QED
    BY <2>2, <2>3
<1>2. CASE Sweep
  <2>1. /\ nodes' = nodes \cap Referenced(kept) /\ phase' = "done" /\ phase = "sweep"
        /\ edges' = edges /\ kept' = kept
    BY <1>2 DEF Sweep
  <2>2. \A k \in kept : Inputs(k) \cup {Output(k)} \subseteq nodes
    BY <2>1 DEF TypeInv, TypeOK
  <2>3. Referenced(kept) \subseteq nodes
    BY <2>2, ReferencedMeans
  <2>4. \A k : Inputs(k)' = Inputs(k) /\ Output(k)' = Output(k)
    BY <2>1 DEF Inputs, Output
  <2>5. Referenced(kept)' = Referenced(kept)
    BY <2>1, <2>4 DEF Referenced
  <2>6. nodes' = Referenced(kept)'
    BY <2>1, <2>3, <2>5
  <2> QED
    BY <2>1, <2>6
<1>3. CASE \/ \E names \in ArtifactSets : CallPrune(names)
           \/ Consider \/ Dedup \/ (\E n \in Paths : Visit(n)) \/ NextLevel \/ Prune
  <2>1. nodes' = nodes /\ edges' = edges /\ phase # "done" /\ phase' # "done"
    BY <1>3 DEF CallPrune, Consider, Dedup, Visit, NextLevel, Prune
  <2> QED
    BY <2>1 DEF Inputs, Output
<1>4. CASE UNCHANGED vars
  <2>1. nodes' = nodes /\ edges' = edges /\ phase' = phase /\ kept' = kept
    BY <1>4 DEF vars
  <2> QED
    BY <2>1 DEF Inputs, Output, Referenced
<1> QED
  BY <1>1, <1>2, <1>3, <1>4 DEF Next

(* The saved graph has no edge to a path without a node and no node        *)
(* without an edge (build_graph.cpp:120, tracker.cpp:1113).                *)
THEOREM GraphIsWhole == Spec => []NodesMatchEdges
<1>1. Init => NodesInv
  BY DEF Init, NodesInv
<1>2. TypeInv /\ NodesInv /\ [Next]_vars => NodesInv'
  BY StepNodes
<1>3. TypeInv /\ NodesInv => NodesMatchEdges
  BY ReferencedMeans DEF NodesInv, NodesMatchEdges
<1> QED
  BY <1>1, <1>2, <1>3, InitTypes, StepTypes, PTL DEF Spec
=============================================================================
