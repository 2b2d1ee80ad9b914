----------------------------- MODULE BuildGraph -----------------------------
(***************************************************************************)
(* BuildGraph (src/build_graph.cpp): the edges parseBuildGraph finds in    *)
(* the trace, one per command, and pruneGraph, which keeps the best edge   *)
(* of each output, then what the artifacts of the build were made from.    *)
(*                                                                         *)
(* An edge is known by its place in edges_ as parsed; `kept' holds the     *)
(* places of the edges still in the vector.  Hashes, types of nodes and    *)
(* arguments of commands play no part in the pruning and are left out.     *)
(***************************************************************************)
EXTENDS Naturals, Sequences

CONSTANTS
    Paths,          \* paths that occur in commands
    Base,           \* the base name of each
    Commands,       \* build tools
    Priority,       \* kToolPriority, 0 for a tool that is not in it
    Possible,       \* the edges commands may give: [command, inputs, output]
    ArtifactSets,   \* the base names of the artifacts recorded, one set per run
    MaxEdges        \* bound on the number of commands

ASSUME GraphAssumption ==
    /\ Priority \in [Commands -> Nat]
    /\ \A e \in Possible : /\ e.command \in Commands
                           /\ e.inputs \subseteq Paths /\ e.inputs # {}
                           /\ e.output \in Paths
    /\ MaxEdges \in Nat

VARIABLES
    phase,      \* "parse", then of pruneGraph: "dedup", "search", "sweep", "done"
    nodes,      \* keys of nodes_
    edges,      \* edges_ as parsed
    kept,       \* which of them are in edges_ now
    roots,      \* argument of pruneGraph
    i,          \* index of the loop over edges_
    best,       \* per output the index of the best edge so far, 0 if none
    visited, frontier, next, reachable      \* of the search

vars == <<phase, nodes, edges, kept, roots, i, best,
          visited, frontier, next, reachable>>
searchVars == <<visited, frontier, next, reachable>>

Init ==
    /\ phase = "parse"
    /\ nodes = {} /\ edges = <<>> /\ kept = {}
    /\ roots = {} /\ i = 1 /\ best = [p \in Paths |-> 0]
    /\ visited = {} /\ frontier = {} /\ next = {} /\ reachable = {}

Output(k) == edges[k].output
Inputs(k) == edges[k].inputs

-----------------------------------------------------------------------------
NewIndex == Len(edges) + 1

(* parseBuildGraph found a command with inputs and an output. *)
AddEdge(e) ==
    /\ phase = "parse" /\ Len(edges) < MaxEdges
    /\ nodes' = nodes \cup e.inputs \cup {e.output}
    /\ edges' = Append(edges, e)
    /\ kept' = kept \cup {NewIndex}
    /\ UNCHANGED <<phase, roots, i, best, searchVars>>

CallPrune(names) ==
    /\ phase = "parse"
    /\ roots' = names
    /\ phase' = "dedup"
    /\ UNCHANGED <<nodes, edges, kept, i, best, searchVars>>

-----------------------------------------------------------------------------
(* pruneGraph: per output, keep only the highest-priority edge. *)

LaterWins(e, f) == Priority[e.command] >= Priority[f.command]
Beats(e, f) == Priority[e.command] > Priority[f.command]

Consider ==
    /\ phase = "dedup" /\ i <= Len(edges)
    /\ LET o == Output(i) IN
       best' = IF best[o] = 0 \/ Beats(edges[i], edges[best[o]])
               THEN [best EXCEPT ![o] = i] ELSE best
    /\ i' = i + 1
    /\ UNCHANGED <<phase, nodes, edges, kept, roots, searchVars>>

(* Roots are base names, outputs are paths as the command spelt them. *)
IsRoot(k) == Base[Output(k)] \in roots

(* edges_ = deduped; the search starts from the roots, if there are any. *)
Dedup ==
    LET winners == {k \in 1..Len(edges) : best[Output(k)] = k}
        seeds   == {Output(k) : k \in {w \in winners : IsRoot(w)}} IN
    /\ phase = "dedup" /\ i > Len(edges)
    /\ kept' = winners
    /\ phase' = IF roots = {} THEN "sweep" ELSE "search"
    /\ visited' = seeds /\ frontier' = seeds
    /\ UNCHANGED <<nodes, edges, roots, i, best, next, reachable>>

-----------------------------------------------------------------------------
(* pruneGraph: search backwards from the roots. *)

NotVisited(found) == found \ visited

(* One node of the frontier, which holds them in no particular order. *)
Visit(n) ==
    LET new == {k \in kept \ reachable : Output(k) = n}
        found == UNION {Inputs(k) : k \in new} IN
    /\ phase = "search" /\ n \in frontier
    /\ reachable' = reachable \cup new
    /\ next' = next \cup NotVisited(found)
    /\ visited' = visited \cup found
    /\ frontier' = frontier \ {n}
    /\ UNCHANGED <<phase, nodes, edges, kept, roots, i, best>>

CopiedOnly == next
(* std::move(next), and a new vector in the next round. *)
AfterMove == {}

NextLevel ==
    /\ phase = "search" /\ frontier = {} /\ next # {}
    /\ frontier' = next /\ next' = AfterMove
    /\ UNCHANGED <<phase, nodes, edges, kept, roots, i, best, visited, reachable>>

(* edges_ = pruned *)
Prune ==
    /\ phase = "search" /\ frontier = {} /\ next = {}
    /\ kept' = reachable
    /\ phase' = "sweep"
    /\ UNCHANGED <<nodes, edges, roots, i, best, searchVars>>

OutputsOf(ks) == {Output(k) : k \in ks}
Referenced(ks) == (UNION {Inputs(k) : k \in ks}) \cup {Output(k) : k \in ks}

(* Remove unreferenced nodes. *)
Sweep ==
    /\ phase = "sweep"
    /\ nodes' = nodes \cap Referenced(kept)
    /\ phase' = "done"
    /\ UNCHANGED <<edges, kept, roots, i, best, searchVars>>

Next ==
    \/ \E e \in Possible : AddEdge(e)
    \/ \E names \in ArtifactSets : CallPrune(names)
    \/ Consider \/ Dedup \/ (\E n \in Paths : Visit(n)) \/ NextLevel \/ Prune \/ Sweep
    \/ phase = "done" /\ UNCHANGED vars

Spec == Init /\ [][Next]_vars

(* pruneGraph is sequential code that is called and runs on. *)
FairSpec == Spec /\ WF_vars(Next)

-----------------------------------------------------------------------------
(* What pruneGraph promises. *)

(* The edges parsed with output o, and the first of those whose command    *)
(* has the highest priority.                                               *)
Makers(o) == {k \in 1..Len(edges) : Output(k) = o}
IsWinner(k) ==
    \A j \in Makers(Output(k)) :
        /\ Priority[edges[j].command] <= Priority[edges[k].command]
        /\ j < k => Priority[edges[j].command] < Priority[edges[k].command]
Winners == {k \in 1..Len(edges) : IsWinner(k)}

(* The smallest set of paths that has the outputs named by the roots and,  *)
(* with the output of a winner, its inputs.                                *)
Closed(S) ==
    \A k \in Winners :
        /\ IsRoot(k) => Output(k) \in S
        /\ Output(k) \in S => Inputs(k) \subseteq S
Needed == {p \in Paths : \A S \in SUBSET Paths : Closed(S) => p \in S}

(* Every variable stays in its type. *)
TypeOK ==
    /\ phase \in {"parse", "dedup", "search", "sweep", "done"}
    /\ nodes \subseteq Paths
    /\ edges \in Seq(Possible)
    /\ kept \subseteq 1..Len(edges)
    /\ i \in 1..(Len(edges) + 1)
    /\ best \in [Paths -> 0..Len(edges)]
    /\ visited \subseteq Paths /\ frontier \subseteq visited /\ next \subseteq visited
    /\ reachable \subseteq kept

(* The pruned graph has exactly the winning edges the artifacts depend on, *)
(* or all winning edges if no artifact is known: nothing needed is lost,   *)
(* nothing else is kept, cycles and shared inputs included.                *)
KeepsWhatIsNeeded ==
    phase = "done" =>
        kept = IF roots = {} THEN Winners
               ELSE {k \in Winners : Output(k) \in Needed}

(* At the end each path of an edge has its node, and each node an edge.    *)
NodesMatchEdges ==
    phase = "done" =>
        \A p \in Paths : p \in nodes <=> \E k \in kept : p \in Inputs(k) \cup {Output(k)}

(* pruneGraph returns, also when commands read what they write. *)
Terminates == (phase = "dedup") ~> (phase = "done")
=============================================================================
