--------------------------- MODULE CommandParsing ---------------------------
(***************************************************************************)
(* Tracker::parseBuildGraph: from the trace to the edges and nodes of the  *)
(* build graph.  The trace has a block of lines per process, in the order  *)
(* of an unordered_map; of each command of a build tool the loop over its  *)
(* arguments finds what it reads and what it makes.  Module BuildGraph     *)
(* goes on from there.                                                     *)
(*                                                                         *)
(* Arguments are words without white space, and a command has at most 63,  *)
(* so that the script prints all of them (see TraceFraming).               *)
(***************************************************************************)
EXTENDS Integers, Sequences, SequencesExt, FiniteSets

CONSTANTS
    Pids,       \* processes
    Words,      \* arguments
    Kind,       \* of each word, see Kinds
    Programs,   \* [stem, ends, installed], see NormalizeTool
    Traces,     \* what each process with a line in the trace executes:
                \* sequences of [program, args]
    MaxExecs    \* bound on what one process executes

(* "-o", a flag of kSkipArgFlags, any other word with a dash; a word by its *)
(* extension; "bare" has none.                                             *)
Kinds == {"-o", "skip", "flag",
          "source", "object", "archive", "shared", "other", "bare"}

NoOutput == ""

ASSUME ParsingAssumption ==
    /\ Kind \in [Words -> Kinds] /\ NoOutput \notin Words
    /\ Pids \subseteq Nat /\ IsFiniteSet(Pids) /\ MaxExecs \in Nat
    /\ \A t \in Traces : DOMAIN t \subseteq Pids
    /\ \A t \in Traces : \A p \in DOMAIN t :
          /\ t[p] \in Seq(ToSet(t[p])) /\ Len(t[p]) \in 1..MaxExecs
          /\ \A c \in ToSet(t[p]) : c.program \in Programs /\ c.args \in Seq(Words)

VARIABLES
    trace,          \* what the processes executed
    text,           \* the lines of the trace
    at,             \* the line being read
    current_pid,
    edge,           \* the command being read, or NoEdge
    arg,            \* index of the loops over its arguments
    next_is_output, next_is_skip,
    types,          \* nodes: path -> type, for the paths in seen_node_paths
    edges

vars == <<trace, text, at, current_pid, edge, arg, next_is_output,
          next_is_skip, types, edges>>

-----------------------------------------------------------------------------
(* Words and tools. *)

HasDash(w) == Kind[w] \in {"-o", "skip", "flag"}
IsInput(w) == Kind[w] \in {"source", "object", "archive"}
IsShared(w) == Kind[w] = "shared"

BuildTools == <<"clang++", "clang", "ld.gold", "ld.lld", "ld.bfd", "libtool",
                "ranlib", "objcopy", "strip", "gcc", "g++", "c++", "cc", "ar", "ld">>

(* stem is the file name without a version, ends the tools' names it ends  *)
(* with.                                                                   *)
NormalizeTool(p) ==
    LET k == SelectInSeq(BuildTools, LAMBDA t : t \in p.ends)
    IN  IF p.stem \in ToSet(BuildTools) \/ k = 0 THEN p.stem ELSE BuildTools[k]

IsBuildTool(p) == NormalizeTool(p) \in ToSet(BuildTools) /\ p.installed

ClassifyAsInput(w, is_output) ==
    CASE Kind[w] = "source" -> "SOURCE"
      [] Kind[w] \in {"object", "archive"} -> "INTERMEDIATE"
      [] Kind[w] = "shared" -> "INTERMEDIATE"
      [] OTHER -> "UNKNOWN"
Classify(w, is_output) ==
    CASE Kind[w] = "source" -> "SOURCE"
      [] Kind[w] \in {"object", "archive"} -> "INTERMEDIATE"
      [] OTHER -> IF is_output THEN "ARTIFACT"
                  ELSE IF IsShared(w) THEN "INTERMEDIATE" ELSE "UNKNOWN"

-----------------------------------------------------------------------------
(* The text: processBpftraceOutput writes a header and the process's lines. *)

Header(p) == [is |-> "ID", pid |-> p]
ExecLine(c) == [is |-> "execve", program |-> c.program, args |-> c.args]
Block(p) == <<Header(p)>> \o [k \in 1..Len(trace[p]) |-> ExecLine(trace[p][k])]

NoEdge == [command |-> "", pid |-> 0, args |-> <<>>, inputs |-> <<>>, output |-> NoOutput]

Init ==
    /\ trace \in Traces
    /\ \E order \in SetToSeqs(DOMAIN trace) :
          text = FlattenSeq([k \in DOMAIN order |-> Block(order[k])])
    /\ at = 1 /\ current_pid = -1
    /\ edge = NoEdge /\ arg = 1
    /\ next_is_output = FALSE /\ next_is_skip = FALSE
    /\ types = [p \in {} |-> ""] /\ edges = <<>>

Line == text[at]
Finished == at > Len(text)
NextLine == at' = at + 1
Reading(is) == edge = NoEdge /\ ~Finished /\ Line.is = is

ReadHeader ==
    /\ Reading("ID")
    /\ current_pid' = Line.pid
    /\ NextLine
    /\ UNCHANGED <<trace, text, edge, arg, next_is_output, next_is_skip, types, edges>>

(* Not a build tool, or its program is not there any more. *)
SkipExec ==
    /\ Reading("execve") /\ ~IsBuildTool(Line.program)
    /\ NextLine
    /\ UNCHANGED <<trace, text, current_pid, edge, arg, next_is_output,
                   next_is_skip, types, edges>>

BeginExec ==
    /\ Reading("execve") /\ IsBuildTool(Line.program)
    /\ edge' = [NoEdge EXCEPT !.command = NormalizeTool(Line.program),
                              !.pid = current_pid, !.args = Line.args]
    /\ arg' = 1 /\ next_is_output' = FALSE /\ next_is_skip' = FALSE
    /\ UNCHANGED <<trace, text, at, current_pid, types, edges>>

-----------------------------------------------------------------------------
(* The loops over the arguments. *)

Arg == edge.args[arg]
InArgs == edge # NoEdge /\ arg <= Len(edge.args)
Output(w) == edge' = [edge EXCEPT !.output = w]
Input(w) == edge' = [edge EXCEPT !.inputs = Append(@, w)]
Pass == edge' = edge
Stays(flags) == UNCHANGED flags
Flags == <<next_is_output, next_is_skip>>

(* The first word with an extension is the archive, the rest its members.  *)
ArArg ==
    /\ InArgs /\ edge.command = "ar"
    /\ LET found_output == edge.output # NoOutput IN
       \/ ~HasDash(Arg) /\ ~found_output /\ Kind[Arg] # "bare" /\ Output(Arg)
       \/ ~HasDash(Arg) /\ found_output /\ IsInput(Arg) /\ Input(Arg)
       \/ /\ HasDash(Arg) \/ (IF found_output THEN ~IsInput(Arg) ELSE Kind[Arg] = "bare")
          /\ Pass
    /\ arg' = arg + 1
    /\ UNCHANGED <<trace, text, at, current_pid, next_is_output, next_is_skip,
                   types, edges>>

RanlibArg ==
    /\ InArgs /\ edge.command = "ranlib"
    /\ \/ HasDash(Arg) /\ Pass /\ arg' = arg + 1
       \/ ~HasDash(Arg) /\ Input(Arg) /\ arg' = Len(edge.args) + 1
    /\ UNCHANGED <<trace, text, at, current_pid, next_is_output, next_is_skip,
                   types, edges>>

NothingToSkip(w) == FALSE
(* kSkipArgFlags: the next argument is no file. *)
TakesValue(w) == Kind[w] = "skip"

CompilerArg ==
    /\ InArgs /\ edge.command \notin {"ar", "ranlib"}
    /\ \/ /\ next_is_output
          /\ Output(Arg) /\ next_is_output' = FALSE /\ Stays(next_is_skip)
       \/ /\ ~next_is_output /\ next_is_skip
          /\ Pass /\ next_is_skip' = FALSE /\ Stays(next_is_output)
       \/ /\ ~next_is_output /\ ~next_is_skip
          /\ \/ /\ Kind[Arg] = "-o"
                /\ Pass /\ next_is_output' = TRUE /\ Stays(next_is_skip)
             \/ /\ TakesValue(Arg)
                /\ Pass /\ next_is_skip' = TRUE /\ Stays(next_is_output)
             \/ /\ IsInput(Arg) \/ IsShared(Arg)
                /\ Input(Arg) /\ Stays(Flags)
             \/ /\ Kind[Arg] # "-o" /\ ~TakesValue(Arg)
                /\ ~IsInput(Arg) /\ ~IsShared(Arg)
                /\ Pass /\ Stays(Flags)
    /\ arg' = arg + 1
    /\ UNCHANGED <<trace, text, at, current_pid, types, edges>>

-----------------------------------------------------------------------------
(* The end of a command. *)

(* An edge needs an output and inputs. *)
Complete(e) == e.output # NoOutput /\ e.inputs # <<>>

InputsOnly(e) == ToSet(e.inputs)
(* The paths that get a node. *)
NodesOf(e) == ToSet(e.inputs) \cup {e.output}

(* ensure_node, for the inputs and then for the output: the first mention  *)
(* of a path decides its type.                                             *)
Ensured(e) ==
    [p \in DOMAIN types \cup NodesOf(e) |->
        IF p \in DOMAIN types THEN types[p]
        ELSE Classify(p, p \notin ToSet(e.inputs))]

EndExec ==
    /\ edge # NoEdge /\ ~InArgs
    /\ IF Complete(edge)
       THEN edges' = Append(edges, edge) /\ types' = Ensured(edge)
       ELSE UNCHANGED <<types, edges>>
    /\ edge' = NoEdge
    /\ NextLine
    /\ UNCHANGED <<trace, text, current_pid, arg, next_is_output, next_is_skip>>

Next ==
    \/ ReadHeader \/ SkipExec \/ BeginExec
    \/ ArArg \/ RanlibArg \/ CompilerArg \/ EndExec
    \/ Finished /\ UNCHANGED vars

Spec == Init /\ [][Next]_vars

-----------------------------------------------------------------------------
(* What a command does, by the conventions of its tool. *)

(* Which arguments are the values of the flags before them. *)
IsValue(args) ==
    LET value[j \in 1..Len(args)] ==
            j > 1 /\ Kind[args[j - 1]] \in {"-o", "skip"} /\ ~value[j - 1]
    IN  value

Made(tool, args) ==
    IF tool = "ar" THEN args[2]
    ELSE LET named == {j \in 2..Len(args) : IsValue(args)[j] /\ Kind[args[j - 1]] = "-o"}
         IN  IF named = {} \/ tool = "ranlib" THEN NoOutput
             ELSE args[CHOOSE j \in named : \A k \in named : k <= j]

Read(tool, args) ==
    IF tool = "ar" THEN {args[j] : j \in {k \in 3..Len(args) : IsInput(args[k])}}
    ELSE {args[j] : j \in {k \in 1..Len(args) :
                             /\ ~IsValue(args)[k]
                             /\ Kind[args[k]] \in {"source", "object", "archive", "shared"}}}

EdgeOf(c) ==
    LET tool == NormalizeTool(c.program)
    IN  [command |-> tool, inputs |-> Read(tool, c.args), output |-> Made(tool, c.args)]

BelongsInGraph(c) ==
    IsBuildTool(c.program) /\ EdgeOf(c).inputs # {} /\ EdgeOf(c).output # NoOutput

(* The elements of s at the places ks, in order. *)
Select(s, ks) ==
    LET upto[k \in 0..Len(s)] ==
            IF k = 0 THEN <<>>
            ELSE IF k \in ks THEN Append(upto[k - 1], s[k]) ELSE upto[k - 1]
    IN  upto[Len(s)]

Those(s) == {k \in 1..Len(s) : BelongsInGraph(s[k])}

(* What a process did, in order, as far as it belongs in the graph.        *)
Did(p) ==
    LET those == Select(trace[p], Those(trace[p]))
    IN  [k \in DOMAIN those |-> EdgeOf(those[k])]

CommandEdges ==
    LET executed == UNION {UNION {ToSet(t[p]) : p \in DOMAIN t} : t \in Traces}
    IN  {EdgeOf(c) : c \in {d \in executed : BelongsInGraph(d)}}

AsSet(e) == [command |-> e.command, inputs |-> ToSet(e.inputs), output |-> e.output]
AsSets(es) == [k \in DOMAIN es |-> AsSet(es[k])]
EdgesBy(p) == Select(edges, {k \in 1..Len(edges) : edges[k].pid = p})

(* The convention of ar: operation, archive, members. *)
ArIsConventional ==
    \A t \in Traces : \A p \in DOMAIN t : \A c \in ToSet(t[p]) :
        NormalizeTool(c.program) = "ar" =>
            /\ Len(c.args) >= 2
            /\ HasDash(c.args[1]) \/ Kind[c.args[1]] = "bare"
            /\ ~HasDash(c.args[2]) /\ Kind[c.args[2]] # "bare"

-----------------------------------------------------------------------------
(* Each process's edges are the commands it executed, in order, with what  *)
(* they read and made: no value of a flag is taken for a file, no command  *)
(* for another process's, in whatever order the blocks come.               *)
EdgesAreTheCommands ==
    Finished => \A p \in DOMAIN trace :
        AsSets(EdgesBy(p)) = Did(p)

ReadByAny == UNION {ToSet(e.inputs) : e \in ToSet(edges)}
MadeByAny == {e.output : e \in ToSet(edges)}

(* What is only read is never an artifact, and what is only made always is *)
(* one, unless it is code, in whatever order the blocks come.  A file that *)
(* is both read and made has the type of its first mention.                *)
TypesFollowUse ==
    \A p \in DOMAIN types :
        /\ p \notin MadeByAny => types[p] # "ARTIFACT"
        /\ p \notin ReadByAny => (types[p] = "ARTIFACT" <=> ~IsInput(p))

Graph == INSTANCE BuildGraph WITH
    Paths <- Words, Base <- [w \in Words |-> w],
    Commands <- ToSet(BuildTools), Priority <- [c \in ToSet(BuildTools) |-> 0],
    Possible <- CommandEdges,
    ArtifactSets <- {}, MaxEdges <- MaxExecs * Cardinality(Pids),
    phase <- "parse", nodes <- DOMAIN types, edges <- AsSets(edges),
    kept <- 1..Len(edges), roots <- {}, i <- 1, best <- [w \in Words |-> 0],
    visited <- {}, frontier <- {}, next <- {}, reachable <- {}

(* Parsing does what BuildGraph starts from: one edge at a time, that of a *)
(* command some process executed, together with the nodes of its paths.    *)
ImplementsGraph == Graph!Spec
=============================================================================
