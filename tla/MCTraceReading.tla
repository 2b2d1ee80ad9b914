--------------------------- MODULE MCTraceReading ---------------------------
(* Traces of a build in /proj, partly seen from a container in which       *)
(* /proj is /w and /usr is /w/sys.                                         *)
EXTENDS TraceReading

A(names) == [abs |-> TRUE, names |-> names]
R(names) == [abs |-> FALSE, names |-> names]

SharedNames == {"z.so", "t.so", "ld-linux.so.2"}
MCKind == [n \in SharedNames \cup {"lib.a", "lib.la", "a.h", "x.o", "proj", "proj2", "w", "sys",
                    "usr", "cc", "sh", "bin", "app", "tool", "opt", "CMakeFiles", "tmp",
                    "", ".", ".."} |->
    CASE n \in SharedNames -> "shared" [] n = "lib.a" -> "static" [] n = "lib.la" -> "la"
      [] n = "a.h" -> "header" [] n = "x.o" -> "object" [] OTHER -> "plain"]

MCMappings == {[observed |-> A(<<"w">>), local |-> A(<<"proj">>)],
               [observed |-> A(<<"w", "sys">>), local |-> A(<<"usr">>)],
               [observed |-> A(<<"opt", "">>), local |-> A(<<"proj">>)]}
MCBuildPath == <<"proj">>
MCLoaderFiles == {A(<<"usr", "ld-linux.so.2">>)}
MCIgnoredExecs == {A(<<"bin", "sh">>)}

Data(content) == [regular |-> TRUE, exec |-> FALSE, content |-> content]
Program(content) == [Data(content) EXCEPT !.exec = TRUE]
Dir == [regular |-> FALSE, exec |-> TRUE, content |-> ""]

InProj == [n \in {"app", "tool", "x.o", "a.h", "lib.a", "lib.la"} |->
              IF n \in {"app", "tool"} THEN Program(n) ELSE Data(n)]
InUsr == [n \in {"z.so", "a.h", "cc", "ld-linux.so.2"} |->
             IF n = "cc" THEN Program("cc1") ELSE Data(n)]
MCFiles ==
    [p \in {A(<<"proj", n>>) : n \in DOMAIN InProj} |-> InProj[p.names[2]]]
    @@ [p \in {A(<<"usr", n>>) : n \in DOMAIN InUsr} |-> InUsr[p.names[2]]]
    @@ A(<<"proj">>) :> Dir @@ A(<<"bin", "sh">>) :> Program("sh")
    @@ A(<<"proj", "CMakeFiles", "app">>) :> Program("try")
    @@ A(<<"tmp", "t.so">>) :> Data("t") @@ A(<<"opt", "cc">>) :> Program("cc2")
MCVolatile == {A(<<"proj", "lib.a">>), A(<<"usr", "a.h">>)}

Open(path, flags) == [is |-> "openat", path |-> path, flags |-> flags, cwd |-> MCBuildPath]
Exec(path) == [is |-> "execve", path |-> path, flags |-> "other", cwd |-> MCBuildPath]
Creat(path, cwd) == [is |-> "creat", path |-> path, flags |-> "other", cwd |-> cwd]

Reads == {Open(p, "other") : p \in {A(<<"usr", "z.so">>), A(<<"w", "sys", "z.so">>),
             A(<<"proj", "..", "usr", ".", "a.h">>), A(<<"w", "a.h">>), A(<<"proj", "lib.a">>),
             A(<<"tmp", "t.so">>), A(<<"usr", "ld-linux.so.2">>), A(<<"usr", "t.so">>)}}
Runs == {Exec(p) : p \in {A(<<"usr", "cc">>), A(<<"bin", "sh">>), A(<<"w", "app">>),
             A(<<"opt", "cc">>), R(<<"tool">>)}}
Writes == {Open(p, "O_CREAT") : p \in {A(<<"proj", "app">>), A(<<"w", "app">>),
             A(<<"proj", "x.o">>), A(<<"w", "lib.a">>), A(<<"proj", "lib.la">>),
             A(<<"usr", "z.so">>), A(<<"w", "CMakeFiles", "app">>), A(<<"proj", "a.h">>)}}
          \cup {Creat(R(<<"tool">>), MCBuildPath)}
Cuts == {Open(p, "cut") : p \in {NoPath, A(<<"proj">>), A(<<"usr", "cc">>), A(<<"w">>)}}

Lines == Reads \cup Runs \cup Writes \cup Cuts
InSomeOrder(lines) == FoldSet(LAMBDA l, seq : Append(seq, l), <<>>, lines)
MCTraces == SeqOf(Lines, 2) \cup {InSomeOrder(Writes), InSomeOrder(Reads \cup Runs)}

(* A library in a directory whose name begins like that of the build's. *)
SiblingTraces == {<<Open(A(<<"proj2", "z.so">>), "other")>>}
SiblingFiles == MCFiles @@ A(<<"proj2", "z.so">>) :> Data("z")
=============================================================================
