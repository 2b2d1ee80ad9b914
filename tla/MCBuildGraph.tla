---------------------------- MODULE MCBuildGraph ----------------------------
(* A small project for BuildGraph: an object file with two spellings, a    *)
(* library, a program, and commands that overlap or run in circles.        *)
EXTENDS BuildGraph

MCPaths == {"x.c", "x.o", "d/x.o", "lib.a", "foo"}
MCBase == [p \in MCPaths |-> IF p = "d/x.o" THEN "x.o" ELSE p]
MCCommands == {"c++", "ar", "ld"}
MCPriority == [c \in MCCommands |-> CASE c = "c++" -> 30 [] c = "ar" -> 20 [] c = "ld" -> 10]

Edge(c, ins, o) == [command |-> c, inputs |-> ins, output |-> o]
MCPossible == {
    Edge("c++", {"x.c"}, "x.o"), Edge("c++", {"x.c"}, "d/x.o"),
    Edge("ar", {"x.o"}, "lib.a"), Edge("ar", {"d/x.o"}, "lib.a"),
    Edge("ld", {"lib.a", "x.o"}, "foo"), Edge("c++", {"lib.a"}, "foo"),
    Edge("ld", {"x.o", "lib.a"}, "x.o")}
MCArtifactSets == {{}, {"foo"}, {"x.o"}, {"foo", "elsewhere"}}
=============================================================================
