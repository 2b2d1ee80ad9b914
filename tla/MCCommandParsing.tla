-------------------------- MODULE MCCommandParsing --------------------------
(* Commands for CommandParsing: every compiler command line of up to five  *)
(* words, and a small project built by three processes.                    *)
EXTENDS CommandParsing

MCKind == [w \in {"-o", "-MT", "-c", "rcs", "x.c", "x.o", "lib.a", "z.so", "foo", "x.d"} |->
    CASE w = "-o" -> "-o" [] w = "-MT" -> "skip" [] w = "-c" -> "flag"
      [] w = "x.c" -> "source" [] w = "x.o" -> "object" [] w = "lib.a" -> "archive"
      [] w = "z.so" -> "shared" [] w = "x.d" -> "other" [] w \in {"rcs", "foo"} -> "bare"]
MCWords == DOMAIN MCKind

Program(stem, ends) == [stem |-> stem, ends |-> ends, installed |-> TRUE]
sh == Program("sh", {})
gcc == Program("gcc", {"gcc", "cc"})
gxx == Program("x86_64-linux-gnu-g++", {"g++"})
clangxx == Program("clang++", {"clang++", "g++"})
ar == Program("llvm-ar", {"ar"})
ranlib == Program("ranlib", {"ranlib"})
ld == [Program("ld.gold", {"ld.gold"}) EXCEPT !.installed = FALSE]
MCPrograms == {sh, gcc, gxx, clangxx, ar, ranlib, ld}

Run(p, args) == [program |-> p, args |-> args]

Lines == SeqOf({"-o", "-MT", "x.c", "x.o", "foo"}, 5)
         \cup SeqOf({"-o", "-MT", "-c", "x.c", "lib.a", "z.so", "x.d"}, 3)
OneCommand == {[p \in {1} |-> <<Run(gcc, l)>>] : l \in Lines}

Compile(cc) == Run(cc, <<"-c", "-MT", "x.o", "-o", "x.o", "x.c">>)
Archive == Run(ar, <<"rcs", "lib.a", "x.o", "-c", "z.so">>)
Share == Run(gxx, <<"-c", "x.o", "-o", "z.so">>)
Link(cc) == Run(cc, <<"-o", "foo", "lib.a", "z.so", "x.d">>)

Projects == {[p \in {1, 2, 3} |->
                 CASE p = 1 -> <<Run(sh, <<"-c", "foo">>), Compile(cc)>>
                   [] p = 2 -> second
                   [] p = 3 -> third] :
                cc \in {gcc, clangxx},
                second \in {<<Archive>>, <<Run(ranlib, <<"-c", "lib.a">>), Share>>},
                third \in {<<Link(gxx)>>, <<Run(ld, <<"-o", "foo", "x.o">>), Link(clangxx)>>}}
MCTraces == OneCommand \cup Projects

(* The theorems of CommandParsingProofs about edges apply to this instance. *)
ASSUME ArIsConventional
=============================================================================
