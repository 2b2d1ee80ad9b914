---------------------------- MODULE MCGitClones ----------------------------
(* Two runs of reprobuild with one log directory,                          *)
(* which clone two repositories between them.                              *)
EXTENDS GitClones

Arg(t) == [dash |-> FALSE, text |-> t]
Flag(t) == [dash |-> TRUE, text |-> t]

MCRunOf == [c \in {1, 2, 3} |-> IF c = 3 THEN "second" ELSE "first"]
MCLogPath == [r \in {"first", "second"} |-> "/tmp"]
MCRepo == [c \in {1, 2, 3} |-> IF c = 2 THEN "B" ELSE "A"]

TwiceRepo == [c \in {1, 2} |-> "A"]       \* one build clones it twice

PlainArgs == [c \in {1, 2, 3} |->
    CASE c = 1 -> <<Arg("A")>>
      [] c = 2 -> <<Flag("--quiet"), Arg("B"), Arg("dir")>>
      [] c = 3 -> <<Flag("-n"), Arg("A"), Arg("dir")>>]

TwiceArgs == [c \in {1, 2} |-> <<Arg("A"), Arg(<<"dir", c>>)>>]

(* git clone -b dev <repository>, full clones. *)
BranchArgs == [c \in {1, 2, 3} |-> <<Flag("-b"), Arg("dev"), Arg(MCRepo[c])>>]
=============================================================================
