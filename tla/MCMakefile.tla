---------------------------- MODULE MCMakefile ----------------------------
(* Makefiles with one of many lines, with expressions in each other up to  *)
(* three deep and with a token missing here and there; and trees with      *)
(* several Makefiles.                                                      *)
EXTENDS Makefile

B == Blank
Call(f, args) == <<"$(", f, B>> \o args \o <<")">>
Functions == {"wildcard", "shell", "sort", "filter"}

Words == {<<"x">>, <<"ls", B, "x">>, <<"x", B, "(", "x", ")">>, <<"ls", "| sort">>}
Flat == {Call(f, a) : f \in Functions, a \in Words}
(* No ls in the arguments of another: see README.md. *)
Twofold == {Call(f, a) : f \in Functions, a \in Flat}
           \cup {Call("shell", <<"ls", B>> \o Call("wildcard", <<"x">>))}
Threefold == {Call(f, Call(g, Call("wildcard", <<"x">>))) :
                 f \in Functions, g \in Functions}

Odd == {
    <<"x", B, "$(", B, "wildcard", B, "x", ")", "x">>,      \* white space first
    <<"$(", B, "sort", B, "$(", B, "wildcard", B, "x", ")", ")">>,
    <<"$(", "wildcard", ")">>,                              \* no arguments
    <<"$(", ")", "x">>,                                     \* nothing at all
    <<"$(", "x", "$(", "wildcard", B, "x", ")", ")">>,      \* in a name
    <<"$(", "x", "$(", "x", ")", B>> \o Call("wildcard", <<"x">>) \o <<")">>,
    <<"$(", "filter", B, "x">> \o Call("wildcard", <<"x">>), \* not closed
    Call("wildcard", <<"x">>) \o <<B>> \o Call("shell", <<"lsof">>),
    Call("sort", Call("wildcard", <<"x">>) \o <<B, "x">>),
    <<")", "x">> \o Call("wildcard", <<"x">>)}

(* Lines of which a token has been lost. *)
Lossy == {RemoveAt(l, i) : l \in {Call("filter", Call("wildcard", <<"x">>)),
                                  Call("wildcard", Call("shell", <<"ls">>))},
                           i \in 1..9}

OneLine == Flat \cup Twofold \cup Threefold \cup Odd \cup Lossy

Plain == Call("wildcard", <<"x">>)
Tree(there) == [p \in Dirs \X Names |-> IF p \in DOMAIN there THEN there[p] ELSE Absent]

MCProjects ==
    {Tree([p \in {<<"top", "Makefile">>} |-> <<l, Plain>>]) : l \in OneLine}
    \cup {Tree([p \in {<<"top", "Makefile">>, <<"sub", n>>} |-> <<Plain, <<"x">> >>]) :
            n \in {"makefile", "GNUmakefile", "Makefile"}}
    \cup {Tree([p \in {<<"sub", "makefile">>} |-> <<>>])}

MCCommands == {
    [make |-> TRUE,  cd |-> "",    where |-> "top"],    \* make
    [make |-> TRUE,  cd |-> "sub", where |-> "sub"],    \* cd sub && make
    [make |-> TRUE,  cd |-> "gone", where |-> "top"],   \* cd gone && make || make
    [make |-> FALSE, cd |-> "",    where |-> "top"]}    \* ninja
MCReadOnly == {<<"sub", "Makefile">>}
===========================================================================
