--------------------------- MODULE MCTraceFraming ---------------------------
(* Values of the constants of TraceFraming. *)
EXTENDS TraceFraming

PlainNames == {<<"a">>, <<"b">>, <<"c">>, <<"m">>, <<"x">>, <<"y">>}
OddNames == PlainNames \cup {<<"e", D>>, <<D, "e">>}

Dir(m, p) == [mount |-> m, path |-> p]
RootDir == Dir(<<>>, <<>>)
DeepDir == Dir(<<>>, <<<<"a">>, <<"b">>>>)
ShallowDir == Dir(<<>>, <<<<"c">>>>)
MountedDir == Dir(<<<<"m">>>>, <<<<"c">>>>)
PlainDirs == {DeepDir, ShallowDir}
OneDir == {DeepDir}
AllDirs == PlainDirs \cup {RootDir}
MountedDirs == {MountedDir}

Exec2(n) == [op |-> "exec", name |-> n, args |-> <<<<"x">>, <<"y">>>>]
Exec0(n) == [op |-> "exec", name |-> n, args |-> <<>>]
CreatOf(n) == [op |-> "creat", name |-> n]
AbsoluteOf(n) == [op |-> "openat", name |-> n]
RelativeTo(d, n) == [op |-> "relative", at |-> d, name |-> n]
ChdirTo(d) == [op |-> "chdir", at |-> d]

OneThreadEach == [t \in {1, 2} |-> IF t = 1 THEN "p" ELSE "q"]
OneProcess == [t \in {1, 2} |-> "p"]

(* Two processes, every kind of call, a change of directory between opens. *)
PlainPrograms == [t \in {1, 2} |->
    IF t = 1
    THEN {<<RelativeTo(NoDir, <<"a">>), ChdirTo(RootDir), RelativeTo(NoDir, <<"b">>)>>,
          <<RelativeTo(NoDir, <<"a">>), ChdirTo(ShallowDir), CreatOf(<<"b">>),
            RelativeTo(NoDir, <<"c">>)>>,
          <<Exec2(<<"a">>), AbsoluteOf(<<"b">>)>>}
    ELSE {<<AbsoluteOf(<<"b">>)>>, <<Exec2(<<"c">>)>>,
          <<RelativeTo(NoDir, <<"b">>)>>}]

OpenOne == [t \in {1, 2} |-> {<<RelativeTo(NoDir, <<"a">>)>>}]
(* Names with the byte 0x80. *)
OpenOdd == [t \in {1, 2} |-> {<<AbsoluteOf(n)>> : n \in OddNames \ PlainNames}]
=============================================================================
