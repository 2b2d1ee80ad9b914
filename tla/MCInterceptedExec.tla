------------------------- MODULE MCInterceptedExec -------------------------
(* Reprobuilds in each other; compilers with and without a directory,      *)
(* a wrapper found before the real one, a path that is not there, a        *)
(* compiler whose name is not on the list, and git.                        *)
EXTENDS InterceptedExec, TLC

MCBase == [p \in {"/usr/bin/gcc", "/opt/gcc", "/ccache/gcc", "gcc"} |-> "gcc"]
       @@ [p \in {"/usr/bin/git", "/bin/git", "git"} |-> "git"]
       @@ [p \in {"/usr/bin/gcc-12"} |-> "gcc-12"]
MCPaths == DOMAIN MCBase
MCInstalled == MCPaths \ {"/opt/gcc"}
MCWrappers == [p \in {"/ccache/gcc"} |-> "/usr/bin/gcc"]

MCArguments == {
    <<Word("-c"), Word("x.c")>>,
    <<Word("clone"), Word("-q"), Word("u")>>,
    <<Word("clone"), Word("--bare"), Word("u")>>,
    <<Word("clone")>>}
============================================================================
