------------------------ MODULE MCDependencyTracking ------------------------
(* The machines on which TLC checks DependencyTracking: three dependency   *)
(* files a, b, l on paths where l may be a link to another path t.         *)
EXTENDS DependencyTracking

MCPaths == {"a", "b", "l", "t"}
MCQueries == {"lib:amd64", "lib:i386", "tool"}
MCNames == {"lib", "tool", "x"}

raw == <<"a", "b", "l">>
Linked == [p \in MCPaths |-> IF p = "l" THEN "t" ELSE p]
Unlinked == [p \in MCPaths |-> p]

(* Two custom files share a base name, or one has the name of a package.   *)
Bases == {[p \in MCPaths |-> "x"],
          [p \in MCPaths |-> IF p = "b" THEN "tool" ELSE "x"]}

(* Which package lists which paths; b may be in two file lists.            *)
NoLists == [q \in MCQueries |-> {}]
FileLists == {NoLists,
              [NoLists EXCEPT !["lib:amd64"] = {"a", "b"},
                              !["lib:i386"] = {"b", "t"}],
              [NoLists EXCEPT !["tool"] = {"t"}, !["lib:i386"] = {"l"}]}

Stanza(n, full, v) == [name |-> n, full |-> full, version |-> v]
StatusFiles == {<<Stanza("lib", "lib:amd64", "1"), Stanza("lib", "lib:i386", "2"),
                  Stanza("tool", "tool", "3")>>,
                <<Stanza("lib", "lib:amd64", "1")>>}

MCWorlds ==
    {[mgr |-> m, raw |-> raw, exists |-> e, readable |-> e, real |-> r,
      base |-> n, lists |-> l,
      display |-> [q \in MCQueries |-> IF q = "tool" THEN "tool" ELSE "lib"],
      stanzas |-> s, fallback |-> [q \in MCQueries |-> ""]] :
        m \in {"APT", "DNF", "other"}, e \in {MCPaths, MCPaths \ {"b"}},
        r \in {Linked, Unlinked}, n \in Bases, l \in FileLists,
        s \in StatusFiles}
=============================================================================
