----------------------------- MODULE RecordFile -----------------------------
(***************************************************************************)
(* The build record as a YAML file (src/build_record.cpp): what saveToFile *)
(* writes and what loadFromFile makes of it, or of the beginning of it.    *)
(*                                                                         *)
(* A file is a map from the names of its sections to what is in them, in   *)
(* order; the names of the keys in a node and the quoting of values are    *)
(* yaml-cpp's affair, and a section that is not there is empty.            *)
(***************************************************************************)
EXTENDS Naturals, Sequences, FiniteSets, SequencesExt

Origins == {"apt", "dnf", "pacman", "custom"}

NoRecord == [build_path |-> "", deps |-> {}, artifacts |-> <<>>, commits |-> <<>>]

NoText == [metadata |-> <<>>, dependencies |-> <<>>, artifacts |-> <<>>, git_commit_ids |-> <<>>]
Sections == <<"metadata", "dependencies", "artifacts", "git_commit_ids">>

(* The dependencies of a record that sort before d: by name, which is      *)
(* unique in a record.                                                     *)
Smaller(r, d) == {e \in r.deps : e.path < d.path}

(* getAllDependencies: the k-th has k-1 before it. *)
GetAllDependencies(r) ==
    [k \in 1..Cardinality(r.deps) |->
        CHOOSE d \in r.deps : Cardinality(Smaller(r, d)) = k - 1]

(* Of the metadata the path of the tree matters here. *)
SaveToFile(r) ==
    [metadata       |-> <<r.build_path>>,
     dependencies   |-> GetAllDependencies(r),
     artifacts      |-> r.artifacts,
     git_commit_ids |-> r.commits]

(* The sections before the s-th, of which there is only what is given. *)
CutIn(text, s, part) ==
    [n \in DOMAIN text |-> CASE \E k \in 1..s-1 : n = Sections[k] -> text[n]
                             [] n = Sections[s] -> part
                             [] OTHER -> <<>>]

(* What may be in the file when not all of it has been written.  A node    *)
(* that lacks a key is passed over by loadFromFile and left out here; the  *)
(* last key of a dependency, its origin, may lack letters.                 *)
Beginnings(text) ==
    (UNION {{CutIn(text, s, SubSeq(text[Sections[s]], 1, k - 1)) :
                k \in DOMAIN text[Sections[s]]} : s \in 1..4})
    \cup {CutIn(text, 2, [SubSeq(text.dependencies, 1, k) EXCEPT ![k].origin = "..."]) :
             k \in DOMAIN text.dependencies}

KeepOrigin(name) == name
(* An origin that is none of the others is CUSTOM. *)
Origin(name) == IF name \in Origins THEN name ELSE "custom"

LoadFromFile(text) ==
    [build_path |-> IF text.metadata = <<>> THEN "" ELSE text.metadata[1],
     deps       |-> {[d EXCEPT !.origin = Origin(@)] : d \in ToSet(text.dependencies)},
     artifacts  |-> text.artifacts,
     commits    |-> text.git_commit_ids]
=============================================================================
