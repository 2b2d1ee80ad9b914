------------------------------ MODULE Makefile ------------------------------
(***************************************************************************)
(* Preprocessor::fixMakefile (src/preprocessor.cpp) and                    *)
(* Canonicalizer::apply_to_file (src/canonicalizer.cpp): before it runs a  *)
(* build that mentions make, reprobuild finds the Makefile and rewrites it *)
(* where it is, line by line as module MakeText says.  Builds follow each  *)
(* other in a tree; reprobuild may be killed at any moment, in the middle  *)
(* of writing too.                                                         *)
(***************************************************************************)
EXTENDS MakeText

CONSTANTS
    Dirs,           \* the directories of the tree
    CurrentDir,     \* the one reprobuild is started in
    Projects,       \* the trees considered: what each Makefile holds, or Absent
    Commands,       \* the build commands, see below
    ReadOnly,       \* Makefiles that cannot be opened for writing
    Absent,         \* no file
    MaxBuilds       \* bound on the number of builds

Names == {"Makefile", "makefile", "GNUmakefile"}
Paths == Dirs \X Names
Contents == Seq(Texts)      \* of a file: its lines

(* A build command: whether it contains "make", the directory of the first *)
(* "cd <dir> && ... make" in it ("" if there is none), and the directory   *)
(* make in fact runs in.                                                   *)
MakefileAssumption ==
    /\ CurrentDir \in Dirs
    /\ \A c \in Commands : c.make \in BOOLEAN /\ c.where \in Dirs
    /\ \A f \in Projects : f \in [Paths -> Contents \cup {Absent}]
    /\ Absent \notin Contents
    /\ MaxBuilds \in Nat
ASSUME MakefileAssumption

NotRun == <<>>

VARIABLES
    files,      \* the Makefiles: sequences of lines, or Absent
    first,      \* as they were before the first build
    pc,         \* where reprobuild is
    command,    \* its build command
    makefile,   \* makefile_path
    lines,      \* the rewritten lines
    torn,       \* Makefiles cut by a kill or a full disk
    seen,       \* what make read in the last build: the path, or NotRun
    builds      \* builds started

vars == <<files, first, pc, command, makefile, lines, torn, seen, builds>>
disk == <<files, first, torn>>

Init ==
    /\ files \in Projects
    /\ first = files
    /\ pc = "idle"
    /\ command \in Commands
    /\ makefile = <<CurrentDir, "Makefile">>
    /\ lines = <<>>
    /\ torn = {}
    /\ seen = NotRun
    /\ builds = 0

Start(c) ==
    /\ pc = "idle" /\ builds < MaxBuilds
    /\ pc' = "fix"
    /\ command' = c
    /\ seen' = NotRun
    /\ builds' = builds + 1
    /\ UNCHANGED <<disk, makefile, lines>>

-----------------------------------------------------------------------------
(* fixMakefile *)

(* The directory after "cd" if it can be resolved, else the current one.   *)
MakeDir(c) == IF c.cd \in Dirs THEN c.cd ELSE CurrentDir

MakesOrder == <<"GNUmakefile", "makefile", "Makefile">>
OneCandidate == <<"Makefile">>
Candidates == <<"Makefile", "makefile", "GNUmakefile">>

(* The first name of an order that is there; 0 if none is. *)
Found(order, dir) ==
    SelectInSeq(order, LAMBDA n : files[<<dir, n>>] # Absent)

Skip ==
    /\ pc = "fix"
    /\ ~command.make \/ Found(Candidates, MakeDir(command)) = 0
    /\ pc' = "run"
    /\ UNCHANGED <<disk, command, makefile, lines, seen, builds>>

FindMakefile ==
    /\ pc = "fix" /\ command.make
    /\ LET dir == MakeDir(command)
           k   == Found(Candidates, dir)
       IN  k # 0 /\ makefile' = <<dir, Candidates[k]>>
    /\ pc' = "read"
    /\ UNCHANGED <<disk, command, lines, seen, builds>>

-----------------------------------------------------------------------------
(* apply_to_file *)

ReadLines ==
    /\ pc = "read"
    /\ lines' = [i \in 1..Len(files[makefile]) |-> Canonical(files[makefile][i])]
    /\ pc' = "open"
    /\ UNCHANGED <<disk, command, makefile, seen, builds>>

(* The exception is caught nowhere: reprobuild ends here. *)
CannotOpen ==
    /\ pc = "open" /\ makefile \in ReadOnly
    /\ pc' = "idle"
    /\ UNCHANGED <<disk, command, makefile, lines, seen, builds>>

Removed(f) == Absent
Truncated(f) == <<>>

(* Opening for writing empties the file. *)
Open ==
    /\ pc = "open" /\ makefile \notin ReadOnly
    /\ files' = [files EXCEPT ![makefile] = Truncated(@)]
    /\ pc' = "write"
    /\ UNCHANGED <<first, torn, command, makefile, lines, seen, builds>>

(* The first k lines of a text and j tokens of the next. *)
Cut(ls, k, j) ==
    SubSeq(ls, 1, k) \o (IF j = 0 THEN <<>> ELSE <<SubSeq(ls[k + 1], 1, j)>>)
Cuts(ls) == {ls} \cup UNION {{Cut(ls, k, j) : j \in 0..Len(ls[k + 1])} :
                                k \in 0..Len(ls)-1}

(* The stream's buffer goes to the file when it is full, which may be in   *)
(* the middle of a line.                                                   *)
Flush ==
    /\ pc = "write"
    /\ files[makefile] = <<>>
    /\ \E f \in Cuts(lines) \ {lines} : files' = [files EXCEPT ![makefile] = f]
    /\ UNCHANGED <<first, torn, pc, command, makefile, lines, seen, builds>>

LeaveBuffer(f, ls) == f
WriteRest(f, ls) == ls

Close ==
    /\ pc = "write"
    /\ files' = [files EXCEPT ![makefile] = WriteRest(@, lines)]
    /\ pc' = "run"
    /\ UNCHANGED <<first, torn, command, makefile, lines, seen, builds>>

(* The disk is full: what is in the buffer is lost, and nobody asks.       *)
CloseFullDisk ==
    /\ pc = "write"
    /\ pc' = "run"
    /\ torn' = torn \cup {makefile}
    /\ UNCHANGED <<files, first, command, makefile, lines, seen, builds>>

-----------------------------------------------------------------------------
(* The build.  GNU make looks for its file in an order of its own.         *)
RunBuild ==
    /\ pc = "run"
    /\ LET k == Found(MakesOrder, command.where)
       IN  seen' = IF command.make /\ k # 0
                   THEN <<command.where, MakesOrder[k]>> ELSE NotRun
    /\ pc' = "idle"
    /\ UNCHANGED <<disk, command, makefile, lines, builds>>

(* reprobuild is killed. *)
Crash ==
    /\ pc # "idle"
    /\ pc' = "idle"
    /\ torn' = IF pc = "write" THEN torn \cup {makefile} ELSE torn
    /\ UNCHANGED <<files, first, command, makefile, lines, seen, builds>>

(* All builds have been done. *)
Done == pc = "idle" /\ builds = MaxBuilds /\ UNCHANGED vars

Next == \/ \E c \in Commands : Start(c)
        \/ Skip \/ FindMakefile \/ ReadLines \/ CannotOpen \/ Open \/ Flush
        \/ Close \/ CloseFullDisk \/ RunBuild \/ Crash \/ Done

Spec == Init /\ [][Next]_vars

-----------------------------------------------------------------------------
Existing == {p \in Paths : files[p] # Absent}

(* Every variable stays in its type; no Makefile appears or goes.          *)
TypeOK ==
    /\ pc \in {"idle", "fix", "read", "open", "write", "run"}
    /\ command \in Commands
    /\ makefile \in Paths
    /\ Existing = {p \in Paths : first[p] # Absent}
    /\ torn \subseteq Existing
    /\ seen \in Paths \cup {NotRun}
    /\ builds \in 0..MaxBuilds
    /\ \A p \in Existing : Len(files[p]) <= Len(first[p])

(* Whatever is on a line, rewriting it only adds sorting: with that taken  *)
(* out the line is what it was.  (canonicalize_make_text: matching of      *)
(* parentheses, splitting of functions, lines that are not closed)         *)
NothingElseChanges ==
    pc = "open" =>
        /\ Len(lines) = Len(files[makefile])
        /\ \A i \in 1..Len(lines) : Unsorted(lines[i]) = Unsorted(files[makefile][i])

(* A Makefile that has been rewritten is not changed by later builds, nor  *)
(* is what a kill or a full disk left of it: sorting is added once.        *)
Settled ==
    pc = "open" /\ files[makefile] # first[makefile] => lines = files[makefile]

(* The rewritten form of the Makefile p was. *)
Rewritten(p) == [i \in 1..Len(first[p]) |-> Canonical(first[p][i])]

(* A Makefile is as it was, or rewritten, or a beginning of its rewritten  *)
(* form; this last only while it is being written or since reprobuild was  *)
(* killed doing so or found the disk full.                                 *)
WholeOrTorn ==
    \A p \in Existing :
        \/ files[p] \in {first[p], Rewritten(p)}
        \/ /\ files[p] \in Cuts(Rewritten(p))
           /\ p \in torn \/ (pc = "write" /\ makefile = p)

(* What make reads has all its lines, and no listing of a directory in it  *)
(* is unsorted, unless its writing was cut short.                          *)
MakeReadsSorted ==
    seen # NotRun /\ seen \notin torn =>
        /\ Len(files[seen]) = Len(first[seen])
        /\ \A i \in 1..Len(files[seen]) : ListingsSorted(files[seen][i])
=============================================================================
