---------------------------- MODULE TraceReading ----------------------------
(***************************************************************************)
(* What Tracker::trackBuild reads from the trace: three passes for         *)
(* libraries, headers and executables (parseLibFiles, parseHeaderFiles,    *)
(* parseExecutables), whose files are then resolved (DependencyTracking),  *)
(* and one for the files the build created (detectBuildArtifacts,          *)
(* processCreatedFiles).  Every pass looks at the file system again, which *)
(* processes the build left running may still change.                      *)
(*                                                                         *)
(* A path is its names, with `abs' for the slash in front; the empty path  *)
(* has no names.  A path that ends in a slash has the name "" at its end.  *)
(* Empty names elsewhere - two slashes - are left out.                     *)
(***************************************************************************)
EXTENDS Naturals, Sequences, SequencesExt, FiniteSets

CONSTANTS
    Kind,           \* of each name by its extension, see Kinds
    Mappings,       \* REPROBUILD_PATH_MAP, normalized: [observed, local]
    BuildPath,      \* names of build_path_
    SiblingNames,   \* names that begin with the last name of BuildPath
    IgnoredDirs,    \* tmp, proc, sys, dev
    IgnoredNames,   \* libreprobuild_interceptor.so
    LoaderFiles,    \* ignore_libs
    IgnoredExecs,   \* ignore_execs
    TempNames,      \* names with .tmp, Makefile, CMakeCache.txt ... in them
    CMakeDirs,      \* names that end in CMakeFiles
    Traces,         \* sequences of [is, path, flags, cwd]
    FilesAtEnd,     \* the files when the build has ended:
                    \* path -> [regular, exec, content]
    Volatile        \* files that may yet be deleted

Kinds == {"shared", "static", "la", "header", "object", "plain"}

AllNames == DOMAIN Kind
AllPaths == [abs : BOOLEAN, names : Seq(AllNames)]
NoPath == [abs |-> FALSE, names |-> <<>>]
Absolute(names) == [abs |-> TRUE, names |-> names]

-----------------------------------------------------------------------------
(* Paths. *)

(* The names `done' of a directory, and then n. *)
Entered(abs, done, n) ==
    CASE n = "." -> done
      [] n = ".." /\ done = <<>> -> IF abs THEN <<>> ELSE <<n>>
      [] n = ".." /\ done # <<>> /\ Last(done) # ".." -> Front(done)
      [] OTHER -> Append(done, n)

(* lexically_normal: no name is ".", and ".." only leads a relative path.  *)
Normal(p) ==
    LET upto[k \in 0..Len(p.names)] ==
            IF k = 0 THEN <<>> ELSE Entered(p.abs, upto[k - 1], p.names[k])
    IN  [abs |-> p.abs, names |-> upto[Len(p.names)]]

(* `flags' is "O_CREAT" or "other", "cut" if the line ends before it; cwd,  *)
(* the directory of the process, is not in the line.                       *)
ASSUME ReadingAssumption ==
    /\ \A n \in AllNames : Kind[n] \in Kinds
    /\ {".", ".."} \subseteq AllNames
    /\ BuildPath \in Seq(AllNames) /\ Normal(Absolute(BuildPath)) = Absolute(BuildPath)
    /\ BuildPath # <<>> /\ BuildPath[Len(BuildPath)] \in SiblingNames
    /\ \A m \in Mappings : /\ m.observed \in AllPaths /\ m.observed.abs
                           /\ m.local \in AllPaths /\ m.local.abs /\ Normal(m.local) = m.local
                           /\ "" \notin ToSet(m.local.names)
    /\ \A t \in Traces : t \in Seq(ToSet(t)) /\ \A l \in ToSet(t) :
          /\ l.is \in {"openat", "creat", "execve"} /\ l.path \in AllPaths
          /\ l.flags \in {"O_CREAT", "other", "cut"} /\ l.cwd \in Seq(AllNames)
    /\ Volatile \subseteq DOMAIN FilesAtEnd

VARIABLES
    trace,      \* the lines of the trace
    fs,         \* the files there are now
    pass, at,   \* which pass, at which line
    libs, headers, execs,
    files,      \* the files given to the pool
    created,    \* created_files not yet processed
    current,    \* the file about to be hashed, or NoPath
    artifacts   \* of the record

trVars == <<trace, fs, pass, at, libs, headers, execs, files, created, current,
          artifacts>>

-----------------------------------------------------------------------------
(* Mappings. *)

(* hasPathPrefix.  The prefix "/" is only a prefix of itself. *)
HasPrefix(p, prefix) ==
    \/ p = prefix
    \/ /\ prefix.names # <<>> /\ p.abs = prefix.abs
       /\ IsStrictPrefix(prefix.names, p.names)

LessSpecific(m, n) == Len(m.observed.names) < Len(n.observed.names)
(* The order of the mappings.  The code compares lengths of strings, which *)
(* for the prefixes of one path is the same.                               *)
MoreSpecific(m, n) == Len(m.observed.names) > Len(n.observed.names)

(* remapObservedPath *)
Remap(path) ==
    LET p == Normal(path)
        around == {m \in Mappings : HasPrefix(p, m.observed)}
        first == CHOOSE m \in around : \A n \in around : ~MoreSpecific(n, m)
        rest == SubSeq(p.names, Len(first.observed.names) + 1, Len(p.names))
    IN  IF path = NoPath \/ around = {} THEN p
        ELSE IF rest = <<>> THEN first.local
        ELSE Normal(Absolute(first.local.names \o rest))

(* Relative paths are looked up in the directory reprobuild runs in. *)
File(p) == IF p.abs THEN p ELSE Normal(Absolute(BuildPath \o p.names))
Exists(p) == p # NoPath /\ File(p) \in DOMAIN fs
KindOf(p) == IF p = NoPath THEN "plain" ELSE Kind[Last(p.names)]

-----------------------------------------------------------------------------
(* What is ignored. *)

AfterSlash(p, k) == k > 1 \/ p.abs

(* contains(filepath, build_path_): anywhere in the path, and the last name *)
(* need only begin like that of build_path_.                               *)
ContainsBuildPath(p) ==
    LET n == Len(BuildPath) IN
    \E k \in 0..(Len(p.names) - n) :
        /\ AfterSlash(p, k + 1)
        /\ \A j \in 1..(n - 1) : p.names[k + j] = BuildPath[j]
        /\ p.names[k + n] \in SiblingNames

HasDirIn(p, dirs) == \E k \in 1..(Len(p.names) - 1) : p.names[k] \in dirs

(* shouldIgnoreFile, by ignore_patterns_ *)
IgnoredFile(p) ==
    \/ \E k \in 1..(Len(p.names) - 1) : p.names[k] \in IgnoredDirs /\ AfterSlash(p, k)
    \/ ToSet(p.names) \cap IgnoredNames # {}

IgnoredLib(p) == p \in LoaderFiles \/ ContainsBuildPath(p) \/ IgnoredFile(p)
IgnoredHeader(p) == ~p.abs \/ ContainsBuildPath(p) \/ IgnoredFile(p)
IgnoredExecutable(p) ==
    ~p.abs \/ ContainsBuildPath(p) \/ p \in IgnoredExecs \/ IgnoredFile(p)
IgnoredArtifact(p) ==
    \/ HasDirIn(p, CMakeDirs)
    \/ ToSet(p.names) \cap TempNames # {}
    \/ KindOf(p) = "object"
    \/ IgnoredFile(p)

-----------------------------------------------------------------------------
TRInit ==
    /\ trace \in Traces
    /\ fs = FilesAtEnd
    /\ pass = "libs" /\ at = 1
    /\ libs = {} /\ headers = {} /\ execs = {} /\ files = {}
    /\ created = {} /\ current = NoPath /\ artifacts = <<>>

EndOfTrace == at > Len(trace)
Reading(p) == pass = p /\ ~EndOfTrace /\ at' = at + 1
Line == trace[at]
Here == Remap(Line.path)

IsLib(p) == KindOf(p) \in {"shared", "static"}

ReadLib ==
    /\ Reading("libs")
    /\ libs' = IF Line.is = "openat" /\ IsLib(Here) /\ Exists(Here) /\ ~IgnoredLib(Here)
               THEN libs \cup {Here} ELSE libs
    /\ UNCHANGED <<trace, fs, pass, headers, execs, files, created, current, artifacts>>

ReadHeader ==
    /\ Reading("headers")
    /\ headers' = IF /\ Line.is = "openat" /\ KindOf(Here) = "header"
                     /\ Exists(Here) /\ ~IgnoredHeader(Here)
                  THEN headers \cup {Here} ELSE headers
    /\ UNCHANGED <<trace, fs, pass, libs, execs, files, created, current, artifacts>>

ReadExecutable ==
    /\ Reading("execs")
    /\ execs' = IF Line.is = "execve" /\ Exists(Here) /\ ~IgnoredExecutable(Here)
                THEN execs \cup {Here} ELSE execs
    /\ UNCHANGED <<trace, fs, pass, libs, headers, files, created, current, artifacts>>

AnyOpen(l) == l.is = "openat"
(* The flag of an openat line.  A line that is cut leaves `flags' without  *)
(* a value, so that it may have the bit or not.                            *)
MayCreate(l) == l.is = "openat" /\ l.flags \in {"O_CREAT", "cut"}
MustCreate(l) == l.is = "creat" \/ (l.is = "openat" /\ l.flags = "O_CREAT")

ReadCreated ==
    /\ Reading("created")
    /\ \/ /\ MustCreate(Line) \/ MayCreate(Line)
          /\ created' = IF Exists(Here) THEN created \cup {Here} ELSE created
       \/ ~MustCreate(Line) /\ created' = created
    /\ UNCHANGED <<trace, fs, pass, libs, headers, execs, files, current, artifacts>>

After == [libs |-> "headers", headers |-> "execs", execs |-> "created",
          created |-> "process"]

(* After the third pass, mergeDependencyFiles and the tasks of the pool.   *)
NextPass ==
    /\ EndOfTrace /\ pass \in DOMAIN After
    /\ pass' = After[pass] /\ at' = 1
    /\ files' = IF pass = "execs" THEN libs \cup headers \cup execs ELSE files
    /\ UNCHANGED <<trace, fs, libs, headers, execs, created, current, artifacts>>

-----------------------------------------------------------------------------
(* processCreatedFiles *)

TypeByExtension(p) == KindOf(p)
ArtifactType(p) ==
    CASE KindOf(p) = "shared" -> "shared_library"
      [] KindOf(p) \in {"static", "la"} -> "static_library"
      [] OTHER -> "executable"

(* Not for a file that is gone: its status is no regular file's. *)
IsArtifact(p) ==
    /\ ~IgnoredArtifact(p) /\ Exists(p) /\ fs[File(p)].regular
    /\ fs[File(p)].exec \/ KindOf(p) \in {"shared", "static", "la"}

(* In the order of the paths, on which nothing depends. *)
CheckCreated ==
    /\ pass = "process" /\ current = NoPath
    /\ \E p \in created :
          /\ created' = created \ {p}
          /\ current' = IF IsArtifact(p) THEN p ELSE NoPath
    /\ UNCHANGED <<trace, fs, pass, at, libs, headers, execs, files, artifacts>>

(* calculateFileHash: "" for a file that cannot be opened. *)
Hash(p) == IF Exists(p) THEN fs[File(p)].content ELSE ""

(* makeRelativePath *)
Display(p) ==
    LET f == File(p).names IN
    IF IsPrefix(BuildPath, f)
    THEN [abs |-> FALSE, names |-> SubSeq(f, Len(BuildPath) + 1, Len(f))]
    ELSE Absolute(f)

AddArtifact ==
    /\ pass = "process" /\ current # NoPath
    /\ artifacts' = Append(artifacts, [path |-> Display(current), hash |-> Hash(current),
                                       type |-> ArtifactType(current)])
    /\ current' = NoPath
    /\ UNCHANGED <<trace, fs, pass, at, libs, headers, execs, files, created>>

Finish ==
    /\ pass = "process" /\ created = {} /\ current = NoPath
    /\ pass' = "done"
    /\ UNCHANGED <<trace, fs, at, libs, headers, execs, files, created, current, artifacts>>

(* A process the build left behind deletes a file. *)
Vanish ==
    /\ pass # "done"
    /\ \E p \in Volatile \cap DOMAIN fs : fs' = [q \in DOMAIN fs \ {p} |-> fs[q]]
    /\ UNCHANGED <<trace, pass, at, libs, headers, execs, files, created, current, artifacts>>

TRNext ==
    \/ ReadLib \/ ReadHeader \/ ReadExecutable \/ ReadCreated \/ NextPass
    \/ CheckCreated \/ AddArtifact \/ Finish \/ Vanish
    \/ pass = "done" /\ UNCHANGED trVars

TRSpec == TRInit /\ [][TRNext]_trVars

-----------------------------------------------------------------------------
(* What the lines stand for. *)

(* The file a process named, where reprobuild finds it: moved with the     *)
(* innermost directory that was mapped.                                    *)
Named(l) ==
    LET p == IF l.path.abs THEN Normal(l.path) ELSE Normal(Absolute(l.cwd \o l.path.names))
        around == {m \in Mappings : HasPrefix(p, m.observed)}
        inner == CHOOSE m \in around : \A n \in around : HasPrefix(m.observed, n.observed)
    IN  IF around = {} THEN p
        ELSE Normal(Absolute(inner.local.names
                 \o SubSeq(p.names, Len(inner.observed.names) + 1, Len(p.names))))

InBuild(f) == IsPrefix(BuildPath, f.names)
InSystemDir(f) == f.names # <<>> /\ f.names[1] \in IgnoredDirs

(* A file that was there when the build ended, outside the build directory *)
(* and the directories of the kernel and of temporary files.               *)
IsOutside(f) == f \in DOMAIN FilesAtEnd /\ ~InBuild(f) /\ ~InSystemDir(f)

Uses(l) ==
    \/ l.is = "openat" /\ IsLib(Named(l)) /\ Named(l) \notin LoaderFiles
    \/ l.is = "openat" /\ KindOf(Named(l)) = "header"
    \/ l.is = "execve" /\ Named(l) \notin IgnoredExecs

UsedOutside ==
    {Named(l) : l \in {x \in ToSet(trace) : x.path # NoPath /\ Uses(x) /\ IsOutside(Named(x))}}

IsTemporary(f) ==
    \/ HasDirIn(f, CMakeDirs) \/ ToSet(f.names) \cap TempNames # {}
    \/ KindOf(f) = "object"
    \/ InSystemDir(f) /\ ~InBuild(f)

IsProduct(f) ==
    /\ f \in DOMAIN FilesAtEnd /\ FilesAtEnd[f].regular
    /\ FilesAtEnd[f].exec \/ KindOf(f) \in {"shared", "static", "la"}
    /\ ~IsTemporary(f)

ProductsOf(Creates(_)) ==
    {f \in {Named(l) : l \in {x \in ToSet(trace) : x.path # NoPath /\ Creates(x)}} : IsProduct(f)}

-----------------------------------------------------------------------------
(* What the properties need of a machine and a build. *)

(* No directory is mapped twice. *)
OneMappingEach == \A m, n \in Mappings : m.observed = n.observed => m = n

(* What the code looks for somewhere in a path is where it means it. *)
PatternsFit ==
    /\ \A f \in DOMAIN FilesAtEnd : ContainsBuildPath(f) <=> InBuild(f)
    /\ \A f \in DOMAIN FilesAtEnd : IgnoredFile(f) <=> InSystemDir(f)
    /\ BuildPath[1] \notin IgnoredDirs
    /\ ToSet(BuildPath) \cap (CMakeDirs \cup TempNames) = {}

(* The script makes the paths of openat absolute.  One that is run is of   *)
(* the build, and one that is created below the directory of the build, by *)
(* a process that is there.                                                *)
RelativePathsAreHere ==
    \A t \in Traces : \A l \in ToSet(t) : ~l.path.abs /\ l.path # NoPath =>
        /\ l.is # "openat"
        /\ l.is = "execve" => ~IsOutside(Named(l))
        /\ l.is = "creat" =>
              /\ l.cwd = BuildPath
              /\ Normal(l.path) # NoPath /\ ".." \notin ToSet(Normal(l.path).names)
              /\ \A m \in Mappings : ~HasPrefix(File(l.path), m.observed)

(* No file is created both by a relative path and by an absolute one. *)
OneSpelling ==
    \A t \in Traces : \A k, l \in {x \in ToSet(t) : MustCreate(x) \/ MayCreate(x)} :
        k.path # NoPath /\ l.path # NoPath /\ Named(k) = Named(l) => k.path.abs = l.path.abs

-----------------------------------------------------------------------------
Collected == libs \cup headers \cup execs \cup files \cup created \cup {current}

(* Every variable stays in its type; paths that are kept are normal. *)
TRTypeOK ==
    /\ DOMAIN fs \subseteq DOMAIN FilesAtEnd
    /\ pass \in DOMAIN After \cup {"process", "done"}
    /\ at \in 1..(Len(trace) + 1)
    /\ \A p \in Collected : Normal(p) = p /\ "." \notin ToSet(p.names)
                            /\ (p.abs => ".." \notin ToSet(p.names))
    /\ \A a \in ToSet(artifacts) :
          a.type \in {"shared_library", "static_library", "executable"}

(* The files handed to the pool are the libraries, headers and programs    *)
(* from outside that the build used, wherever they are mapped from and     *)
(* however their paths were spelt; only one that was deleted meanwhile may *)
(* be missing.                                                             *)
DependenciesAreUsesOutside ==
    pass \in {"created", "process", "done"} =>
        /\ files \subseteq UsedOutside
        /\ UsedOutside \ Volatile \subseteq files

(* The artifacts are the programs and libraries the build created, each    *)
(* once, with the hash of the file that is there, under however many paths *)
(* they were written.  A file deleted meanwhile may be missing or without  *)
(* a hash, and a file that was only read may be there if its line was cut. *)
ArtifactsAreWhatWasMade ==
    pass = "done" =>
        LET shown == {a.path : a \in ToSet(artifacts)}
            made == ProductsOf(MustCreate)
        IN  /\ {Display(f) : f \in made \ Volatile} \subseteq shown
            /\ shown \subseteq {Display(f) : f \in made}
                               \cup {Display(f) : f \in ProductsOf(LAMBDA l : l.flags = "cut")}
            /\ Cardinality(shown) = Len(artifacts)
            /\ \A a \in ToSet(artifacts) :
                  \E f \in DOMAIN FilesAtEnd :
                      /\ Display(f) = a.path
                      /\ a.hash = FilesAtEnd[f].content \/ (f \in Volatile /\ a.hash = "")
=============================================================================
