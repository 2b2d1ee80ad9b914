------------------------- MODULE DependencyTracking -------------------------
(***************************************************************************)
(* From the dependency files of a build to its record: the tasks that      *)
(* Tracker::trackBuild gives the thread pool (process_file), each of which *)
(* resolves one file to the package it belongs to                          *)
(* (DependencyPackage::fromRawFile, DependencyResolver) and adds that      *)
(* package to the BuildRecord under record_mutex.                          *)
(*                                                                         *)
(* The pool is seen through TaskRunner, which module ThreadPool            *)
(* implements.  A task shares with the others the resolution cache, the    *)
(* package database (a function-local static that the first user loads     *)
(* while the others wait) and the record.                                  *)
(***************************************************************************)
EXTENDS Naturals, Sequences, FiniteSets

CONSTANTS
    NumFiles,       \* number of dependency files, tasks 1 .. NumFiles
    Capacity,       \* threads of the pool
    Paths,          \* path names
    Queries,        \* dpkg's names of installed packages: name or name:arch
    Names,          \* package names, and base names of files
    NoQuery,        \* no package owns the path
    Free,           \* record_mutex is not held
    LoadMayFail,    \* whether reading the package database may throw
    Worlds          \* machines to record on: see WorldType

(* A machine: the file system, and the package manager's data.             *)
(*   raw      the dependency files, as the trace names them                *)
(*   exists, readable   the paths that exist, that can be hashed           *)
(*   real     canonicalizePath; base: the last component of a path         *)
(*   lists    the paths in the file list of each package                   *)
(*   display  stripArchitectureSuffix of a query name                      *)
(*   stanzas  /var/lib/dpkg/status in order: name, name:arch, version      *)
(*   fallback what dpkg-query answers for a name, "" for an error          *)
WorldType ==
    [mgr : {"APT", "DNF", "other"},
     raw : [1..NumFiles -> Paths],
     exists : SUBSET Paths,
     readable : SUBSET Paths,
     real : [Paths -> Paths],
     base : [Paths -> Names],
     lists : [Queries -> SUBSET Paths],
     display : [Queries -> Names],
     stanzas : Seq([name : Names, full : Queries, version : STRING]),
     fallback : [Queries -> STRING]]

ASSUME TrackingAssumption ==
    /\ NumFiles \in Nat /\ Capacity \in Nat
    /\ NoQuery \notin Queries
    /\ Free \notin 1..NumFiles
    /\ LoadMayFail \in BOOLEAN
    /\ \A w \in Worlds : w \in WorldType

VARIABLES
    status, closed,     \* the pool, as TaskRunner
    world,              \* the machine, chosen once
    tpc,                \* where each task is
    pkg,                \* the package each task has resolved its file to
    cache,              \* DependencyResolutionCache
    dpkg,               \* the static DpkgDatabase: "unloaded", "loading", "ready"
    path_to_package,    \* owner of each path, once loaded
    record_mutex,
    seen,               \* the map as a task inside addDependency found it
    dependencies        \* BuildRecord: package name -> package

Files == 1..NumFiles
poolVars == <<status, closed>>
dataVars == <<world, pkg, cache, dpkg, path_to_package, record_mutex, seen,
              dependencies>>
vars == <<poolVars, tpc, dataVars>>

Pool == INSTANCE TaskRunner WITH NumTasks <- NumFiles

TaskPCs == {"idle", "get", "resolve", "dpkg", "loading", "lookup", "put",
            "valid", "add", "end"}

-----------------------------------------------------------------------------
(* Packages. *)

Invalid == [name |-> "", origin |-> "", path |-> "", version |-> ""]
IsValid(p) == p # Invalid

NoPackages == [n \in Names |-> Invalid]     \* a map without entries
Keys(m) == {n \in Names : m[n] # Invalid}

(* The value a lookup by key finds in package_versions_: the last stanza   *)
(* with that name or name:arch, "" if there is none.                       *)
LastVersion(stanzas, Mentions(_)) ==
    LET hits == {i \in 1..Len(stanzas) :
                    Mentions(stanzas[i]) /\ stanzas[i].version # ""}
    IN  IF hits = {} THEN ""
        ELSE stanzas[CHOOSE i \in hits : \A j \in hits : j <= i].version

VersionByName(w, q) ==
    LastVersion(w.stanzas, LAMBDA s : s.name = w.display[q])
VersionByQuery(w, q) ==
    LastVersion(w.stanzas, LAMBDA s : s.full = q \/ s.name = q)

DisplayNameFirst(w, q) ==
    IF VersionByName(w, q) # "" THEN VersionByName(w, q)
    ELSE w.fallback[q]
(* DpkgDatabase::findVersion *)
FindVersion(w, q) ==
    IF VersionByQuery(w, q) # "" THEN VersionByQuery(w, q)
    ELSE IF VersionByName(w, q) # "" THEN VersionByName(w, q)
    ELSE w.fallback[q]

(* DpkgDatabase::findOwner: the path as given, else the real path. *)
FindOwner(w, owners, p) ==
    IF owners[p] # NoQuery THEN owners[p] ELSE owners[w.real[p]]

(* createDependencyPackage; an empty hash or version throws, and           *)
(* fromRawFile turns what is thrown into an invalid package.               *)
MakePackage(w, name, origin, p, version) ==
    IF version = "" \/ w.real[p] \notin w.readable THEN Invalid
    ELSE [name |-> name, origin |-> origin, path |-> w.real[p],
          version |-> version]

(* What fromRawFile returns for a path that is not cached. *)
Resolved(w, owners, p) ==
    LET q == FindOwner(w, owners, p) IN
    IF p \notin w.exists \/ w.mgr = "other" THEN Invalid
    ELSE IF q = NoQuery
         THEN MakePackage(w, w.base[w.real[p]], "CUSTOM", p, "custom")
         ELSE MakePackage(w, w.display[q], w.mgr, p, FindVersion(w, q))

(* The owners loadFileOwners may end up with: for each path, one of the    *)
(* packages that list it.  The first list read wins (emplace), and the     *)
(* order of a directory iteration is not specified.                        *)
Listers(w, p) == {q \in Queries : p \in w.lists[q]}
LoadedOwners(w) ==
    {o \in [Paths -> Queries \cup {NoQuery}] :
        \A p \in Paths : IF Listers(w, p) = {} THEN o[p] = NoQuery
                         ELSE o[p] \in Listers(w, p)}
NoOwners == [p \in Paths |-> NoQuery]

Init ==
    /\ Pool!Init
    /\ world \in Worlds
    /\ tpc = [f \in Files |-> "idle"]
    /\ pkg = [f \in Files |-> Invalid]
    /\ cache = [p \in {} |-> Invalid]
    /\ dpkg = "unloaded"
    /\ path_to_package \in
         IF world.mgr = "DNF" THEN LoadedOwners(world) ELSE {NoOwners}
    /\ record_mutex = Free
    /\ seen = [f \in Files |-> NoPackages]
    /\ dependencies = NoPackages

-----------------------------------------------------------------------------
(* The pool's steps. *)

SubmitFile(f) == Pool!Submit(f) /\ UNCHANGED <<tpc, dataVars>>

StartFile(f) ==
    /\ Pool!Start(f)
    /\ tpc' = [tpc EXCEPT ![f] = "get"]
    /\ UNCHANGED dataVars

FinishFile(f) ==
    /\ tpc[f] = "end"
    /\ Pool!Finish(f)
    /\ UNCHANGED <<tpc, dataVars>>

(* trackBuild waits for every future before the pool goes; see ThreadPool. *)
ClosePool ==
    /\ \A f \in Files : status[f] = "done"
    /\ Pool!Close
    /\ UNCHANGED <<tpc, dataVars>>

-----------------------------------------------------------------------------
(* The steps of one task. *)

Goto(f, pc) == tpc' = [tpc EXCEPT ![f] = pc]
Yields(f, p) == pkg' = [pkg EXCEPT ![f] = p]

(* The cache is keyed by the path as the trace names it. *)
CacheKey(f) == world.raw[f]

CacheGet(f) ==
    LET p == CacheKey(f) IN
    /\ tpc[f] = "get"
    /\ IF p \in DOMAIN cache
       THEN Yields(f, cache[p]) /\ Goto(f, "valid")
       ELSE Goto(f, "resolve") /\ UNCHANGED pkg
    /\ UNCHANGED <<poolVars, world, cache, dpkg, path_to_package,
                   record_mutex, seen, dependencies>>

(* The existence test and the switch on the package manager; rpm answers   *)
(* at once, dpkg needs its database.                                       *)
Dispatch(f) ==
    LET p == world.raw[f] IN
    /\ tpc[f] = "resolve"
    /\ IF p \in world.exists /\ world.mgr = "APT"
       THEN Goto(f, "dpkg") /\ UNCHANGED pkg
       ELSE /\ Yields(f, Resolved(world, path_to_package, p))
            /\ Goto(f, "put")
    /\ UNCHANGED <<poolVars, world, cache, dpkg, path_to_package,
                   record_mutex, seen, dependencies>>

NoGuard == dpkg # "ready"
(* The guard of the static: one thread constructs, the others wait. *)
MayLoad == dpkg = "unloaded"

LoadBegins(f) ==
    /\ tpc[f] = "dpkg"
    /\ MayLoad
    /\ dpkg' = "loading"
    /\ Goto(f, "loading")
    /\ UNCHANGED <<poolVars, world, pkg, cache, path_to_package,
                   record_mutex, seen, dependencies>>

LoadEnds(f) ==
    /\ tpc[f] = "loading"
    /\ dpkg' = "ready"
    /\ path_to_package' \in LoadedOwners(world)
    /\ Goto(f, "lookup")
    /\ UNCHANGED <<poolVars, world, pkg, cache, record_mutex, seen, dependencies>>

StaysLoading == "loading"
(* The state of the static's guard after an exception. *)
AfterFailedLoad == "unloaded"

(* The constructor throws: the static stays unconstructed for the next     *)
(* user, and this task's file becomes an invalid package.                  *)
LoadFails(f) ==
    /\ LoadMayFail
    /\ tpc[f] = "loading"
    /\ dpkg' = AfterFailedLoad
    /\ Yields(f, Invalid)
    /\ Goto(f, "put")
    /\ UNCHANGED <<poolVars, world, cache, path_to_package, record_mutex, seen,
                   dependencies>>

DatabaseReady(f) ==
    /\ tpc[f] = "dpkg"
    /\ dpkg = "ready"
    /\ Goto(f, "lookup")
    /\ UNCHANGED <<poolVars, dataVars>>

Lookup(f) ==
    /\ tpc[f] = "lookup"
    /\ Yields(f, Resolved(world, path_to_package, world.raw[f]))
    /\ Goto(f, "put")
    /\ UNCHANGED <<poolVars, world, cache, dpkg, path_to_package,
                   record_mutex, seen, dependencies>>

CachePut(f) ==
    /\ tpc[f] = "put"
    /\ cache' = [p \in DOMAIN cache \cup {CacheKey(f)} |->
                   IF p = CacheKey(f) THEN pkg[f] ELSE cache[p]]
    /\ Goto(f, "valid")
    /\ UNCHANGED <<poolVars, world, pkg, dpkg, path_to_package, record_mutex,
                   seen, dependencies>>

SkipInvalid(f) ==
    /\ tpc[f] = "valid"
    /\ ~IsValid(pkg[f])
    /\ Goto(f, "end")
    /\ UNCHANGED <<poolVars, dataVars>>

Unguarded == TRUE
(* lock_guard on record_mutex gets through. *)
RecordMutexFree == record_mutex = Free

(* addDependency begins: the task looks at the map as it is now ...        *)
EnterRecord(f) ==
    /\ tpc[f] = "valid"
    /\ IsValid(pkg[f])
    /\ RecordMutexFree
    /\ record_mutex' = f
    /\ seen' = [seen EXCEPT ![f] = dependencies]
    /\ Goto(f, "add")
    /\ UNCHANGED <<poolVars, world, pkg, cache, dpkg, path_to_package, dependencies>>

(* dependencies_[name] = package *)
Put(map, p) == [map EXCEPT ![p.name] = p]

(* ... and leaves with the entry for the package's name set.               *)
AddDependency(f) ==
    /\ tpc[f] = "add"
    /\ dependencies' = Put(seen[f], pkg[f])
    /\ record_mutex' = Free
    /\ Goto(f, "end")
    /\ UNCHANGED <<poolVars, world, pkg, cache, dpkg, path_to_package, seen>>

TaskStep(f) ==
    \/ CacheGet(f) \/ Dispatch(f)
    \/ LoadBegins(f) \/ LoadEnds(f) \/ LoadFails(f) \/ DatabaseReady(f)
    \/ Lookup(f) \/ CachePut(f) \/ SkipInvalid(f)
    \/ EnterRecord(f) \/ AddDependency(f)
    \/ FinishFile(f)

(* The record is complete: detectBuildArtifacts comes next. *)
Left == closed /\ UNCHANGED vars

Next == \/ \E f \in Files : SubmitFile(f) \/ StartFile(f) \/ TaskStep(f)
        \/ ClosePool
        \/ Left

Spec == Init /\ [][Next]_vars

(* The owner enqueues and closes, the pool starts what is queued (proved   *)
(* live in ThreadPool), every task's thread runs; the database can be read *)
(* in the end.                                                             *)
FairSpec ==
    /\ Spec
    /\ WF_vars(ClosePool)
    /\ \A f \in Files :
         WF_vars(SubmitFile(f)) /\ WF_vars(StartFile(f)) /\ WF_vars(TaskStep(f))

-----------------------------------------------------------------------------
(* Safety. *)

(* Every variable stays in its type. *)
TypeOK ==
    /\ status \in [Files -> Pool!Statuses] /\ closed \in BOOLEAN
    /\ world \in Worlds
    /\ tpc \in [Files -> TaskPCs]
    /\ DOMAIN cache \subseteq {world.raw[f] : f \in Files}
    /\ dpkg \in {"unloaded", "loading", "ready"}
    /\ path_to_package \in [Paths -> Queries \cup {NoQuery}]
    /\ record_mutex \in Files \cup {Free}
    /\ dependencies \in [Names -> {Invalid} \cup {pkg[f] : f \in Files}]

Result(f) == Resolved(world, path_to_package, world.raw[f])

(* All tasks resolve against one and the same package database, however    *)
(* they race to load it: what a task has found, and what the cache keeps,  *)
(* is what the database in use says (or a failure to load it).             *)
OneDatabase ==
    \A f \in Files :
        /\ tpc[f] \in {"put", "valid", "add", "end"} =>
             pkg[f] = Result(f) \/ (LoadMayFail /\ pkg[f] = Invalid)
        /\ world.raw[f] \in DOMAIN cache =>
             cache[world.raw[f]] \in {Result(f)} \cup
                                     (IF LoadMayFail THEN {Invalid} ELSE {})

(* When the pool is gone the record has exactly the packages the files     *)
(* resolve to, by name, whatever the schedule was: no addDependency is     *)
(* lost to another; and each entry is one file's package, whole.           *)
RecordComplete ==
    closed =>
        LET valid == {f \in Files : IsValid(pkg[f])} IN
        /\ Keys(dependencies) = {pkg[f].name : f \in valid}
        /\ \A n \in Keys(dependencies) :
              \E f \in valid : dependencies[n] = pkg[f] /\ pkg[f].name = n

(* With two architectures of a package installed, a file is recorded with  *)
(* the version of the instance that owns it, not of the other one.         *)
OwnVersion ==
    \A f \in Files :
        LET q == FindOwner(world, path_to_package, world.raw[f])
            own == {world.stanzas[i].version : i \in
                      {j \in 1..Len(world.stanzas) : world.stanzas[j].full = q}}
            resolved == tpc[f] \in {"valid", "add", "end"} /\ IsValid(pkg[f])
        IN  resolved /\ q # NoQuery /\ own # {} => pkg[f].version \in own

(* Every file gets its turn and the pool closes, also when reading the     *)
(* package database fails: a failed load leaves nobody waiting.            *)
AllProcessed == <>closed

(* The record lists all the files the build used that no package owns      *)
(* (README.md: "lists all dependencies"), as they have no package that     *)
(* would stand for them.                                                   *)
CustomFilesKept ==
    closed => \A f \in Files :
        pkg[f].origin = "CUSTOM" => dependencies[pkg[f].name] = pkg[f]
=============================================================================
