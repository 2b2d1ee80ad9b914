# reprobuild: models and proofs

TLA+ models of [reprobuild](../src/README.md), the program that runs a build under a bpftrace
script, writes down what the build used and made (`build_record.yaml`, `build_graph.yaml`), and
lets it be done again. Paths in this file are relative to the repository's root.

Each module is a translation of the code it names; `PROJECT.json` has, per definition, the file and
lines. Properties are those a unit test can hardly reach: they need several threads or processes,
a particular order, a failure at a particular step, or a boundary.

    cd tla
    tlc -workers 2 -config pool.cfg ThreadPool.tla      # model-check, see "Runs"
    tlapm ThreadPoolProofs.tla                          # check proofs, see "Theorems"

## 1. The system

| Component (source) | State | Operations | Talks to |
|---|---|---|---|
| main (`src/main.cpp`) | options | parse options, then preprocess, track, postprocess, save, upload; or make a bundle | all |
| Preprocessor (`src/preprocessor.cpp`) | environment variables, extracted library, Makefile | `prepareBuildEnvironment`, `fixMakefile` | interceptor by environment; Canonicalizer |
| Canonicalizer (`src/canonicalizer.cpp`) | list of rules | rewrite `$(wildcard)`, `$(shell ls)` | Preprocessor |
| bpftrace script (`include/bpftrace_script.h`) | `@tracked`, `@path_parts` | probes of fork, execve, creat, openat | kernel; its log is read by Tracker |
| Tracker (`src/tracker.cpp`) | the log's text, timings | run the build traced, put streams together, parse lines, resolve files on a pool, find artifacts, build the graph | most |
| ThreadPool (`src/thread_pool.cpp`) | queue, `stop`, threads | construct, `enqueue`, worker loop, destructor | Tracker |
| DependencyPackage, DependencyResolver (`src/dependency_*.cpp`) | resolution cache, dpkg database | `fromRawFile`, cache, owner and version lookup, rpm | pool tasks; dpkg, rpm |
| BuildRecord (`src/build_record.cpp`) | dependencies by name, artifacts, commits | add, save, load | Tracker, Postprocessor, Bundle |
| BuildGraph (`src/build_graph.cpp`) | nodes, edges | `addNode`, `addEdge`, `pruneGraph`, save | Tracker |
| Interceptor (`src/interceptor.cpp`) | commits by URL, in each process | exec functions: run `git clone`, add compiler flags | the git log file |
| Postprocessor (`src/postprocessor.cpp`) | - | move the git log into the record, delete it | BuildRecord |
| Uploader (`src/uploader.cpp`) | store's address | test, zip, upload by hash | MinIO |
| Bundle (`src/bundle.cpp`) | staging directory | copy sources and custom dependencies, archive | BuildRecord |
| Utils, BuildInfo, Logger | values read at the start | hashes, environment, messages | all |

What is hard in it:

* **threads**: the pool's queue, wake-ups and shutdown; tasks that share a cache, a database loaded
  once on demand, and the record;
* **processes**: the build's processes are followed by task id while they fork, create threads and
  exit; their probes print in pieces into one log; any number of processes append to the git log;
* **order**: chunks alternate in the log; record entries overwrite each other; the edges of a graph
  are pruned before their nodes; a repository moves on while it is being cloned;
* **failure and time**: a log read after a fixed delay, attaching that times out, a database that
  cannot be read, a reprobuild that is killed.

## 2. Modules and the code

**`TaskRunner`** - abstract. What the users of a pool rely on: tasks are started in the order they
were submitted, at most `Capacity` at a time, each finishes once, and the pool closes only after that.

**`ThreadPool`** - `include/thread_pool.h`, `src/thread_pool.cpp`, and the part of
`Tracker::trackBuild` that uses a pool (`src/tracker.cpp:709-790`). One action per step between two
points where another thread can run: taking `queue_mutex`, testing the predicate, sleeping (which
gives the mutex up), waking, taking a task, running it; `enqueue` as lock, push, notify; the
destructor as lock, set `stop`, notify, join. `wpc` and `opc` are the program counters of the workers
and of the thread that owns the pool. Sleepers may wake for no reason; `enqueue`, or the
`emplace_back` that keeps its future, may throw.
`ImplementsTaskRunner` is the refinement.

**`DependencyTracking`** - the task `process_file` with all it calls: cache lookup, the file's existence,
the package manager, the function-local static `DpkgDatabase` (one loads, the others wait, a failed
load lets the next one try), owner and version lookup, cache store, `addDependency` under
`record_mutex`. The pool is seen as `TaskRunner`, which `ThreadPool` implements. A machine - file
system, package lists, status file - is chosen once (`world`). `addDependency` takes two steps,
so that a missing mutex would lose an update.

**`TrackedProcesses`** - the filters of the script's probes and the wait for "Attached" in
`Tracker::executeWithBpftrace`. `tracked` is `@tracked`; a task is known by its id, its process by
`group`. Forks are filtered by the thread's id, system calls by the process's, as in the script. Its proofs are in
`TraceFramingProofs`, with the other half of the script, so that its `Init`, `Next` and so on are `TPInit`, `TPNext`.

**`TraceFraming`** - what the probes print, the reading of the log, and
`Tracker::processBpftraceOutput`: `Streams`, a recursive function whose rounds are `ReadChunk`. Text is a sequence of
symbols (a process id, a word of a name, newline, the byte 0x80). `done` is what each process really
asked the kernel for, against which the parsed streams are compared.

**`BuildGraph`** - adding edges, and `pruneGraph`: the loop that keeps the best edge per output, the
breadth-first search from the artifacts, the sweep of edges, and the sweep of nodes. An edge is known
by its index. `Needed` is an independent definition (a least set closed under "made from") of what
the search has to find.

**`TraceReading`** - the passes of `Tracker::trackBuild` over the trace: libraries, headers, executables, then
the files created and which of them are artifacts; path mapping, ignore rules and display names. A path is a
sequence of names. Each pass looks at the file system again (`fs`), which may lose files meanwhile
(`Vanish`). `flags`, uninitialised when a line ends early, is a choice. What lines stand for (`Named`) is
defined apart from the code's matching of strings; the processes' directories (`cwd`) are in it and not in
the trace. What the properties need of a machine and a build is defined beside them (`OneMappingEach`, `PatternsFit`,
`RelativePathsAreHere`, `OneSpelling`), and is the premise of the theorems. Its names begin with TR where
`DependencyTracking`, which shares a module of proofs with it, has the same (`TRInit`, `TRSpec`).

**`CommandParsing`** - `Tracker::parseBuildGraph`: the lines of the trace in blocks per process, blocks in
any order (they come from an `unordered_map`); tool names; the three loops over arguments with their flags;
`ensure_node`. An argument is a word with a `Kind`, which stands for its dash and its extension. What the
edges should be is defined apart from the loops, by the conventions of the tools (`EdgeOf`); for `ar` they are operation,
archive, members (`ArIsConventional`). It implements the parsing phase of `BuildGraph`, with at most
`Cardinality(Pids) * MaxExecs` edges.

**`GitClones`** - `handle_git_clone` step by step in a build and a rebuild, the log of clones, the
Postprocessor, and several reprobuilds on a machine, any of which may be killed. The code goes by git's announcement
and not by its status: a clone may fail after it (`CloneFails`), or be of an empty repository, and whatever rev-parse or
its shell says then (`OtherText`) is logged like a commit. The build may try such a clone again, `MaxVain` times.
That the user makes the rebuild's log from the record is README.md:114.

**`MakeText`, `Makefile`** - `Canonicalizer` and `Preprocessor::fixMakefile`. `MakeText` rewrites one line, a
sequence of tokens, by the code's recursion, written as a recursive function: `CanonicalizeOnce` is one round of it,
given what becomes of shorter texts, and `CanonicalizedUpTo[n]` what becomes of those of up to n tokens; `ListingsSorted` and `Unsorted` say apart from it what a line should
have and what it had. `Makefile` finds the file, rewrites it in place (opened, which empties it; flushed; closed, on a full disk without what is left to write) and
runs make, which looks for its file in an order of its own. Builds follow each other and are killed anywhere.

**`InterceptedExec`** - from a program that calls `exec` or `posix_spawn` to the program that is run:
`prepareBuildEnvironment` of up to `Depth` reprobuilds in each other, or in the shell of a rebuild; one library
per level, each handing the call to the next; compiler flags, of which a library adds `MaxFlags` (63) at most; the clone
each library makes of a `git clone`, what git announces (something else for `--bare`), whether it then fails, what
rev-parse or its shell answers (`Answers`), and what the caller is told. One path through the tree of processes is followed. A word of a command line has the level of
the reprobuild that added it.

**`RecordFile`** - `saveToFile` and `loadFromFile`. A file is a map from its four sections, in their order, to what is in
them; `Beginnings` is what it may hold before all of it is written: the sections before a place, part of the one there,
or a dependency whose last key lost letters.

**`Uploader`** - `uploadCustomDependencies`: for each file of no package, in the order of names, whether it is there,
whether its object is, zip, put, remove. Reprobuilds share files, the zips next to them and the store, and may end
anywhere. A content is its own hash. The server, `zip` and `curl` may fail at every use (`faulty`).

**`Bundle`** - `handleBundle` and `createBundle`: load, stage, copy, save, archive, remove; each may fail. A tree that is
`gone` is left out of the archive, with success all the same.

**`Pipeline`** - `main` after the build command is known, over `Bundle` and `Uploader`: start, track, postprocess,
write the record (on a full disk, too: `CloseFullDisk`), the graph, upload, with every way out. It implements `UploadSpec`, the uploads alone.

    TaskRunner <- ThreadPool          Uploader <- Bundle (with RecordFile) <- Pipeline
    TaskRunner <- DependencyTracking  MakeText <- Makefile      BuildGraph <- CommandParsing

**`MC*`** modules hold the small instances; `MCPlainFraming` and `MCPlainReading` add to theirs the assumption that they satisfy
the hypotheses of the theorems about them. **`*Proofs`** modules have the proofs. Definitions that stand before another
one without a comment of their own (`NoMutex` before `MutexFree`) are the mutations `PROJECT.json` lists: a run fails
when they take the other's place. No module uses a RECURSIVE
operator; what is recursive in the code is a recursive function. The only assumptions on constants are the named ASSUMEs,
which say what the constants are (types, distinct names).

## 3. Runs

Types are proved, for all values, of the modules of `pool`, `tracking`, `processes`, `framing`, `graph`, `git`, `reading`, `makefile`,
`exec` and `publish` (see "Theorems"), and checked in `reading`, `makefile`, `exec` and `publish`; `parsing` maps its state to that of `BuildGraph`.

| Run | Shows | Instance |
|---|---|---|
| `pool` | `EachTaskOnce`: a task is queued, with one worker, or ready, and never two of these. `WorkConserving`: one `notify_one` per push loses no wake-up. `NoSleeperAtShutdown`: `join()` never waits for a sleeper. `TasksUseLiveLocals`: no task runs after the locals it refers to are gone. `Termination`, `EnqueuedIsServed` (also when stopped with a full queue). `ImplementsTaskRunner` | 3 workers, 4 tasks, the loop may throw anywhere |
| `tracking` | `OneDatabase`: racing tasks all use one database, or fail to load it. `RecordComplete`: no `addDependency` is lost. `OwnVersion`: the right architecture's version. `AllProcessed`: a failed load leaves nobody waiting | 3 files, 2 threads, 96 machines, loading may fail |
| `processes` | `BuildIsTraced` and `OnlyBuildIsTraced`: exactly the build's processes are seen, whichever thread created them | 5 ids |
| `framing` | `TraceIsTruth`: the streams are what the processes did, word for word, or a prefix of it if the log was cut | 2 processes, all calls, `chdir` between opens, both loops' limits at 2 |
| `graph` | `KeepsWhatIsNeeded`: exactly the best edges the artifacts depend on. `NodesMatchEdges`: no edge without nodes nor node without edge. `Terminates`, on cyclic graphs too | every sequence of up to 4 of 7 commands, 4 sets of artifacts |
| `reading` | `DependenciesAreUsesOutside`: what goes to the pool is what the build used from outside, however spelt or mapped. `ArtifactsAreWhatWasMade`: the artifacts are the programs and libraries created, each once, with its hash; only cut lines and deleted files make a difference, and only their own | traces of two of 26 lines and two long ones, 3 mappings, 2 files that may be deleted |
| `parsing` | `EdgesAreTheCommands`: each process's edges are its commands in order, no flag's value taken for a file. `TypesFollowUse`: types of nodes agree with their use whatever the order of the blocks. `ImplementsGraph` | compiler lines of up to 5 words, and 8 projects on 3 processes in every order |
| `git` | `RecordsOwnClones`: a record lists every commit that build cloned; all it may list besides is what killed builds left and what was said of clones that got no commit. `SameSources`: a rebuild gets the commits the build had, whatever else is recorded | 2 builds with one log, either of which may be killed, 3 clones, each of which may fail once, 2 repositories with up to 2 commits |
| `makefile` | `NothingElseChanges`: rewriting a line only adds sorting, whatever is nested in what or not closed. `Settled`: it is added once, over builds and kills. `WholeOrTorn`: a Makefile is the old, the new, or a beginning of the new if reprobuild was killed writing it or the disk was full. `MakeReadsSorted`: make reads no unsorted listing, but of a Makefile that was cut | 2 builds in 127 trees, expressions 3 deep, a token missing anywhere |
| `exec` | `ArgsKept`: a program's own arguments come last and whole. `EveryLevelsFlags`: a compiler has the flags of each reprobuild around it that a library has room for, and with room for all the innermost's last. `ClonesLoggedOnce`: an announced clone has one line in the log of its build however often it was handled and tried again; a call that made none has at most one, without a commit | 2 calls, 3 reprobuilds in each other or in a rebuild's shell, room for 5 of their 6 flags, wrappers, paths tried in turn, emptied environments, bare clones, clones that fail |
| `publish` | `StoredUnderItsHash`: an object holds the content it is named after. `RecordsAreWhole`: a whole record is a build's, and none is torn but by a kill or a full disk. `UploadedUnlessFaulty`: builds racing for one zip still get all files stored. `NothingLeftBehind`: zips and directories are removed. `BundleHoldsItsRecord`: a bundle holds the record it loaded, its tree unless that was gone, and its files; bundles made at the same time do not mix | 2 builds in 1 or 2 trees, 2 bundles, one edit, deletion or removed tree, one kill or full disk |

Deadlock is checked in all of them but `git`, where a build need not clone all it may clone
and a killed reprobuild stops. Where a program has ended (the pool's scope left, the build ended) an
explicit stuttering disjunct says so.

**Bounds.** Four tasks on three workers let a queue form while one worker sleeps, one waits for the mutex and one
runs; the theorems are for any number of both. Three files on two threads give a task that
loads, one that waits and one that comes later; two of the paths may be one file (a symbolic link). Five ids are
reprobuild, a stranger, and a child, a thread and a grandchild. Two processes are enough for chunks to
alternate, and the loops' limits 64 and 63 become 2, which the directories and argument lists reach.
Four edges give a chain of three steps with a rival for one of its outputs, and cycles. Two lines of a trace are enough for one file under two
paths, and what one line does does not depend on the others. Five words hold a flag with its value,
an output and an input. Two commits, the first of which a repository may lack, let it move between clone and `rev-parse`, or before the rebuild; a clone that
fails once and is then made has both its lines.
Two builds let the second find what the first, killed or not, has left of a Makefile; three deep is one more than a function
and its parent. Two calls are a compiler through a wrapper or a clone tried at a second path, and three levels have a first, a middle and a last one
with one flag too many. Two builds that use one file race
for its zip, its object and, in one tree, the record. What a bundle does is taken when no build is under way: it reads its
record at any moment before, and after that shares only the edited files with builds. Edits between two steps of an upload
are deletions (see the preconditions).

### Violations

`tracking_names` shows the code doing what its documents rule out (`findings` quotes both): `CustomFilesKept` fails, since
two files that no package owns, with one base name, are one entry of the record; which one depends on the schedule.

### Preconditions of the passing runs

The passing runs hold under conditions: constants, the inputs of the `MC*` modules, or a guard or a premise
of a property. Changing one as listed makes TLC show what the code does without it (for `framing.cfg` and `reading.cfg` run
`MCTraceFraming` and `MCTraceReading`, which lack the assumptions of the `MCPlain*` modules):

| Change | Property that fails | Why |
|---|---|---|
| `TasksUseLiveLocals` without `gets = NumTasks` | itself | `enqueue` or the `emplace_back` after it (`src/tracker.cpp:770`) throws: unwinding destroys `record_mutex` before the pool (declared earlier) is joined |
| `processes.cfg`: `MaxTracked = 2` | `BuildIsTraced` | `@tracked` (65536 keys) keeps an entry for every task the build ever made; once it is full, new ones go untraced |
| `processes.cfg`: `IdsAreReused = TRUE` | `OnlyBuildIsTraced` | entries of dead tasks stay, and the kernel gives their ids to others |
| `processes.cfg`: `AttachMayTimeOut = TRUE` | `BuildIsTraced` | after the timeout the build is started untraced |
| `framing.cfg`: `Names <- OddNames`, `Programs <- OpenOdd` | `TraceIsTruth` | a byte 0x80 in a name ends a chunk early; `stoi("")` may throw |
| `framing.cfg`: `Dirs`, `StartDirs <- MountedDirs`, `Programs <- OpenOne` | `TraceIsTruth` | the walk up the directory stops at the mount point |
| `framing.cfg`: `Threads = {1, 2}`, `Process <- OneProcess`, `Programs <- OpenOne` | `TraceIsTruth` | chunks carry the process's id: lines of two threads that open files at once mix |
| `framing.cfg`: `MaxParts = 1` | `TraceIsTruth` | a directory deeper than the script's loop loses its first parts |
| `PlainPrograms`: a call `RelativeTo(ShallowDir, <<"b">>)` | `TraceIsTruth` | `dfd` of `openat` is not looked at |
| `MCCommandParsing`: `Archive == Run(ar, <<"rcs", "foo", "x.o">>)` | `EdgesAreTheCommands` | the archive is the first word with an extension: without one, the first member is taken for it |
| `MCTraceReading`: lines of `Creat(R(<<"tool">>), ...)` and of an `openat` that creates `/proj/tool` | `ArtifactsAreWhatWasMade` | `creat` is traced with the path as given: one file, two artifacts |
| `MCTraceReading`: `Creat(R(<<"app">>), <<"proj", "CMakeFiles">>)` | `ArtifactsAreWhatWasMade` | the relative path is looked up in reprobuild's own directory |
| `MCTraceReading`: `Exec` with a `cwd` of `/opt` and the path `cc` | `DependenciesAreUsesOutside` | programs run by a relative path are ignored, outside the build directory too |
| `reading.cfg`: `SiblingNames = {"proj", "proj2"}`, `Traces <- SiblingTraces`, `FilesAtEnd <- SiblingFiles` | `DependenciesAreUsesOutside` | `contains(path, build_path_)` |
| `MCTraceReading`: a program in `/opt/tmp` | `DependenciesAreUsesOutside` | `contains(path, "/tmp/")` |
| `reading.cfg`: `IgnoredDirs = {"tmp", "proj"}` (a build below `/tmp`) | `ArtifactsAreWhatWasMade` | every artifact of the build is ignored |
| `RecordsOwnClones` without its last disjunct (`l.commit = OtherText ...`) | itself | rev-parse runs whether the clone was made or not, and the shell's error is logged as the commit |
| `RecordsOwnClones` with `RunOf[c] = r` for `LeftTo(...)` | itself | a killed build's log is read as part of the next one's |
| `git.cfg`: `MayOverlap = TRUE` | `RecordsOwnClones` | two builds in the default log directory read and delete each other's log |
| `git.cfg`: `Shallow = {1}` | `SameSources` | a shallow clone has no older commit to reset to |
| `git.cfg`: `Args <- BranchArgs` (`clone -b dev URL`) | `SameSources` | the branch is taken for the URL, so repositories share a key and the rebuild keeps the newest commit |
| `git.cfg`: `Clones = {1, 2}`, `Repo <- TwiceRepo`, `Args <- TwiceArgs` | `SameSources` | one URL, two commits: the map has the last |
| `MCMakefile`: `$(shell ls $(shell ls x))` | `MakeReadsSorted` | the `\| sort` of the inner one is taken for one of the outer |
| `MCMakefile`: a tree with a `GNUmakefile` beside its `Makefile`, or a command with `cd = ""`, `where = "sub"` (`make -C sub`) | `MakeReadsSorted` | the order of names is not make's; only `cd` is looked for |
| `Evaluated` without its condition on names, `MCMakefile`: `$(x$(wildcard y) z)` | `MakeReadsSorted` | only arguments are rewritten |
| `ClonesLoggedOnce` without `Len(c.log) = 1` | itself | `appendEnvVar` joins the two values of `REPROBUILD_LOG_GIT_CLONES`, too: there is no such file |
| `ClonesLoggedOnce` without `~c.bare` | itself | `Cloning into bare repository` is not what the library looks for |
| `EveryLevelsFlags` without `2 * ... <= MaxFlags` | itself | a library adds 63 flags and no more: the innermost level's are dropped first |
| `Edit` without its second conjunct (a file written between its hash and its upload) | `StoredUnderItsHash` | the file is read again, the hash is not |
| `NothingLeftBehind` with `Foreign` kept | itself | the user's own `<file>.zip` is uploaded with the file and removed |
| `publish.cfg`: `SecondOf <- MCOneSecond` | `BundleHoldsItsRecord` | one directory for two bundles: the second, and an unseeded `std::rand()` |
| `BundleHoldsItsRecord` with `{path} \ {""}` for `Existing(path)` | itself | a tree that is gone is left out, with a warning |
| `RecordsAreWhole`, `WholeOrTorn` without the full disk | themselves | nobody looks at the stream's state after the writing |
| `MCPipeline`: both bundlers make `out.zip` | `BundleHoldsItsRecord` | `zip` keeps the entries it does not replace |

Outside the models, so that no property speaks of it: two builds of one tree rewriting its Makefile at the same time
(both write it in place); Makefile lines continued by a backslash (each is rewritten by itself, and a `$(` not closed on its line
is left), and a `| sort` inside a function's name, at whose space the code would split; `${wildcard ...}` with braces, which the code
does not look for; a space in a compiler flag (flags are split at every space); programs reached by `execl` or `posix_spawnp`,
which are not intercepted. A compiler whose name is not on the list (`gcc-12`) is modelled, and gets no flags.

### Fairness

* `ThreadPool`: weak fairness of every worker and of the owner. Threads are scheduled by the kernel,
  `process_file` ends and catches what it throws, and the mutex is handed on. Sleepers wake for no
  reason only finitely often. No strong fairness is needed.
* `DependencyTracking`: weak fairness of submitting, starting and every task's steps; the pool's part
  is what `pool` shows of `ThreadPool`. Loading may fail any number of times, since a task that
  saw it fail does not try again.
* `BuildGraph`: weak fairness of `Next`: `pruneGraph` is sequential code that keeps running.
* The other modules state safety only, and no fairness.

## 4. Theorems

TLAPS proves these for every value of the constants the ASSUMEs allow. Where the code needs a condition the theorem
states it: it is one of the preconditions above.

| Module | Theorem | Argument |
|---|---|---|
| `ThreadPoolProofs` | `PoolTypes`, `NobodySleepsThroughShutdown` | `ControlInv`: who holds the mutex by program counter, and what each counter says of `stop` and the queue. A worker about to sleep holds the mutex with `stop` false, so `stop` cannot be set in between |
| | `TaskRunsOnce` | `TaskInv`: the queue holds the tasks `Taken + 1 ..` in order; those up to `Taken` are with exactly one worker or ready |
| | `LocalsOutliveTasks` (once every future was waited for) | the same invariant: those tasks are ready, and no worker runs a task that is |
| | `NoWakeUpIsLost` | the property is inductive given `ControlInv`: counted over the workers on their way to the queue, with a lemma on the cardinality of a set that loses or gains one worker |
| | `PoolImplementsTaskRunner` | initial states map to initial states; each step maps to Submit, Start, Finish, Close or a stutter |
| `DependencyTrackingProofs` | `RecordIsComplete` | `RecordInv`: only the mutex's holder is inside `addDependency`, what it saw is still the record, and every ended task's package has its entry. Assumes only that tasks run as `TaskRunner` says |
| | `TasksShareOneDatabase` | `DatabaseInv`: at most one task is loading, tasks look up only when the database is ready, and it never changes after that |
| | `VersionsAreOwn` (assumes `StanzasAreApart`) | from `DatabaseInv`, as a valid package of a task is what the lookup yields: the last stanza that mentions the queried name is there (`LastPosition`), has a version, and is the package's own |
| | `TrackingTypes` | `RecordInv`, which types packages and names, and `Shared`: cached paths are those of files, and the mutex is a task's or free |
| | `ReadingTypes` | of `TraceReading`. `KeptInv`: what is kept is normal, because `Normal` gives only such paths (`WalkClean`). Normal forms, like other recursive functions here, go by `Recursion` and `Climb` (see `CommandParsingProofs`) |
| | `DependenciesAreUses` (assumes `OneMappingEach`, `PatternsFit`, `RelativePathsAreHere`) | `DependInv`: a pass has taken, of the lines it has read (`Read`), the files they name, but for deleted ones. `HereIsNamed`: the longest matching prefix is that of the innermost mapped directory, so mapping gives the file the process named |
| | `ArtifactsAreMade` (assumes those and `OneSpelling`) | `ArtifactInv`: a file that must be an artifact is still to be checked, about to be hashed, or shown (`Seen`), and every artifact is the record of one candidate that is not. `CreatedFile`, `CandidatesApart`: a file has one path among the candidates and its own display name - for a relative path because normalizing before or after it is put behind the directory is the same (`WalkLater`) |
| `BuildGraphProofs` | `GraphTypes` | types, and empty search variables before the search |
| | `PruneIsExact` | `BestInv` (best so far, first among equals), `SearchInv` (visited paths are needed, and those not waiting are expanded), `KeptInv` |
| | `GraphIsWhole` | until the end every path of an edge has a node; the last sweep keeps exactly the referenced ones |
| `TraceFramingProofs` | `TaskTypes` | `FamilyInv`, which the other two rest on, and a lemma: a hash that takes no key when it is full never exceeds its capacity |
| | `WholeBuildIsTraced` (assumes `Unhurried`: the hash has room for every id, attaching does not time out) | the ids of the build's live tasks and of their groups are in `tracked` |
| | `NothingElseIsTraced` (assumes `~IdsAreReused`) | `tracked` is a subset of the build's ids |
| | `FramingTypes` | `ProbeInv`: where a probe is tells the range of `$i`, and that a call is still to do with what the probe needs of it |
| | `StreamsAreTheTruth` (assumes `Plain`) | `TruthInv`: the log is whole chunks (`Heard`), and every thread has said the first `Said(t)` pieces of the line its call is (`Between`). A lemma per action: what it prints is the next piece (`Pieces`, which together are `Line`). `HeardIsRead`: of a log of whole chunks cut anywhere `Streams` gives what was said up to the last whole chunk. It goes by the rounds from the last to the first (`Climb`, by a least counterexample), and rests on the existence of the recursive function (`StreamsFrom`) |
| `CommandParsingProofs` | `EdgesOfCommands` (assumes `ArIsConventional`) | `ParseInv`: the lines are blocks, one per process, in some order and at some offsets (`Shape`), the line being read is a certain command of a certain block (`Place`), and the edges of each process are those of its commands up to there (`SoFar`). `ReadingOf` says what a loop over arguments knows at each round, by the places of flags' values (`ValuePlaces`) instead of by flags carried along; `LoopEnds` concludes that it ends with `EdgeOf`. What recursive functions compute goes by `Recursion` (the function exists) and `Climb` (a least counterexample) |
| | `ParsingImplementsGraph` (assumes `ArIsConventional`) | the same invariant: an edge that is added is in `CommandEdges`, and by `Place` there are at most `(b - 1) * MaxExecs + k - 1` before it |
| | `TypesOfNodes` | `TypesInv`: the typed paths are those of the edges, each typed by one of its uses. Of any commands |
| `MakefileProofs` | `MakefileTypes`, `MakefilesAreWhole` | `TreeInv`: a file is what it was or among the `Cuts` of its rewritten form, and so are the lines about to be written. The beginnings of a beginning are beginnings (`CutsAgain`), so what a killed build leaves is never taken for more than a part of the new file |
| | `RewritingSettles` | the same invariant and `BeginningsStay`: rewriting changes no beginning of a rewritten line, of any tokens. A text has no expression, one that is not closed, or is `b$(s)r` with as much closed as opened in s (`Forms`; depths of texts add up, `NetConcat`, `AboveConcat`), and the rewriting is known for each form (`ComesNone`, `ComesOpen`, `ComesClosed`). `AllGood`, by the length of the text: what it becomes is as deep as it was, so it stays closed or open in what is around it, and `Stays` as it is, and every beginning of it, whatever follows that opens and closes nothing - the `\| sort` of a `$(shell ls ...)` is such an end |
| | `MakeReadsWhatIsSorted` (assumes `OwnMakefile`, `LinesAreSorted`) | `ReadyOK`: when make runs, the one Makefile of its directory is rewritten or torn. fixMakefile and make find a file if there is one, in either order (`FoundIs`) |
| `PipelineProofs` | `ObjectsAreTheirHash` | of `UploadSpec`. `Current`: a file that somebody is to upload still has the content it was hashed with, or is gone; `Agreement`: all who took a file have one hash for it; `Zipped`: the zip about to be put holds that content and nothing else of its file |
| | `PipelineUploads` | every step of main, of an edit and of a bundle is a step of `UploadSpec` or leaves its variables alone |
| | `StoreIsSound` | from the two: of the whole program |
| | `RecordsStayWhole` | `BuildInv` ties each build's counter to what it has taken (`TakenIsResolved`), to the file it writes (`FilesOK`) and to the other builds of its tree (`Apart`: one at a time). That a whole file loads as the record written needs the round trip through `RecordFile`: sorting by rank loses no dependency of a finite record with distinct paths, and each origin comes back as it was |
| | `UploadsAreDone` | `UploadsOK`, of the same invariant: while a build uploads, each file it took is still to do or its object is there, unless a fault or an edit is to blame |
| | `AllIsCleaned` | `ZipsAreUsed`: a zip is there only while somebody is between making and removing it. `StagingOK`: a directory belongs to the one bundle of its second that has made and not removed it |
| | `PipelineTypes` | from the invariants of uploads, builds and bundles |
| | `BundlesAreOfTheirRecords` (assumes `ZipsAreApart`, `SecondsApart`; a tree that is gone is left out) | `BundleInv`: a staging directory holds so much of the record its bundle loaded as the bundle has copied; `ArchivesOK`: the archive is empty of dependencies before and holds that directory after |
| `InterceptedExecProofs` | of `InterceptedExec`: `ExecTypes`, `ArgumentsAreKept`, `EveryLevelIsHeard` | `ExecInv`. `EnvOK`: the environment has the flags of the levels it was prepared by, in order, the innermost's last (`Full`); a library adds the first `MaxFlags` of them. `CallOK` and `ImageOK`: an argv is the program's name, flags, and what was given (`Extended`); it is full once the call has passed a library, and more flags keep it so (`MoreFlags`). That a call meets as many libraries as are loaded is what makes the flags arrive |
| | `ClonesHaveOneLine` | `LogsOK`: every line is of a clone or of a call that made none (`LineOK`), and every clone is `Settled` - has the one line it should have - but for the one just made whose output the innermost library has yet to see, and that library is the only one to see it |
| | of `GitClones`: `CloneTypes` | `Typed`: how far a clone is tells whether it has its commit and, from `rev-parse` on, that this is the one to be logged; `TextIsVain`: a line without a commit is of a command that got none |
| | `RecordsAreOwn` (assumes `Alone`: runs with one log do not overlap) | `OwnInv`: the lines of a log are those of the one run that uses it, which has one line per clone it logged, of failed clones (`OtherText`), and of killed runs that had the log before (`LeftTo`); the record holds them once the log is read |
| | `RebuildsAreSame` (assumes `Alone` and `OnePerKey`: no shallow clone, no repository twice in a build) | killed builds and failed clones included. `SourceInv`: a rebuild's clone holds all commits its record names; with one line per key the last one is the clone's own (`LastIsThere`: a set of positions has a greatest) |

**Only model-checked.** Liveness (`Termination`, `EnqueuedIsServed`, `AllProcessed`, `Terminates`): fairness
and ENABLED are beyond the prover. `NothingElseChanges`: what is left of a line when its sorting is taken out again
(`Unsorted`) is given by `SelectSeq`, of which the library has no theorem. Of `MakeReadsSorted`, that a rewritten line has its listings
sorted: for which lines this is so the preconditions say, and TLC evaluates it on those of the run. `CustomFilesKept` is the
property the code violates.

**Assumptions.** Named ASSUMEs say what constants are. Those that exclude something a machine could do: `PipelineAssumption`, that a build uses finitely many files; `ExecAssumption`, that a wrapper
has the name of the program it runs (ccache's links do) and that a path of a program is none of the shell's;
`ReadingAssumption`, that a mapped local directory is written without a slash at its end. Theorems state the rest as hypotheses, each
of which the instance of its run satisfies: `StanzasAreApart` (a name without architecture that a file list of dpkg has is that of one
stanza; configuration files left by another architecture's package break it, and the last stanza's version is recorded),
`ZipsAreApart` (bundles do not make one zip), `SecondsApart` (nor begin in one second), `Plain` (one thread per process, no byte 0x80 in a name, directories on the
root file system and no deeper than the script looks, names relative to the working directory; without any of these
`TraceIsTruth` fails, as the preconditions show), `Unhurried`, `~IdsAreReused`, `Alone`, `OnePerKey`, `ArIsConventional`,
`OwnMakefile` (make runs where fixMakefile looks and each directory has one Makefile) and `LinesAreSorted`, which fail with the lines and trees of the
preconditions on `MCMakefile`;
for traces `OneMappingEach` (no directory is mapped twice: which entry `std::sort` puts first is open), `PatternsFit` (the
substrings the code looks for in paths occur where it means them, and the build is not below `/tmp` or the like),
`RelativePathsAreHere` and `OneSpelling` (`execve` and `creat` give paths as written: the first three rows on `MCTraceReading` in the preconditions).

## 5. What is external or abstracted

* bpftrace is taken to write chunks in the order of the printfs and to run a probe's statements in
  order; the kernel's ids, forks and `chdir` are modelled as the script sees them.
* `TrackedProcesses` begins when the script is written: if its file cannot be created no build is run (`src/tracker.cpp:274-278`)
  and nothing is to be traced.
* dpkg's files, rpm's answers and hashes are values of `world`; that two tasks may ask at once is modelled,
  how the answer is parsed is not.
* Commits of a repository are numbered by age; a full clone has all up to its own.
* Words of a command hold no white space (`nextToken` would split them) and a command has fewer words than the
  script's loop prints; beyond that the last words, an `-o` among them, are missing from the trace. Paths are
  compared as spelt, so relative paths from two directories share a node.
* Of a record's YAML the sections and their order are modelled, and what survives a cut; its spelling is not.
  A record cut in the middle of a path or a commit is not told apart from one cut before it.
* Not modelled: log messages, timings, curl command lines, hashes' values. Of Utils and BuildInfo, what changes the
  environment or the record is part of the modules that use it; the rest, and Logger, has no behaviour over time.
  `interceptor_embedded.h` is generated bytes; `tools/` are drivers of experiments which the program does not use.

## 6. Plan

Done, in this order: `TaskRunner` and `ThreadPool`, `DependencyTracking` over `TaskRunner`, `TrackedProcesses`, `TraceFraming`,
`BuildGraph`, `GitClones`, `CommandParsing` over `BuildGraph`, `TraceReading`, `MakeText` and `Makefile`, `InterceptedExec`,
`RecordFile`, `Uploader` and `Bundle` under `Pipeline`; proofs of all of them.

To come:

1. `TraceReading` composed with `TraceFraming` (which lines may be cut) and `DependencyTracking` (which takes
   `files`).
2. `execl`, `posix_spawnp` and a tree of processes instead of one path in `InterceptedExec`.

The list of `hazards` in `PROJECT.json` says, for each place, which property covers it or why none does.
