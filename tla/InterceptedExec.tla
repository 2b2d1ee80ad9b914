--------------------------- MODULE InterceptedExec ---------------------------
(***************************************************************************)
(* What happens between a program of a build that runs another and the one *)
(* that is run: reprobuild's environment (src/preprocessor.cpp) has every  *)
(* process load the library of src/interceptor.cpp, which gives compilers  *)
(* more flags and runs git clone itself.                                   *)
(*                                                                         *)
(* A build may run reprobuild again: its variables already have values,    *)
(* which are extended, and its processes load two libraries, one calling   *)
(* the other.  Programs may pass an empty environment on, try one path     *)
(* after the other, and be wrappers that run the real compiler.  What is   *)
(* followed is one path through the tree of processes.                     *)
(*                                                                         *)
(* A word of a command line is <<text, level>>; level 0 is the user's.     *)
(***************************************************************************)
EXTENDS Naturals, Sequences, FiniteSets, SequencesExt, FiniteSetsExt

CONSTANTS
    Depth,          \* bound on the reprobuilds in each other
    Paths,          \* path names of programs, with what is known of them:
    Base,           \*   the last part of each
    Installed,      \*   those that can be run
    Bare,           \*   those without a directory, which only exec looks up
    Wrappers,       \*   those that run another program, and its path
    Arguments,      \* what programs are given
    MaxFlags,       \* flags a library adds at most, 63
    MaxCalls        \* bound on the exec and spawn calls of the build

(* A wrapper has the name of what it runs, whose place it takes.           *)
ASSUME ExecAssumption ==
    /\ Installed \cup Bare \subseteq Paths /\ DOMAIN Wrappers \subseteq Installed
    /\ "sh" \notin Paths
    /\ \A p \in DOMAIN Wrappers : /\ Wrappers[p] \in Installed \ DOMAIN Wrappers
                                 /\ Base[Wrappers[p]] = Base[p]
    /\ \A a \in Arguments : a \in Seq(ToSet(a))
    /\ Depth \in Nat /\ MaxCalls \in Nat /\ MaxFlags \in Nat

Word(text) == <<text, 0>>
NoEnvironment == [flags |-> <<>>, cflags |-> <<>>, log |-> <<>>,
                  preload |-> <<>>, stage |-> "unset", epoch |-> 0]

VARIABLES
    level,      \* reprobuilds that have begun
    known,      \* those whose variables the processes still have
    env,        \* the environment of the process: variables are word lists
    libs,       \* interceptors the process has loaded
    image,      \* what runs in it: path, argv, and whose flags are due
    given,      \* the arguments somebody meant it to have
    pc,
    call,       \* the call under way: fn, path, argv, whether env is emptied
    at,         \* the library it is in, in the order they were preloaded
    output,     \* what the clone run by the library below printed
    clones,     \* the clones made, with the call, log and stage at the time
    logs,       \* lines of the logs, with the call and library they are of
    calls

vars == <<level, known, env, libs, image, given, pc, call, at, output, clones,
          logs, calls>>
processVars == <<level, known, env, libs>>
cloneVars == <<output, clones, logs>>

Shell == [path |-> "sh", argv |-> <<Word("sh")>>, due |-> {}]
NoCall == [fn |-> "exec", path |-> "", argv |-> <<>>, empty |-> FALSE]

(* The user's shell, in which CFLAGS may be set, or that of a rebuild, in  *)
(* which the library is loaded and the log of the build named by hand.     *)
Init ==
    /\ level = 0 /\ known = {}
    /\ env \in {[NoEnvironment EXCEPT !.cflags = <<Word("-O2")>>],
                [NoEnvironment EXCEPT !.preload = <<0>>, !.log = <<0>>]}
    /\ libs = Len(env.preload)
    /\ image = Shell
    /\ given = <<>>
    /\ pc = "running"
    /\ call = NoCall /\ at = 0
    /\ output = "" /\ clones = {} /\ logs = {}
    /\ calls = 0

-----------------------------------------------------------------------------
(* prepareBuildEnvironment *)

SetEnvVar(existing, value) == value
(* Joined by a space, at which whoever reads the variable splits it; but   *)
(* the interceptor does not split the name of the log.                     *)
AppendEnvVar(existing, value) == existing \o value

CompOpts(l) == <<<<"-ffile-prefix-map", l>>, <<"-frandom-seed", l>>>>

(* SOURCE_DATE_EPOCH stays as it is if date cannot read the timestamp, and *)
(* LD_PRELOAD if the library cannot be written.                            *)
PrepareBuildEnvironment(l, dated, extracted) ==
    [flags   |-> AppendEnvVar(env.flags, CompOpts(l)),
     cflags  |-> AppendEnvVar(env.cflags, CompOpts(l)),
     log     |-> AppendEnvVar(env.log, <<l>>),
     preload |-> IF extracted THEN AppendEnvVar(env.preload, <<l>>) ELSE env.preload,
     stage   |-> "build",
     epoch   |-> IF dated THEN l ELSE env.epoch]

Reprobuild ==
    /\ pc = "running" /\ level < Depth /\ image.path \notin DOMAIN Wrappers
    /\ level' = level + 1 /\ known' = known \cup {level + 1}
    /\ \E dated, extracted \in BOOLEAN :
          env' = PrepareBuildEnvironment(level + 1, dated, extracted)
    /\ libs' = Len(env'.preload)
    /\ image' = Shell
    /\ given' = <<>>
    /\ UNCHANGED <<pc, call, at, cloneVars, calls>>

-----------------------------------------------------------------------------
(* A program calls exec in a child or spawn. *)

Calls(fn, path, argv, empty) ==
    /\ calls < MaxCalls /\ calls' = calls + 1
    /\ call' = [fn |-> fn, path |-> path, argv |-> argv, empty |-> empty]
    /\ at' = 1 /\ pc' = "library"
    /\ UNCHANGED <<processVars, image, output, clones, logs>>

(* It may pass CFLAGS on, as make does. *)
Run(fn, path, args, empty) ==
    /\ pc = "running" /\ image.path \notin DOMAIN Wrappers
    /\ given' \in {args, env.cflags \o args}
    /\ Calls(fn, path, <<Word(Base[path])>> \o given', empty)

(* A wrapper hands on all it got. *)
RunReal ==
    /\ pc = "running" /\ image.path \in DOMAIN Wrappers
    /\ Calls("exec", Wrappers[image.path], image.argv, FALSE)
    /\ UNCHANGED given

(* A shell tries the next path when exec returns, whatever it returns.     *)
TryNext(path) ==
    /\ pc = "returned" /\ call.fn = "exec"
    /\ Base[path] = Base[call.path]
    /\ Calls("exec", path, <<Word(Base[path])>> \o given, call.empty)
    /\ UNCHANGED given

GiveUp ==
    /\ pc = "returned"
    /\ pc' = "running" /\ call' = NoCall /\ at' = 0
    /\ UNCHANGED <<processVars, image, given, cloneVars, calls>>

-----------------------------------------------------------------------------
(* The library's functions, once in each library loaded. *)

Options == {Word("-q"), Word("--bare")}

IsClone(argv) ==
    /\ argv[1] = Word("git")
    /\ Len(argv) >= 3 /\ argv[2] = Word("clone")
    /\ \E k \in 3..Len(argv) : argv[k] \notin Options
Url(argv) == SelectSeq(SubSeq(argv, 3, Len(argv)), LAMBDA w : w \notin Options)[1][1]
IsBare(argv) == Word("--bare") \in ToSet(argv)

ShouldAddCompilerFlags(path) ==
    Base[path] \in {"gcc", "g++", "clang", "clang++", "cc", "c++"}

(* The first of the flags in the environment. *)
ExtraArgs == SubSeq(env.flags, 1, Min({Len(env.flags), MaxFlags}))

FlagsFirst(argv) == ExtraArgs \o argv
FlagsLast(argv) == argv \o ExtraArgs
AddArguments(argv) == <<Head(argv)>> \o ExtraArgs \o Tail(argv)

InLibrary == pc = "library" /\ at <= libs

(* Flags are added to a copy: the caller's argv stays.                     *)
PassOn ==
    /\ InLibrary /\ ~IsClone(call.argv)
    /\ call' = IF ShouldAddCompilerFlags(call.path)
               THEN [call EXCEPT !.argv = AddArguments(@)] ELSE call
    /\ at' = at + 1
    /\ UNCHANGED <<processVars, image, given, pc, cloneVars, calls>>

(* execute_and_capture: the clone is spawned by way of the next library.   *)
ClonePassed ==
    /\ InLibrary /\ IsClone(call.argv)
    /\ at' = at + 1
    /\ UNCHANGED <<processVars, image, given, pc, call, cloneVars, calls>>

(* Only exec searches PATH. *)
Found(fn) == IF fn = "spawn" THEN Installed \ Bare ELSE Installed
(* git does not clone into a directory there is; a bare clone has another. *)
CanClone ==
    /\ call.path \in Found("spawn")
    /\ \A c \in clones : c.url # Url(call.argv) \/ c.bare # IsBare(call.argv)
Made == [url |-> Url(call.argv), bare |-> IsBare(call.argv), call |-> calls,
         log |-> env.log, stage |-> env.stage, by |-> libs]

Announcement(argv) ==
    IF IsBare(argv) THEN "Cloning into bare repository" ELSE "Cloning into"

(* git may fail after it has said what it clones into, or before.          *)
RunGit ==
    /\ pc = "library" /\ at = libs + 1 /\ libs > 0 /\ IsClone(call.argv)
    /\ \/ /\ CanClone
          /\ output' = Announcement(call.argv)
          /\ clones' \in {clones, clones \cup {Made}}
       \/ output' = "fatal" /\ UNCHANGED clones
    /\ at' = libs /\ pc' = "cloned"
    /\ UNCHANGED <<processVars, image, given, call, logs, calls>>

AnyOutput(text) == TRUE
SaysCloning(text) == text = "Cloning into"

CurrStage == IF env.stage = "build" THEN "BUILD" ELSE "REBUILD"

(* What cd and git rev-parse say.  If there is no clone to cd to, it is an *)
(* error of the shell's; or the directory was there, and git is silent or  *)
(* finds another repository.  In an empty clone it is HEAD, not a commit.  *)
Answers ==
    IF \E c \in clones : c.call = calls THEN {"commit"} ELSE {"error", ""}

(* A name made of two paths is in no directory there is.  A line is        *)
(* modelled with the file it is in, and the library and call it is of.     *)
Logged(commit_id) ==
    IF commit_id # "" /\ Len(env.log) = 1
    THEN logs \cup {[file |-> env.log, url |-> Url(call.argv), commit |-> commit_id,
                     by |-> at, call |-> calls]}
    ELSE logs

(* The end of handle_git_clone.  The library above asked for a spawn: what *)
(* it captures is what /usr/bin/true prints.                               *)
HandleGitClone ==
    /\ pc = "cloned" /\ at > 0
    /\ IF SaysCloning(output) /\ CurrStage = "BUILD"
       THEN \E commit_id \in Answers : logs' = Logged(commit_id)
       ELSE UNCHANGED logs
    /\ output' = ""
    /\ at' = at - 1
    /\ UNCHANGED <<processVars, image, given, pc, call, clones, calls>>

(* posix_spawn has spawned /usr/bin/true for its caller, who is content;   *)
(* exec returns 0, which its callers take for a failure: TryNext.          *)
CloneReturns ==
    /\ pc = "cloned" /\ at = 0
    /\ pc' = "returned"
    /\ UNCHANGED <<processVars, image, given, call, at, cloneVars, calls>>

-----------------------------------------------------------------------------
(* The system's exec. *)

AtKernel == pc = "library" /\ at > libs /\ (libs = 0 \/ ~IsClone(call.argv))

Exec ==
    /\ AtKernel /\ call.path \in Found(call.fn)
    /\ image' = [path |-> call.path, argv |-> call.argv,
                 due |-> IF libs = 0 THEN {} ELSE known]
    /\ env' = IF call.empty THEN NoEnvironment ELSE env
    /\ known' = IF call.empty THEN {} ELSE known
    /\ libs' = Len(env'.preload)
    /\ clones' \in {clones} \cup IF IsClone(call.argv) /\ CanClone
                                  THEN {clones \cup {Made}} ELSE {}
    /\ pc' = "started"
    /\ UNCHANGED <<level, given, call, at, output, logs, calls>>

NoSuchFile ==
    /\ AtKernel /\ call.path \notin Found(call.fn)
    /\ pc' = "returned"
    /\ UNCHANGED <<processVars, image, given, call, at, cloneVars, calls>>

(* What was started runs, programs of its own too. *)
Continue ==
    /\ pc = "started"
    /\ pc' = "running" /\ call' = NoCall /\ at' = 0
    /\ UNCHANGED <<processVars, image, given, cloneVars, calls>>

Done == pc = "running" /\ calls = MaxCalls /\ UNCHANGED vars

Next ==
    \/ Reprobuild \/ RunReal \/ GiveUp \/ Continue \/ Done
    \/ \E p \in Paths : \/ TryNext(p)
                        \/ \E fn \in {"exec", "spawn"}, a \in Arguments, e \in BOOLEAN :
                              Run(fn, p, a, e)
    \/ PassOn \/ ClonePassed \/ RunGit \/ HandleGitClone \/ CloneReturns
    \/ Exec \/ NoSuchFile

Spec == Init /\ [][Next]_vars

-----------------------------------------------------------------------------
(* Every variable stays in its type; whatever is called, however often its *)
(* arguments were extended, its argv begins with a program's name.         *)
TypeOK ==
    /\ level \in 0..Depth /\ known \subseteq 1..level
    /\ env.epoch \in 0..level /\ env.stage \in {"unset", "build"}
    /\ libs \in 0..Depth+1
    /\ at \in 0..Depth+2
    /\ pc \in {"running", "library", "cloned", "returned", "started"}
    /\ pc = "library" => Head(call.argv) = Word(Base[call.path])
    /\ calls \in 0..MaxCalls

(* What the interceptors put between argv[0] and what was given. *)
Added == SubSeq(image.argv, 2, Len(image.argv) - Len(given))

(* Every program gets the arguments it was given, all of them, in order    *)
(* and last, so that its own flags win, through any number of libraries,   *)
(* wrappers and paths tried; and only compilers get more.                  *)
(* (add_arguments, INTERCEPT_WITH_ARGV)                                    *)
ArgsKept ==
    pc = "started" =>
        /\ image.argv = <<Word(Base[image.path])>> \o Added \o given
        /\ \A k \in 1..Len(Added) : Added[k][2] > 0
        /\ ~ShouldAddCompilerFlags(image.path) => Added = <<>>

(* A compiler run by an intercepted process gets the flags of every        *)
(* reprobuild around it, from the outermost on as far as a library adds    *)
(* them; if it adds them all, the innermost's are last, where they count.  *)
(* (appendEnvVar, add_arguments, should_add_compiler_flags)                *)
EveryLevelsFlags ==
    pc = "started" /\ ShouldAddCompilerFlags(image.path) =>
        \A l \in image.due : \A flag \in ToSet(CompOpts(l)) :
            2 * Cardinality({k \in image.due : k <= l}) <= MaxFlags =>
                \E k \in 1..Len(Added) :
                    /\ Added[k] = flag
                    /\ l = Max(image.due) => \A j \in k+1..Len(Added) : Added[j][1] # flag[1]

(* A clone that a library made in a build has one line, in the log of its  *)
(* build, however many libraries handled it and however often a shell that *)
(* is told it failed tries again.  A call that made no clone has at most   *)
(* one, with what the shell said instead of a commit.  No line is written  *)
(* for a bare clone, nor when the variable named a log before.             *)
(* (handle_git_clone, execute_and_capture, posix_spawn)                    *)
ClonesLoggedOnce ==
    pc = "running" =>
        /\ \A c \in clones :
              Cardinality({l \in logs : l.call = c.call})
              = IF c.by > 0 /\ c.stage = "build" /\ Len(c.log) = 1 /\ ~c.bare THEN 1 ELSE 0
        /\ \A l, m \in logs : l.call = m.call => l = m
        /\ \A l \in logs :
              IF l.commit = "commit"
              THEN \E c \in clones : c.call = l.call /\ c.url = l.url /\ c.log = l.file
              ELSE \A c \in clones : c.call # l.call
=============================================================================
