---------------------------- MODULE TraceFraming ----------------------------
(***************************************************************************)
(* How what the processes of a build do travels from the kernel to the     *)
(* parsers of Tracker.  The probes of include/bpftrace_script.h print each *)
(* system call in several chunks  pid 0x80 content 0x80, so the chunks of  *)
(* different threads alternate in the log; executeWithBpftrace reads the   *)
(* log, as far as it has been flushed, and processBpftraceOutput puts the  *)
(* chunks of each process together again.                                  *)
(*                                                                         *)
(* Text is a sequence of symbols.  A name stands for the characters of a   *)
(* file name or an argument, a process id for its digits, "nl" for a       *)
(* newline, and D for the byte 0x80, which may also be part of a name.     *)
(* bpftrace itself is taken to write chunks in the order of the printfs.   *)
(***************************************************************************)
EXTENDS Naturals, Sequences, SequencesExt

CONSTANTS
    Pids,       \* processes
    Threads,    \* their threads
    Process,    \* the process of each thread
    Names,      \* names, each a sequence of symbols
    Dirs,       \* directories: [mount, path], each a sequence of names
    StartDirs,  \* where processes start
    Programs,   \* what each thread does: a set of sequences of calls
    MaxParts,   \* components of a relative path that are kept (64)
    MaxArgs     \* arguments that are printed (63)

D == "0x80"

ASSUME FramingAssumption ==
    /\ Process \in [Threads -> Pids]
    /\ StartDirs \subseteq Dirs
    /\ \A d \in Dirs : {d.mount, d.path} \subseteq Seq(Names)
    /\ \A t \in Threads : \A calls \in Programs[t] :
          /\ calls \in Seq(ToSet(calls))
          /\ \A c \in ToSet(calls) : c.op = "chdir" => c.at \in Dirs
    /\ Pids # {} /\ {D, "nl"} \cap Pids = {}
    /\ MaxParts \in Nat \ {0} /\ MaxArgs \in Nat \ {0}

NoDir == [mount |-> <<>>, path |-> <<>>]

(* A call whose names are names, relative to no other directory than the   *)
(* working directory.                                                      *)
PlainCall(c) ==
    /\ c.op \in {"exec", "creat", "openat", "relative"} => c.name \in Names
    /\ c.op = "exec" => c.args \in Seq(Names)
    /\ c.op = "relative" => c.at = NoDir

(* What the tracing takes for granted: every process has one thread, no    *)
(* name has the byte 0x80, directories are on the root file system and no  *)
(* deeper than @path_parts, and names are relative to the working directory *)
(* only.  README.md says what goes wrong without each.                     *)
SingleThreaded == \A t, u \in Threads : Process[t] = Process[u] => t = u
NoDelimiter == \A n \in Names : n \in Seq(ToSet(n)) /\ D \notin ToSet(n)
RootDirs == \A d \in Dirs : d.mount = <<>> /\ Len(d.path) <= MaxParts
PlainCalls ==
    \A t \in Threads : \A calls \in Programs[t] : \A c \in ToSet(calls) : PlainCall(c)
Plain == SingleThreaded /\ NoDelimiter /\ RootDirs /\ PlainCalls

VARIABLES
    log,        \* what bpftrace has written
    parts,      \* @path_parts of each process, <<>> where there is no entry
    cwd,        \* working directory of each process
    pc,         \* of each thread: in no probe, or how far it is
    i,          \* $i in the probe
    here,       \* the directory $d started from
    todo,       \* the calls each thread will still do, the current one first
    done        \* what each process has asked the kernel for, as text

vars == <<log, parts, cwd, pc, i, here, todo, done>>

Init ==
    /\ log = <<>>
    /\ parts = [p \in Pids |-> [k \in 0..(MaxParts - 1) |-> <<>>]]
    /\ cwd \in [Pids -> StartDirs]
    /\ pc = [t \in Threads |-> "out"]
    /\ i = [t \in Threads |-> 0]
    /\ here = [t \in Threads |-> NoDir]
    /\ todo \in [Threads -> UNION {Programs[t] : t \in Threads}]
    /\ \A t \in Threads : todo[t] \in Programs[t]
    /\ done = [p \in Pids |-> <<>>]

-----------------------------------------------------------------------------
(* Calls: "exec" with its arguments, "creat", "openat" of an absolute name, *)
(* "relative" openat of a name in the directory at (the working directory  *)
(* when at is NoDir), and "chdir".  The script prints the first three from *)
(* their own arguments.                                                    *)
Call(t) == todo[t][1]

Slashed(names) == FlattenSeq([k \in DOMAIN names |-> <<"/">> \o names[k]])

(* The line that says what the call c of a process in directory d does.    *)
Line(c, d) ==
    CASE c.op = "exec"     -> <<"execve">> \o c.name
                              \o FlattenSeq(SubSeq(c.args, 1, Min({MaxArgs, Len(c.args)}))) \o <<"nl">>
      [] c.op = "creat"    -> <<"creat">> \o c.name \o <<"nl">>
      [] c.op = "openat"   -> <<"openat">> \o c.name \o <<"flags", "nl">>
      [] c.op = "relative" ->
            LET at == IF c.at = NoDir THEN d ELSE c.at IN
            <<"openat">> \o Slashed(at.mount \o at.path) \o Slashed(<<c.name>>)
            \o <<"flags", "nl">>

-----------------------------------------------------------------------------
(* The probes. *)

(* printf("%d\x80...\x80", pid, ...) *)
Chunk(t, content) == <<Process[t], D>> \o content \o <<D>>
Prints(t, content) == log' = log \o Chunk(t, content)

Leaves(t) ==
    /\ pc' = [pc EXCEPT ![t] = "out"]
    /\ todo' = [todo EXCEPT ![t] = Tail(@)]

(* A system call enters its probe; what it asks for is now settled. *)
Enters(t, op) ==
    /\ pc[t] = "out" /\ todo[t] # <<>> /\ Call(t).op = op
    /\ done' = [done EXCEPT ![Process[t]] = @ \o Line(Call(t), cwd[Process[t]])]

Creat(t) ==
    /\ Enters(t, "creat")
    /\ Prints(t, <<"creat">> \o Call(t).name \o <<"nl">>)
    /\ Leaves(t)
    /\ UNCHANGED <<parts, cwd, i, here>>

(* argv[0] is not printed: args holds the arguments after it. *)
FirstArg == 1

Exec(t) ==
    /\ Enters(t, "exec")
    /\ Prints(t, <<"execve">> \o Call(t).name)
    /\ pc' = [pc EXCEPT ![t] = "args"]
    /\ i' = [i EXCEPT ![t] = FirstArg]
    /\ UNCHANGED <<parts, cwd, here, todo>>

PrintArg(t) ==
    /\ pc[t] = "args" /\ i[t] <= MaxArgs /\ i[t] <= Len(Call(t).args)
    /\ Prints(t, Call(t).args[i[t]])
    /\ i' = [i EXCEPT ![t] = @ + 1]
    /\ UNCHANGED <<parts, cwd, pc, here, todo, done>>

ExecEnd(t) ==
    /\ pc[t] = "args" /\ (i[t] > MaxArgs \/ i[t] > Len(Call(t).args))
    /\ Prints(t, <<"nl">>)
    /\ Leaves(t)
    /\ UNCHANGED <<parts, cwd, i, here, done>>

OpenAbsolute(t) ==
    /\ Enters(t, "openat")
    /\ Prints(t, <<"openat">> \o Call(t).name)
    /\ pc' = [pc EXCEPT ![t] = "flags"]
    /\ UNCHANGED <<parts, cwd, i, here, todo>>

(* Any other name is taken to be relative to the working directory, the    *)
(* call's dfd is not looked at.                                            *)
OpenRelative(t) ==
    /\ Enters(t, "relative")
    /\ here' = [here EXCEPT ![t] = cwd[Process[t]]]
    /\ i' = [i EXCEPT ![t] = 0]
    /\ pc' = [pc EXCEPT ![t] = "store"]
    /\ UNCHANGED <<log, parts, cwd, todo>>

DownFromRoot(d) == d.path
(* d_parent leads from the directory to the root of its file system. *)
Ancestors(d) == Reverse(d.path)
MoreParts(t) == i[t] < MaxParts /\ i[t] < Len(Ancestors(here[t]))

StorePart(t) ==
    /\ pc[t] = "store" /\ MoreParts(t)
    /\ parts' = [parts EXCEPT ![Process[t]][i[t]] = Ancestors(here[t])[i[t] + 1]]
    /\ i' = [i EXCEPT ![t] = @ + 1]
    /\ UNCHANGED <<log, cwd, pc, here, todo, done>>

(* $i is one past the last index stored; the model keeps it there and      *)
(* subtracts when the index is used.                                       *)
LastStored(k) == k - 1

PrintOpen(t) ==
    /\ pc[t] = "store" /\ ~MoreParts(t)
    /\ Prints(t, <<"openat">>)
    /\ pc' = [pc EXCEPT ![t] = "parts"]
    /\ UNCHANGED <<parts, cwd, i, here, todo, done>>

(* An entry that is not there prints as nothing. *)
PrintPart(t) ==
    /\ pc[t] = "parts" /\ i[t] > 0
    /\ Prints(t, Slashed(<<parts[Process[t]][LastStored(i[t])]>>))
    /\ pc' = [pc EXCEPT ![t] = "delete"]
    /\ UNCHANGED <<parts, cwd, i, here, todo, done>>

DeletePart(t) ==
    /\ pc[t] = "delete"
    /\ parts' = [parts EXCEPT ![Process[t]][LastStored(i[t])] = <<>>]
    /\ i' = [i EXCEPT ![t] = @ - 1]
    /\ pc' = [pc EXCEPT ![t] = "parts"]
    /\ UNCHANGED <<log, cwd, here, todo, done>>

PrintName(t) ==
    /\ pc[t] = "parts" /\ i[t] = 0
    /\ Prints(t, Slashed(<<Call(t).name>>))
    /\ pc' = [pc EXCEPT ![t] = "flags"]
    /\ UNCHANGED <<parts, cwd, i, here, todo, done>>

PrintFlags(t) ==
    /\ pc[t] = "flags"
    /\ Prints(t, <<"flags", "nl">>)
    /\ Leaves(t)
    /\ UNCHANGED <<parts, cwd, i, here, done>>

(* chdir has no probe. *)
Chdir(t) ==
    /\ pc[t] = "out" /\ todo[t] # <<>> /\ Call(t).op = "chdir"
    /\ cwd' = [cwd EXCEPT ![Process[t]] = Call(t).at]
    /\ Leaves(t)
    /\ UNCHANGED <<log, parts, i, here, done>>

BuildEnded == \A t \in Threads : todo[t] = <<>>

Next ==
    \/ \E t \in Threads :
          \/ Creat(t) \/ Exec(t) \/ PrintArg(t) \/ ExecEnd(t)
          \/ OpenAbsolute(t) \/ OpenRelative(t)
          \/ StorePart(t) \/ PrintOpen(t) \/ PrintPart(t) \/ DeletePart(t)
          \/ PrintName(t) \/ PrintFlags(t) \/ Chdir(t)
    \/ BuildEnded /\ UNCHANGED vars

Spec == Init /\ [][Next]_vars

-----------------------------------------------------------------------------
(* Reading the log. *)

(* What executeWithBpftrace reads when n symbols have reached the file: it *)
(* gives the last line a newline if it has none.                           *)
ReadLog(n) ==
    LET flushed == SubSeq(log, 1, n) IN
    IF n = 0 \/ Last(flushed) = "nl" THEN flushed ELSE Append(flushed, "nl")

(* stoi("") throws invalid_argument, which trackBuild catches: no output.   *)
(* No stream is that: the delimiter is in none.                            *)
Fails == [p \in Pids |-> <<D>>]
NoStreams == [p \in Pids |-> <<>>]

(* The first position from k on that is no whitespace, or is a delimiter;   *)
(* one past the end if there is none.                                      *)
OrEnd(raw, found) == IF found = 0 THEN Len(raw) + 1 ELSE found
SkipSpace(raw, k) ==
    OrEnd(raw, SelectInSubSeq(raw, k, Len(raw), LAMBDA s : s # "nl"))
NextDelimiter(raw, k) ==
    OrEnd(raw, SelectInSubSeq(raw, k, Len(raw), LAMBDA s : s = D))

(* A chunk's content ends at the delimiter; without one it is dropped. *)
IsClosed(raw, close) == close <= Len(raw)

(* One round of processBpftraceOutput's loop: the pid_streams read from    *)
(* position k on, by what is read from later positions on.                 *)
ReadChunk(raw, k, from) ==
    LET n == Len(raw)
        start == SkipSpace(raw, k)
        digits == IF start <= n /\ raw[start] \in Pids THEN 1 ELSE 0
        open  == start + digits
        close == NextDelimiter(raw, open + 1)
        rest  == from[IF close <= n THEN close + 1 ELSE n + 1]
    IN  IF open > n \/ raw[open] # D THEN NoStreams
        ELSE IF digits = 0 THEN Fails
        ELSE IF ~IsClosed(raw, close) THEN NoStreams
        ELSE IF rest = Fails THEN Fails
        ELSE [rest EXCEPT ![raw[start]] = SubSeq(raw, open + 1, close - 1) \o @]

Streams(raw) ==
    LET from[k \in 1..(Len(raw) + 1)] == ReadChunk(raw, k, from) IN from[1]

-----------------------------------------------------------------------------
(* Every variable stays in its type; $i stays within the loops' limits.    *)
TypeOK ==
    /\ DOMAIN parts = Pids
    /\ \A p \in Pids : parts[p] \in [0..(MaxParts - 1) -> Names \cup {<<>>}]
    /\ cwd \in [Pids -> Dirs]
    /\ pc \in [Threads -> {"out", "args", "store", "parts", "delete", "flags"}]
    /\ \A t \in Threads : i[t] \in IF pc[t] = "args" THEN 1..(MaxArgs + 1)
                             ELSE 0..(MaxParts + MaxArgs)
    /\ here \in [Threads -> Dirs \cup {NoDir}]

(* However little of the log has been flushed when it is read, each        *)
(* process's stream is the beginning of what that process did; and the     *)
(* whole log gives its calls word for word and in order, whatever the      *)
(* other processes printed in between.                                     *)
TraceIsTruth ==
    /\ \A n \in 0..Len(log) :
         LET streams == Streams(ReadLog(n)) IN
         streams # Fails /\ \A p \in Pids : IsPrefix(streams[p], done[p])
    /\ BuildEnded => Streams(ReadLog(Len(log))) = done
=============================================================================
