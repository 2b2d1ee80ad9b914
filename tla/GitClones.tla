------------------------------ MODULE GitClones ------------------------------
(***************************************************************************)
(* git clone in a build and in its rebuild.  The library preloaded into    *)
(* every process (src/interceptor.cpp) runs the clone itself; in a build   *)
(* it appends the commit it got to a log, which reprobuild moves into the  *)
(* record when the build has ended (src/postprocessor.cpp) and deletes; in *)
(* a rebuild it resets the clone to the commit logged for its URL.  A      *)
(* clone may fail after git has said "Cloning into", and a repository may  *)
(* be empty; what rev-parse and its shell say then is logged as well.      *)
(*                                                                         *)
(* Several reprobuilds may run on a machine; the log of each is a file of  *)
(* its log directory, /tmp unless it is told otherwise.  The repositories  *)
(* move on at any time.  Between build and rebuild the user makes the log  *)
(* from the record, as README.md says.                                     *)
(***************************************************************************)
EXTENDS Naturals, Sequences, SequencesExt

CONSTANTS
    Runs,           \* runs of reprobuild
    Logs,           \* log files
    LogPath,        \* git_commit_log_path_ of each run
    Clones,         \* git clone commands, each executed by a process of a run
    RunOf,          \* the run of each
    Args,           \* its arguments after "clone": [dash, text]
    Repo,           \* the repository it clones
    Shallow,        \* the clones that get no history (--depth)
    Repos,
    MaxCommit,      \* bound on the commits of a repository
    MaxVain,        \* bound on the clones of one command that get no commit
    MayOverlap      \* whether runs with one log may be under way together

ASSUME CloneAssumption ==
    /\ \A r \in Runs : LogPath[r] \in Logs
    /\ \A c \in Clones : /\ RunOf[c] \in Runs /\ Repo[c] \in Repos
                          /\ \E k \in 1..Len(Args[c]) : ~Args[c][k].dash
    /\ MaxCommit \in Nat \ {0} /\ MaxVain \in Nat

Commits == Repos \X (1..MaxCommit)  \* a repository and the age of the commit
NoCommit == <<>>
(* An error of the shell, "HEAD", or a commit of a repository around.      *)
OtherText == <<"text">>

VARIABLES
    head,       \* newest commit of each repository; 0 if it is empty
    log,        \* lines of each log file, [repo, commit]; none if it is absent
    run,        \* phase of each run
    record,     \* git_commit_ids_ of each run
    gpc,        \* of each clone command
    work,       \* the commit each clone had checked out in the build
    commit_id,  \* what rev-parse said
    vain,       \* how often git announced the clone and it got no commit
    rework      \* the commit it has checked out in the rebuild

gcVars == <<head, log, run, record, gpc, work, commit_id, vain, rework>>
commandVars == <<gpc, work, commit_id, vain, rework>>

GCInit ==
    /\ head \in [Repos -> {0, 1}]
    /\ log = [f \in Logs |-> <<>>]
    /\ run = [r \in Runs |-> "idle"]
    /\ record = [r \in Runs |-> <<>>]
    /\ gpc = [c \in Clones |-> "waiting"]
    /\ work = [c \in Clones |-> NoCommit]
    /\ commit_id = [c \in Clones |-> NoCommit]
    /\ vain = [c \in Clones |-> 0]
    /\ rework = [c \in Clones |-> NoCommit]

Newest(r) == IF head[r] = 0 THEN NoCommit ELSE <<r, head[r]>>

(* The repositories are somebody else's. *)
Push(r) ==
    /\ head[r] < MaxCommit
    /\ head' = [head EXCEPT ![r] = @ + 1]
    /\ UNCHANGED <<log, run, record, commandVars>>

Goes(r, from, to) == run[r] = from /\ run' = [run EXCEPT ![r] = to]
Underway == {"build", "read", "remove", "save"}
At(c, from, to) == gpc[c] = from /\ gpc' = [gpc EXCEPT ![c] = to]

-----------------------------------------------------------------------------
(* handle_git_clone *)

(* repo_url: the first argument that does not start with a dash. *)
Key(c) == SelectSeq(Args[c], LAMBDA a : ~a.dash)[1].text

InVain(c) == vain[c] < MaxVain /\ vain' = [vain EXCEPT ![c] = @ + 1]

(* git clone, in a build.  An empty repository can be cloned.              *)
Clone(c) ==
    /\ run[RunOf[c]] = "build"
    /\ At(c, "waiting", "cloned")
    /\ work' = [work EXCEPT ![c] = Newest(Repo[c])]
    /\ IF Newest(Repo[c]) = NoCommit THEN InVain(c) ELSE UNCHANGED vain
    /\ UNCHANGED <<head, log, run, record, commit_id, rework>>

(* It has said what it clones into, and fails; nobody looks at its status. *)
(* One that fails before it says so is not taken for a clone.              *)
CloneFails(c) ==
    /\ run[RunOf[c]] = "build"
    /\ At(c, "waiting", "failed")
    /\ InVain(c)
    /\ UNCHANGED <<head, log, run, record, work, commit_id, rework>>

RemoteHead(c) == Newest(Repo[c])
(* git rev-parse HEAD in the new clone; in an empty one it prints HEAD.    *)
LocalHead(c) == IF work[c] = NoCommit THEN OtherText ELSE work[c]

(* If there is no clone, cd fails and the shell's error is captured; or    *)
(* the directory was there before, and git says nothing, or finds the      *)
(* repository that directory is in.                                        *)
RevParse(c) ==
    /\ run[RunOf[c]] = "build"
    /\ \/ /\ At(c, "cloned", "parsed")
          /\ commit_id' = [commit_id EXCEPT ![c] = LocalHead(c)]
       \/ /\ At(c, "failed", "answered")
          /\ \E said \in {OtherText, NoCommit} : commit_id' = [commit_id EXCEPT ![c] = said]
    /\ UNCHANGED <<head, log, run, record, work, vain, rework>>

Line(c) == [repo |-> Key(c), commit |-> commit_id[c]]

(* Whatever is not empty is logged.  The build may try again what failed.  *)
AppendLine(c) ==
    /\ run[RunOf[c]] = "build"
    /\ At(c, "parsed", "logged") \/ At(c, "answered", "waiting")
    /\ log' = IF commit_id[c] = NoCommit THEN log
              ELSE [log EXCEPT ![LogPath[RunOf[c]]] = Append(@, Line(c))]
    /\ UNCHANGED <<head, run, record, work, commit_id, vain, rework>>

-----------------------------------------------------------------------------
(* reprobuild *)

BuildStarts(r) ==
    /\ MayOverlap \/ \A q \in Runs : LogPath[q] = LogPath[r] => run[q] \notin Underway
    /\ Goes(r, "idle", "build")
    /\ UNCHANGED <<head, log, record, commandVars>>

(* The build waits for the clones it has started; it need not do them all. *)
BuildEnds(r) ==
    /\ \A c \in Clones : RunOf[c] = r => gpc[c] \in {"waiting", "logged"}
    /\ Goes(r, "build", "read")
    /\ UNCHANGED <<head, log, record, commandVars>>

(* processGitCloneLogs: the lines go to the record, then the file goes. *)
ReadLog(r) ==
    /\ Goes(r, "read", "remove")
    /\ record' = [record EXCEPT ![r] = @ \o log[LogPath[r]]]
    /\ UNCHANGED <<head, log, commandVars>>

Untouched(lines) == lines
Removed(lines) == <<>>

RemoveLog(r) ==
    /\ Goes(r, "remove", "save")
    /\ log' = [log EXCEPT ![LogPath[r]] = Removed(@)]
    /\ UNCHANGED <<head, record, commandVars>>

SaveRecord(r) ==
    /\ Goes(r, "save", "saved")
    /\ UNCHANGED <<head, log, record, commandVars>>

(* reprobuild is killed, and the build with it. *)
Crash(r) ==
    /\ run[r] \in Underway
    /\ run' = [run EXCEPT ![r] = "dead"]
    /\ UNCHANGED <<head, log, record, commandVars>>

-----------------------------------------------------------------------------
(* The rebuild, with a log made from the record.  A clone that fails here  *)
(* leaves nothing to be reset.                                             *)

Reclone(c) ==
    /\ run[RunOf[c]] = "saved"
    /\ At(c, "logged", "recloned")
    /\ rework' = [rework EXCEPT ![c] = Newest(Repo[c])]
    /\ UNCHANGED <<head, log, run, record, work, commit_id, vain>>

(* The map made of the log's lines: the last one with a key counts.        *)
Recorded(r, key) ==
    LET k == SelectLastInSeq(record[r], LAMBDA l : l.repo = key)
    IN  IF k = 0 THEN NoCommit ELSE record[r][k].commit

(* The clone has its repository's history, unless it is shallow.           *)
HasCommit(c, commit) ==
    /\ commit \in Commits /\ commit[1] = Repo[c]
    /\ IF c \in Shallow THEN commit = rework[c] ELSE commit[2] <= rework[c][2]

(* git reset --hard to what the map has; it fails without a word if that   *)
(* is no commit of the clone.                                              *)
ResetTo(c, commit) ==
    IF commit # NoCommit /\ HasCommit(c, commit) THEN commit ELSE rework[c]

Reset(c) ==
    /\ At(c, "recloned", "rebuilt")
    /\ rework' = [rework EXCEPT ![c] = ResetTo(c, Recorded(RunOf[c], Key(c)))]
    /\ UNCHANGED <<head, log, run, record, work, commit_id, vain>>

GCNext ==
    \/ \E r \in Repos : Push(r)
    \/ \E r \in Runs : \/ BuildStarts(r) \/ BuildEnds(r) \/ ReadLog(r)
                       \/ RemoveLog(r) \/ SaveRecord(r) \/ Crash(r)
    \/ \E c \in Clones : \/ Clone(c) \/ RevParse(c) \/ AppendLine(c)
                         \/ CloneFails(c) \/ Reclone(c) \/ Reset(c)

GCSpec == GCInit /\ [][GCNext]_gcVars

-----------------------------------------------------------------------------
(* Every variable stays in its type; a line that has no commit is that of  *)
(* a command that got none.                                                *)
GCTypeOK ==
    /\ head \in [Repos -> 0..MaxCommit]
    /\ run \in [Runs -> Underway \cup {"idle", "saved", "dead"}]
    /\ vain \in [Clones -> 0..MaxVain]
    /\ \A f \in Logs : \A l \in ToSet(log[f]) :
         \/ l.commit \in Commits
         \/ l.commit = OtherText /\ \E c \in Clones : l.repo = Key(c) /\ vain[c] > 0
    /\ \A c \in Clones :
         {work[c], commit_id[c], rework[c]} \subseteq Commits \cup {NoCommit, OtherText}

OwnLines(r) ==
    {[repo |-> Key(c), commit |-> work[c]] : c \in {d \in Clones : RunOf[d] = r /\ work[d] # NoCommit}}

(* A run whose lines a later one may find in the log. *)
LeftTo(q, r) == q = r \/ (run[q] = "dead" /\ LogPath[q] = LogPath[r])

(* A saved record lists every commit the build cloned.  What else it lists *)
(* was left in the log by a run that was killed, or is what rev-parse said *)
(* of a clone that failed or was empty.                                    *)
(* (handle_git_clone, processGitCloneLogs)                                 *)
RecordsOwnClones ==
    \A r \in Runs : run[r] = "saved" =>
        /\ OwnLines(r) \subseteq ToSet(record[r])
        /\ \A l \in ToSet(record[r]) : \E c \in Clones :
              /\ l.repo = Key(c) /\ LeftTo(RunOf[c], r)
              /\ l.commit = work[c] \/ (l.commit = OtherText /\ vain[c] > 0)

(* The rebuild works on the sources the build worked on, however far the   *)
(* repositories have moved on during the build and since, whatever killed  *)
(* builds have left in the log and however often a clone failed before it  *)
(* was made.  (handle_git_clone, init)                                     *)
SameSources ==
    \A c \in Clones : gpc[c] = "rebuilt" /\ work[c] # NoCommit => rework[c] = work[c]
=============================================================================
