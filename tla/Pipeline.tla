------------------------------ MODULE Pipeline ------------------------------
(***************************************************************************)
(* main (src/main.cpp) once the build command has been given: track it,    *)
(* save the record and the graph, upload the files of no package; with all *)
(* its ways out.  Builds of several trees are under way at the same time,  *)
(* others bundle their records, users edit files.                          *)
(***************************************************************************)
EXTENDS Bundle

CONSTANTS
    Placements,     \* the trees the builds may be in
    Uses,           \* the files each build uses
    Makes,          \* the artifacts it makes
    Cloned,         \* the commits its clones log
    MaxEdits,       \* bound on edits
    MaxKills        \* bound on kills and full disks

ASSUME PipelineAssumption ==
    /\ Placements \subseteq [Clients -> Trees]
    /\ Uses \in [Clients -> SUBSET Files]
    /\ \A b \in Clients : IsFiniteSet(Uses[b])

VARIABLES
    tree,       \* the tree of each build
    pc,         \* where each build is
    built,      \* build_record_ of each
    kills,      \* builds killed, and records cut by a full disk, with where
    edits       \* edits of files and removals of trees

pipelineVars == <<tree, pc, built, kills, edits, files, gone>>
vars == <<uploadVars, bundleVars, pipelineVars>>

Init ==
    /\ UploadInit /\ BundleInit
    /\ tree \in Placements
    /\ files = [t \in Trees |-> [there |-> FALSE, whole |-> FALSE, doc |-> NoText]]
    /\ pc = [b \in Clients |-> "idle"]
    /\ built = [b \in Clients |-> NoRecord]
    /\ kills = {}
    /\ edits = 0 /\ gone = {}

Over == {"ended", "not uploaded", "failed"}
Underway == {"track", "postprocess", "write", "graph", "upload"}
Goes(b, from, to) == pc[b] = from /\ pc' = [pc EXCEPT ![b] = to]
Elsewhere == UNCHANGED <<bundleVars, tree, kills, edits, gone>>

(* Builds of one tree come one after the other. *)
(* BuildInfo, fillBuildRecordMetadata.  *)
Start(b) ==
    /\ \A a \in Clients : tree[a] = tree[b] => pc[a] \notin Underway
    /\ \A q \in Bundlers : bpc[q] \in {"idle", "loaded", "done", "failed"}
    /\ Goes(b, "idle", "track")
    /\ built' = [built EXCEPT ![b].build_path = tree[b]]
    /\ Elsewhere /\ UNCHANGED <<uploadVars, files>>

-----------------------------------------------------------------------------
(* trackBuild.  The exit status of the build command is not looked at.     *)
Track(b) ==
    /\ Goes(b, "track", "postprocess")
    /\ Take(b, Uses[b])
    /\ built' = [built EXCEPT ![b].deps = taken'[b], ![b].artifacts = Makes[b]]
    /\ Elsewhere /\ UNCHANGED files

(* executeWithBpftrace throws, is logged, and trackBuild returns as usual; *)
(* or it cannot write its script, runs no build and returns no trace.      *)
TrackingLost(b) ==
    /\ Goes(b, "track", "postprocess")
    /\ Elsewhere /\ UNCHANGED <<uploadVars, built, files>>

(* Another exception in trackBuild ends the program with status 1, one in  *)
(* saveToFile with abort.                                                  *)
TrackBuildThrows(b) ==
    /\ Goes(b, "track", "failed")
    /\ Elsewhere /\ UNCHANGED <<uploadVars, built, files>>

SaveThrows(b) ==
    /\ Goes(b, "postprocess", "failed")
    /\ Release(b)
    /\ Elsewhere /\ UNCHANGED <<built, files>>

-----------------------------------------------------------------------------
(* saveToFile: the file is emptied, written in pieces, closed.             *)

(* postprocess has added the commits before. *)
OpenRecord(b) ==
    /\ Goes(b, "postprocess", "write")
    /\ built' = [built EXCEPT ![b].commits = Cloned[b]]
    /\ files' = [files EXCEPT ![tree[b]] = [there |-> TRUE, whole |-> FALSE, doc |-> NoText]]
    /\ Elsewhere /\ UNCHANGED uploadVars

FlushRecord(b) ==
    /\ pc[b] = "write" /\ files[tree[b]].doc = NoText
    /\ \E doc \in Beginnings(SaveToFile(built[b])) :
          files' = [files EXCEPT ![tree[b]].doc = doc]
    /\ Elsewhere /\ UNCHANGED <<uploadVars, pc, built>>

AfterWhatIsThere(old, doc) == [n \in DOMAIN doc |-> old[n] \o doc[n]]
Replaced(old, doc) == doc

CloseRecord(b) ==
    /\ Goes(b, "write", "graph")
    /\ files' = [files EXCEPT ![tree[b]] =
                    [there |-> TRUE, whole |-> TRUE, doc |-> Replaced(@.doc, SaveToFile(built[b]))]]
    /\ Elsewhere /\ UNCHANGED <<uploadVars, built>>

(* The disk is full: what is in the buffer is lost, and nobody asks.       *)
CloseFullDisk(b) ==
    /\ Goes(b, "write", "graph")
    /\ Cardinality(kills) < MaxKills
    /\ kills' = kills \cup {<<b, "full">>}
    /\ UNCHANGED <<uploadVars, bundleVars, tree, built, edits, files, gone>>

(* Any build may be run with -g, and with --no-upload. *)
GraphThrows(b) ==
    /\ Goes(b, "graph", "failed")
    /\ Release(b)
    /\ Elsewhere /\ UNCHANGED <<built, files>>

GraphSaved(b) ==
    /\ Goes(b, "graph", "upload")
    /\ BeginUpload(b)
    /\ Elsewhere /\ UNCHANGED <<built, files>>

EndWithoutUpload(b) ==
    /\ Goes(b, "graph", "not uploaded")
    /\ Release(b)
    /\ Elsewhere /\ UNCHANGED <<built, files>>

Upload(b) ==
    /\ pc[b] = "upload" /\ UploadStep(b)
    /\ Elsewhere /\ UNCHANGED <<pc, built, files>>

(* Uploads that failed do not count: the status is 0. *)
EndOfUpload(b) ==
    /\ upc[b] = "next" /\ todo[b] = {}
    /\ Goes(b, "upload", "ended")
    /\ Release(b)
    /\ Elsewhere /\ UNCHANGED <<built, files>>

Kill(b) ==
    /\ pc[b] \in Underway /\ Cardinality(kills) < MaxKills
    /\ kills' = kills \cup {<<b, pc[b]>>}
    /\ pc' = [pc EXCEPT ![b] = "failed"]
    /\ Release(b)
    /\ UNCHANGED <<bundleVars, tree, built, edits, files, gone>>

(* The record is read at any time; what createBundle does then commutes    *)
(* with every step of a build, and is taken when none is under way.        *)
AllOver == \A b \in Clients : pc[b] \notin Underway

BuildStep(b) ==
    \/ Start(b) \/ Track(b) \/ TrackingLost(b) \/ TrackBuildThrows(b) \/ SaveThrows(b)
    \/ OpenRecord(b) \/ FlushRecord(b) \/ CloseRecord(b) \/ CloseFullDisk(b) \/ GraphThrows(b)
    \/ GraphSaved(b) \/ EndWithoutUpload(b) \/ Upload(b) \/ EndOfUpload(b) \/ Kill(b)

UserEdits ==
    /\ edits < MaxEdits /\ edits' = edits + 1
    /\ \E f \in Custom, content \in Contents \cup {Absent} :
          Edit(f, content) /\ edited' = edited \cup {f}
    /\ UNCHANGED <<bpc, record, uncopied, staging, archives>>
    /\ UNCHANGED <<tree, pc, built, kills, files, gone>>

(* A tree is removed, or the record taken to where it is not.              *)
TreeGoes(t) ==
    /\ edits < MaxEdits /\ edits' = edits + 1
    /\ \A b \in Clients : tree[b] = t => pc[b] \in Over
    /\ t \notin gone /\ gone' = gone \cup {t}
    /\ UNCHANGED <<uploadVars, bundleVars, tree, pc, built, kills, files>>

Done == (\A b \in Clients : pc[b] \in Over) /\ UNCHANGED vars

Next ==
    \/ \E b \in Clients : BuildStep(b)
    \/ \E q \in Bundlers : /\ HandleBundle(q) \/ (AllOver /\ CreateBundle(q))
                           /\ UNCHANGED <<uploadVars, pipelineVars>>
    \/ UserEdits \/ Done
    \/ \E t \in Trees : TreeGoes(t)

Spec == Init /\ [][Next]_vars

-----------------------------------------------------------------------------
(* Every variable stays in its type; a file is put under way only by a     *)
(* build that uploads.                                                     *)
TypeOK ==
    /\ UploadTypeOK /\ BundleTypeOK
    /\ pc \in [Clients -> Underway \cup Over \cup {"idle"}]
    /\ \A b \in Clients : built[b].deps \subseteq Deps
    /\ \A b \in Clients : upc[b] # "off" <=> pc[b] = "upload"
    /\ \A t \in Trees : LoadFromFile(files[t].doc).deps \subseteq Deps
                         /\ (files[t].whole => files[t].there)

(* The record of a build may have been cut.                                *)
Cut(b) == <<b, "write">> \in kills \/ <<b, "full">> \in kills

(* What a record file says whole is what a build of its tree used, or      *)
(* nothing where tracing it failed; a build that has ended well has its    *)
(* record there until the next one of the tree writes; and a record is     *)
(* whole unless it is being written, or a build was killed writing it or   *)
(* found the disk full.  (trackBuild, saveToFile)                          *)
RecordsAreWhole ==
    \A t \in Trees :
        LET builds == {b \in Clients : tree[b] = t}
        IN  /\ files[t].there /\ ~files[t].whole =>
                  \E b \in builds : pc[b] = "write" \/ Cut(b)
            /\ files[t].whole => \E b \in builds : LoadFromFile(files[t].doc) = built[b]
            /\ \A b \in builds : pc[b] \in {"ended", "not uploaded"} =>
                  \/ files[t].whole /\ LoadFromFile(files[t].doc) = built[b]
                  \/ \E a \in builds \ {b} : pc[a] \notin {"idle", "track", "postprocess"}
                  \/ Cut(b)

(* When neither zip nor curl nor the server failed, a build that ended has *)
(* its files in the store, though others may have removed the zips it was  *)
(* about to put.  (uploadCustomDependencies, uploadFile)                   *)
UploadedUnlessFaulty ==
    \A b \in Clients : pc[b] = "ended" /\ ~faulty =>
        \A d \in built[b].deps :
            d.path \in Custom \ edited => store[d.hash] # {}

NoneKilled == \A k \in kills : k[2] = "full"

(* Once all have ended, neither zips nor directories are left, but for     *)
(* those of a reprobuild that was killed or failed.                        *)
(* (uploadFile, createBundle)                                              *)
NothingLeftBehind ==
    AllOver =>
        /\ NoneKilled => \A f \in Files : zips[f] \subseteq {Foreign}
        /\ \A s \in Seconds : staging[s] # <<>> =>
              \E q \in Bundlers : SecondOf[q] = s /\ bpc[q] \notin {"idle", "loaded", "done"}
=============================================================================
