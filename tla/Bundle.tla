------------------------------- MODULE Bundle -------------------------------
(***************************************************************************)
(* reprobuild -b (src/bundle.cpp, handleBundle in src/main.cpp): the       *)
(* source tree, the files of no package and the record are collected in a  *)
(* directory of /tmp named after the second it is made in, archived, and   *)
(* the directory is removed.  Bundles are made at the same time, while     *)
(* files are edited.                                                       *)
(***************************************************************************)
EXTENDS Uploader, RecordFile

CONSTANTS
    Bundlers,       \* reprobuilds with -b
    RecordOf,       \* the record file given to each
    ArchiveOf,      \* the archive it makes
    Kind,           \* the archive's kind: "tar" or "zip"
    Trees,          \* builds' trees, each with one record file
    SecondOf        \* the second in which each bundler names its directory

Nothing == [src |-> {}, deps |-> {}, record |-> NoText]

ASSUME BundleAssumption == RecordOf \in [Bundlers -> Trees]

(* No two bundles are begun in one second. *)
SecondsApart == \A p, q \in Bundlers : SecondOf[p] = SecondOf[q] => p = q

VARIABLES
    files,      \* the record files: what they hold and whether it is all
    gone,       \* trees that were removed, or are on another machine
    bpc,        \* where each bundler is
    record,     \* what it has loaded
    uncopied,   \* the dependencies it has yet to come to
    staging,    \* the directories, by second; absent ones are <<>>
    archives,   \* contents of the archives, and who made them
    edited      \* the files edited since the start

bundleVars == <<bpc, record, uncopied, staging, archives, edited>>

Seconds == {SecondOf[q] : q \in Bundlers}
Archives == {ArchiveOf[q] : q \in Bundlers}

BundleInit ==
    /\ bpc = [q \in Bundlers |-> "idle"]
    /\ record = [q \in Bundlers |-> NoRecord]
    /\ uncopied = [q \in Bundlers |-> {}]
    /\ staging = [s \in Seconds |-> <<>>]
    /\ archives = [a \in Archives |-> [by |-> <<>>, holds |-> Nothing]]
    /\ edited = {}

Bundling(q, from, to) == bpc[q] = from /\ bpc' = [bpc EXCEPT ![q] = to]

-----------------------------------------------------------------------------
(* handleBundle, loadFromFile.  A record that is torn is loaded as far as  *)
(* it goes, unless the YAML of what is there is broken.                    *)
LoadRecord(q) ==
    /\ files[RecordOf[q]].there
    /\ Bundling(q, "idle", "loaded")
    /\ record' = [record EXCEPT ![q] = LoadFromFile(files[RecordOf[q]].doc)]
    /\ UNCHANGED <<uncopied, staging, archives, edited>>

CannotLoad(q) ==
    /\ ~files[RecordOf[q]].whole
    /\ Bundling(q, "idle", "failed")
    /\ UNCHANGED <<record, uncopied, staging, archives, edited>>

-----------------------------------------------------------------------------
(* createBundle *)

FixedName(s) == CHOOSE t \in Seconds : TRUE
(* The random number in the name is the same in every process: the         *)
(* generator is not seeded.                                                *)
TempDir(s) == s

Dir(q) == TempDir(SecondOf[q])
Staged(q) == staging[Dir(q)]

MakeStaging(q) ==
    /\ Bundling(q, "loaded", "source")
    /\ staging' = [staging EXCEPT ![Dir(q)] = IF @ = <<>> THEN Nothing ELSE @]
    /\ UNCHANGED <<record, uncopied, archives, edited>>

Stage(q, field, value) ==
    staging' = [staging EXCEPT ![Dir(q)][field] = value]

Existing(path) == {path} \ (gone \cup {""})

(* A record without the path, or of a tree that is gone, is bundled        *)
(* without the source; this is but a warning.                              *)
CopySource(q) ==
    /\ Staged(q) # <<>>
    /\ Bundling(q, "source", "deps")
    /\ Stage(q, "src", Staged(q).src \cup Existing(record[q].build_path))
    /\ uncopied' = [uncopied EXCEPT ![q] = {d \in record[q].deps : IsCustom(d)}]
    /\ UNCHANGED <<record, archives, edited>>

Others(deps, path) == {d \in deps : d.path # path}

(* A dependency is copied as it is now, or left out if it is gone.         *)
CopyDependency(q, d) ==
    /\ Staged(q) # <<>>
    /\ bpc[q] = "deps"
    /\ \A e \in uncopied[q] : d.path <= e.path
    /\ uncopied' = [uncopied EXCEPT ![q] = @ \ {d}]
    /\ IF disk[d.path] = Absent
       THEN UNCHANGED staging
       ELSE Stage(q, "deps", Others(Staged(q).deps, d.path)
                             \cup {[path |-> d.path, content |-> disk[d.path]]})
    /\ UNCHANGED <<bpc, record, archives, edited>>

SaveInside(q) ==
    /\ Staged(q) # <<>>
    /\ uncopied[q] = {}
    /\ Bundling(q, "deps", "archive")
    /\ Stage(q, "record", SaveToFile(record[q]))
    /\ UNCHANGED <<record, uncopied, archives, edited>>

(* zip adds to an archive there is; tar makes a new one.                   *)
Archived(q, old) ==
    IF Kind[q] = "tar" THEN Staged(q)
    ELSE [Staged(q) EXCEPT !.src = @ \cup old.src,
                           !.deps = @ \cup {d \in old.deps : \A e \in @ : e.path # d.path}]

CreateArchive(q) ==
    /\ Staged(q) # <<>>
    /\ Bundling(q, "archive", "remove")
    /\ archives' = [archives EXCEPT ![ArchiveOf[q]] =
                       [by |-> <<q>>, holds |-> Archived(q, @.holds)]]
    /\ UNCHANGED <<record, uncopied, staging, edited>>

RemoveAll(d) == <<>>

RemoveStaging(q) ==
    /\ Bundling(q, "remove", "done")
    /\ staging' = [staging EXCEPT ![Dir(q)] = RemoveAll(@)]
    /\ UNCHANGED <<record, uncopied, archives, edited>>

(* A copy, the record or the archiver fails, and this may leave an archive *)
(* that is none; the exception passes the cleaning up.  What was loaded is *)
(* gone with the program.                                                  *)
BundleFails(q) ==
    /\ bpc[q] \in {"loaded", "source", "deps", "archive", "remove"}
    /\ bpc' = [bpc EXCEPT ![q] = "failed"]
    /\ \/ UNCHANGED archives
       \/ /\ bpc[q] = "archive"
          /\ archives' = [archives EXCEPT ![ArchiveOf[q]] = [by |-> <<>>, holds |-> Nothing]]
    /\ record' = [record EXCEPT ![q] = NoRecord]
    /\ uncopied' = [uncopied EXCEPT ![q] = {}]
    /\ UNCHANGED <<staging, edited>>

HandleBundle(q) == LoadRecord(q) \/ CannotLoad(q)
CreateBundle(q) ==
    \/ MakeStaging(q) \/ CopySource(q)
    \/ \E d \in uncopied[q] : CopyDependency(q, d)
    \/ SaveInside(q) \/ CreateArchive(q) \/ RemoveStaging(q) \/ BundleFails(q)

-----------------------------------------------------------------------------
BundleTypeOK ==
    /\ bpc \in [Bundlers -> {"idle", "loaded", "source", "deps", "archive",
                              "remove", "done", "failed"}]
    /\ \A q \in Bundlers : record[q].deps \subseteq Deps
    /\ uncopied \in [Bundlers -> SUBSET Deps]
    /\ \A s \in Seconds : staging[s] = <<>> \/ {d.path : d \in staging[s].deps} \subseteq Files
    /\ edited \subseteq Custom /\ gone \subseteq Trees

(* A bundle that was made holds the record it was asked for, its tree      *)
(* unless that is gone, and only files of that record, each of them that   *)
(* was not touched since; whatever other bundles were made at the time.    *)
(* (createBundle)                                                          *)
BundleHoldsItsRecord ==
    \A q \in Bundlers :
        bpc[q] \in {"remove", "done"} /\ archives[ArchiveOf[q]].by = <<q>> =>
            LET holds == archives[ArchiveOf[q]].holds
                custom == {e \in record[q].deps : IsCustom(e)}
                path == record[q].build_path
            IN  /\ Existing(path) \subseteq holds.src /\ holds.src \subseteq {path} \ {""}
                /\ LoadFromFile(holds.record) = record[q]
                /\ \A d \in holds.deps : \E e \in custom : e.path = d.path
                /\ \A e \in custom : e.path \notin edited =>
                       [path |-> e.path, content |-> e.hash] \in holds.deps
=============================================================================
