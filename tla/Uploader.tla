------------------------------ MODULE Uploader ------------------------------
(***************************************************************************)
(* The uploads of src/uploader.cpp.  Every reprobuild stores the files     *)
(* that belong to no package on a MinIO server, each as <hash>.zip, under  *)
(* the hash taken when its build ended.  The file is read again, zipped    *)
(* next to itself as <file>.zip, put, and the zip is removed; several      *)
(* reprobuilds, killed at any moment, do this for the same files.          *)
(*                                                                         *)
(* The hash of a content is the content itself.                            *)
(***************************************************************************)
EXTENDS Naturals, FiniteSets

CONSTANTS
    Files,          \* files that builds use: numbers, in the order of their names
    Custom,         \* those of no package
    Contents,       \* what a file may hold
    Original,       \* what each held first
    Absent,         \* no file
    Foreign,        \* entries of other names, in a <file>.zip of the user's
    UserZips,       \* files beside which the user keeps one
    Clients         \* reprobuilds

ASSUME UploaderAssumption ==
    /\ Custom \subseteq Files /\ Files \subseteq Nat /\ UserZips \subseteq Files
    /\ Original \in [Files -> Contents]
    /\ Absent \notin Contents /\ Foreign \notin Contents

(* Files of packages are of apt. *)
Deps == [path : Files, hash : Contents, origin : {"apt", "custom"}]
Resolved(f, h) ==
    [path |-> f, hash |-> h, origin |-> IF f \in Custom THEN "custom" ELSE "apt"]

VARIABLES
    disk,       \* content of each file, or Absent
    zips,       \* entries of <file>.zip; {} if there is none
    store,      \* entries of <hash>.zip on the server; {} if there is none
    taken,      \* dependencies with their hashes, of each reprobuild
    upc,        \* where each is in uploadCustomDependencies
    todo,       \* the dependencies it has yet to come to
    faulty      \* whether zip, curl or the server has ever failed

uploadVars == <<disk, zips, store, taken, upc, todo, faulty>>

UploadInit ==
    /\ disk = Original
    /\ zips = [f \in Files |-> IF f \in UserZips THEN {Foreign} ELSE {}]
    /\ store = [h \in Contents |-> {}]
    /\ taken = [c \in Clients |-> {}]
    /\ upc = [c \in Clients |-> "off"]
    /\ todo = [c \in Clients |-> {}]
    /\ faulty = FALSE

At(c, from, to) == upc[c] = from /\ upc' = [upc EXCEPT ![c] = to]

(* The user writes a file or deletes it; but between the taking of its     *)
(* hash and the end of the uploads it is only deleted.                     *)
Edit(f, content) ==
    /\ f \in Custom /\ content # disk[f]
    /\ content = Absent \/ \A c \in Clients : \A d \in taken[c] : d.path # f
    /\ disk' = [disk EXCEPT ![f] = content]
    /\ UNCHANGED <<zips, store, taken, upc, todo, faulty>>

(* The build has ended, and its files are hashed. *)
Take(c, used) ==
    /\ upc[c] = "off" /\ taken[c] = {}
    /\ taken' = [taken EXCEPT ![c] = {Resolved(f, disk[f]) : f \in {g \in used : disk[g] # Absent}}]
    /\ UNCHANGED <<disk, zips, store, upc, todo, faulty>>

-----------------------------------------------------------------------------
(* uploadCustomDependencies, in the order of the names. *)

IsOfPackage(d) == d.origin # "custom"
IsCustom(d) == d.origin = "custom"

BeginUpload(c) ==
    /\ At(c, "off", "next")
    /\ todo' = [todo EXCEPT ![c] = {d \in taken[c] : IsCustom(d)}]
    /\ UNCHANGED <<disk, zips, store, taken, faulty>>

IsNext(c, d) == d \in todo[c] /\ \A e \in todo[c] : d.path <= e.path

Leave(c, d) == todo' = [todo EXCEPT ![c] = @ \ {d}]

(* The file is gone, or its object is there. *)
Skip(c, d) ==
    /\ upc[c] = "next" /\ IsNext(c, d)
    /\ disk[d.path] = Absent \/ store[d.hash] # {}
    /\ Leave(c, d)
    /\ UNCHANGED <<disk, zips, store, taken, upc, faulty>>

(* The server says the object is not there, or curl gets no answer.        *)
NotStored(c, d) ==
    /\ At(c, "next", "zip") /\ IsNext(c, d)
    /\ disk[d.path] # Absent
    /\ faulty' = (faulty \/ store[d.hash] # {})
    /\ UNCHANGED <<disk, zips, store, taken, todo>>

AddEntry(zip, content) == IF zip = {} THEN {content} ELSE zip
(* zip updates an archive there is: the entry is replaced, others stay.    *)
ReplaceEntry(zip, content) == (zip \cap {Foreign}) \cup {content}

CompressFile(c, d) ==
    /\ At(c, "zip", "put") /\ IsNext(c, d)
    /\ disk[d.path] # Absent
    /\ zips' = [zips EXCEPT ![d.path] = ReplaceEntry(@, disk[d.path])]
    /\ UNCHANGED <<disk, store, taken, todo, faulty>>

(* compressFile gives up: the file is gone, or zip fails. *)
CompressFails(c, d) ==
    /\ At(c, "zip", "next") /\ IsNext(c, d)
    /\ Leave(c, d)
    /\ faulty' = (faulty \/ disk[d.path] # Absent)
    /\ UNCHANGED <<disk, zips, store, taken>>

Put(c, d) ==
    /\ At(c, "put", "remove") /\ IsNext(c, d)
    /\ zips[d.path] # {}
    /\ store' = [store EXCEPT ![d.hash] = zips[d.path]]
    /\ UNCHANGED <<disk, zips, taken, todo, faulty>>

(* Another reprobuild has removed the zip, or the server does not take it. *)
PutFails(c, d) ==
    /\ At(c, "put", "remove") /\ IsNext(c, d)
    /\ faulty' = (faulty \/ zips[d.path] # {})
    /\ UNCHANGED <<disk, zips, store, taken, todo>>

KeepZip(zip) == zip
RemoveZip(zip) == {}

RemoveCompressed(c, d) ==
    /\ At(c, "remove", "next") /\ IsNext(c, d)
    /\ zips' = [zips EXCEPT ![d.path] = RemoveZip(@)]
    /\ Leave(c, d)
    /\ UNCHANGED <<disk, store, taken, faulty>>

(* The reprobuild ends, or is killed wherever it is. *)
Release(c) ==
    /\ upc' = [upc EXCEPT ![c] = "off"]
    /\ todo' = [todo EXCEPT ![c] = {}]
    /\ taken' = [taken EXCEPT ![c] = {}]
    /\ UNCHANGED <<disk, zips, store, faulty>>

UploadStep(c) ==
    \E d \in todo[c] : \/ Skip(c, d) \/ NotStored(c, d)
                       \/ CompressFile(c, d) \/ CompressFails(c, d)
                       \/ Put(c, d) \/ PutFails(c, d) \/ RemoveCompressed(c, d)

UploadNext ==
    \/ \E f \in Files, content \in Contents \cup {Absent} : Edit(f, content)
    \/ \E c \in Clients : \/ \E used \in SUBSET Files : Take(c, used)
                          \/ BeginUpload(c) \/ UploadStep(c) \/ Release(c)

UploadSpec == UploadInit /\ [][UploadNext]_uploadVars

-----------------------------------------------------------------------------
UploadTypeOK ==
    /\ disk \in [Files -> Contents \cup {Absent}]
    /\ zips \in [Files -> SUBSET (Contents \cup {Foreign})]
    /\ store \in [Contents -> SUBSET (Contents \cup {Foreign})]
    /\ taken \in [Clients -> SUBSET Deps]
    /\ upc \in [Clients -> {"off", "next", "zip", "put", "remove"}]
    /\ todo \in [Clients -> SUBSET Deps]
    /\ faulty \in BOOLEAN

(* Whatever reprobuilds do at the same time for the same files, and        *)
(* whatever zips a killed one has left, an object of the store holds the   *)
(* content its name is the hash of, and of that file nothing else.         *)
(* (uploadCustomDependencies, compressFile)                                *)
StoredUnderItsHash ==
    \A h \in Contents : store[h] \cap Contents \subseteq {h}
                        /\ (store[h] # {} => h \in store[h])
=============================================================================
