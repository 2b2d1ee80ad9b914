--------------------------- MODULE PipelineProofs ---------------------------
(***************************************************************************)
(* Proofs about Uploader and Pipeline.  Whatever number of reprobuilds     *)
(* upload the same files, killed wherever they are, an object of the store *)
(* holds the content its name is the hash of; and main, with every way out *)
(* of it, and the bundles made beside it do to the files, the zips and the *)
(* store what Uploader says, so that this holds of the whole.  Of the      *)
(* whole, too: records are whole or torn by who writes them, builds that   *)
(* met no fault have stored their files, nothing is left behind, and       *)
(* bundles made at the same time do not mix.                               *)
(***************************************************************************)
EXTENDS Pipeline, FiniteSetTheorems, SequenceTheorems, TLAPS

(* What an upload has taken is still there, unless it was deleted.         *)
Current == \A c \in Clients : \A d \in taken[c] : disk[d.path] \in {d.hash, Absent}

(* Two that have taken one file have taken one hash.                       *)
Agreement ==
    \A b, c \in Clients : \A d \in taken[b], e \in taken[c] :
        d.path = e.path => d.hash = e.hash

TodoTaken == \A c \in Clients : todo[c] \subseteq taken[c]

HoldsOnly(zip, h) == h \in zip /\ zip \cap Contents \subseteq {h}

(* A zip that is about to be put holds what it will be stored as, or is    *)
(* gone.                                                                   *)
Zipped ==
    \A c \in Clients : upc[c] = "put" => \A d \in todo[c] :
        IsNext(c, d) => zips[d.path] = {} \/ HoldsOnly(zips[d.path], d.hash)

IndInv == UploadTypeOK /\ Current /\ Agreement /\ TodoTaken /\ Zipped /\ StoredUnderItsHash

-----------------------------------------------------------------------------
LEMMA UploadInitIndInv == UploadInit => IndInv
BY UploaderAssumption
DEF UploadInit, IndInv, UploadTypeOK, Current, Agreement, TodoTaken, Zipped, StoredUnderItsHash

(* Only one dependency is next: the paths of the others are greater.       *)
LEMMA NextIsOne ==
    ASSUME UploadTypeOK, Agreement, TodoTaken, NEW c \in Clients,
           NEW d \in todo[c], NEW e \in todo[c], IsNext(c, d), IsNext(c, e)
    PROVE  d.path = e.path /\ d.hash = e.hash
<1>1. d \in Deps /\ e \in Deps
  BY DEF UploadTypeOK
<1>2. d.path \in Nat /\ e.path \in Nat
  BY <1>1, UploaderAssumption DEF Deps
<1>3. d.path = e.path
  BY <1>2 DEF IsNext
<1> QED
  BY <1>3 DEF Agreement, TodoTaken

(* A step that leaves the zips and the server alone, takes nothing away    *)
(* from the store and makes no client ready to put.                        *)
LEMMA QuietStep ==
    ASSUME IndInv, UploadTypeOK', UNCHANGED <<disk, zips, store>>,
           \A c \in Clients : taken'[c] \subseteq taken[c] /\ todo'[c] \subseteq taken'[c],
           \A c \in Clients : upc'[c] = "put" => upc[c] = "put" /\ todo'[c] = todo[c]
    PROVE  IndInv'
<1>1. Current' /\ Agreement' /\ TodoTaken' /\ StoredUnderItsHash'
  BY DEF IndInv, Current, Agreement, TodoTaken, StoredUnderItsHash
<1>2. Zipped'
  BY DEF IndInv, Zipped, IsNext
<1> QED
  BY <1>1, <1>2 DEF IndInv

-----------------------------------------------------------------------------
LEMMA EditStep ==
    ASSUME IndInv, NEW f \in Files, NEW content \in Contents \cup {Absent}, Edit(f, content)
    PROVE  IndInv'
<1>1. UploadTypeOK'
  BY DEF IndInv, UploadTypeOK, Edit
<1>2. Current'
  <2> SUFFICES ASSUME NEW c \in Clients, NEW d \in taken[c]
               PROVE  disk'[d.path] \in {d.hash, Absent}
    BY DEF Current, Edit
  <2>1. d.path \in Files
    BY DEF IndInv, UploadTypeOK, Deps
  <2>2. CASE d.path = f
    BY <2>1, <2>2 DEF IndInv, UploadTypeOK, Edit
  <2>3. CASE d.path # f
    BY <2>1, <2>3 DEF IndInv, UploadTypeOK, Edit, Current
  <2> QED
    BY <2>2, <2>3
<1>3. Agreement' /\ TodoTaken' /\ StoredUnderItsHash'
  BY DEF IndInv, Edit, Agreement, TodoTaken, StoredUnderItsHash
<1>4. Zipped'
  BY DEF IndInv, Edit, Zipped, IsNext
<1> QED
  BY <1>1, <1>2, <1>3, <1>4 DEF IndInv

LEMMA TakeStep ==
    ASSUME IndInv, NEW c \in Clients, NEW used \in SUBSET Files, Take(c, used)
    PROVE  IndInv'
<1> DEFINE new == {Resolved(f, disk[f]) : f \in {g \in used : disk[g] # Absent}}
<1>1. \A d \in new : d \in Deps /\ d.hash = disk[d.path] /\ disk[d.path] # Absent
  BY DEF IndInv, UploadTypeOK, Resolved, Deps
<1>2. \A b \in Clients : taken'[b] = IF b = c THEN new ELSE taken[b]
  BY DEF IndInv, UploadTypeOK, Take
<1> HIDE DEF new
<1>3. UploadTypeOK'
  BY <1>1 DEF IndInv, UploadTypeOK, Take, new
<1>4. Current'
  BY <1>1, <1>2 DEF IndInv, Current, Take
<1>5. Agreement'
  <2> SUFFICES ASSUME NEW a \in Clients, NEW b \in Clients,
                      NEW d \in taken'[a], NEW e \in taken'[b], d.path = e.path
               PROVE  d.hash = e.hash
    BY DEF Agreement
  <2>1. CASE a = c /\ b = c
    BY <2>1, <1>1, <1>2
  <2>2. CASE a = c /\ b # c
    BY <2>2, <1>1, <1>2 DEF IndInv, Current
  <2>3. CASE a # c /\ b = c
    BY <2>3, <1>1, <1>2 DEF IndInv, Current
  <2>4. CASE a # c /\ b # c
    BY <2>4, <1>2 DEF IndInv, Agreement
  <2> QED
    BY <2>1, <2>2, <2>3, <2>4
<1>6. TodoTaken'
  BY <1>2 DEF IndInv, TodoTaken, Take
<1>7. Zipped' /\ StoredUnderItsHash'
  BY DEF IndInv, Zipped, IsNext, StoredUnderItsHash, Take
<1> QED
  BY <1>3, <1>4, <1>5, <1>6, <1>7 DEF IndInv

LEMMA BeginUploadStep ==
    ASSUME IndInv, NEW c \in Clients, BeginUpload(c)
    PROVE  IndInv'
<1>1. UploadTypeOK'
  BY DEF IndInv, UploadTypeOK, BeginUpload, At
<1>2. \A b \in Clients : /\ taken'[b] \subseteq taken[b]
                         /\ todo'[b] \subseteq taken'[b]
                         /\ upc'[b] = "put" => upc[b] = "put" /\ todo'[b] = todo[b]
  BY DEF IndInv, UploadTypeOK, TodoTaken, BeginUpload, At
<1> QED
  BY <1>1, <1>2, QuietStep DEF BeginUpload

LEMMA ReleaseStep ==
    ASSUME IndInv, NEW c \in Clients, Release(c)
    PROVE  IndInv'
<1>1. UploadTypeOK'
  BY DEF IndInv, UploadTypeOK, Release
<1>2. \A b \in Clients : /\ taken'[b] \subseteq taken[b]
                         /\ todo'[b] \subseteq taken'[b]
                         /\ upc'[b] = "put" => upc[b] = "put" /\ todo'[b] = todo[b]
  BY DEF IndInv, UploadTypeOK, TodoTaken, Release
<1> QED
  BY <1>1, <1>2, QuietStep DEF Release

-----------------------------------------------------------------------------
(* Skip, NotStored, CompressFails and PutFails leave zips and store alone. *)
LEMMA OtherUploadSteps ==
    ASSUME IndInv, NEW c \in Clients, NEW d \in todo[c],
           Skip(c, d) \/ NotStored(c, d) \/ CompressFails(c, d) \/ PutFails(c, d)
    PROVE  IndInv'
<1>1. UploadTypeOK'
  BY DEF IndInv, UploadTypeOK, Skip, NotStored, CompressFails, PutFails, At, Leave
<1>2. \A b \in Clients : /\ taken'[b] \subseteq taken[b]
                         /\ todo'[b] \subseteq taken'[b]
                         /\ upc'[b] = "put" => upc[b] = "put" /\ todo'[b] = todo[b]
  BY DEF IndInv, UploadTypeOK, TodoTaken, Skip, NotStored, CompressFails, PutFails, At, Leave
<1>3. UNCHANGED <<disk, zips, store>>
  BY DEF Skip, NotStored, CompressFails, PutFails
<1> QED
  BY <1>1, <1>2, <1>3, QuietStep

LEMMA CompressFileStep ==
    ASSUME IndInv, NEW c \in Clients, NEW d \in todo[c], CompressFile(c, d)
    PROVE  IndInv'
<1>1. d \in taken[c] /\ d \in Deps
  BY DEF IndInv, TodoTaken, UploadTypeOK
<1>2. d.path \in Files /\ d.hash \in Contents /\ disk[d.path] = d.hash
  BY <1>1 DEF IndInv, Current, CompressFile, Deps
<1>3. UploadTypeOK'
  BY <1>2 DEF IndInv, UploadTypeOK, CompressFile, At, ReplaceEntry
<1>4. Current' /\ Agreement' /\ TodoTaken' /\ StoredUnderItsHash'
  BY DEF IndInv, Current, Agreement, TodoTaken, StoredUnderItsHash, CompressFile
<1>5. HoldsOnly(zips'[d.path], d.hash)
  BY <1>2, UploaderAssumption DEF IndInv, UploadTypeOK, CompressFile, ReplaceEntry, HoldsOnly
<1>6. Zipped'
  <2> SUFFICES ASSUME NEW b \in Clients, upc'[b] = "put", NEW e \in todo[b], IsNext(b, e)
               PROVE  zips'[e.path] = {} \/ HoldsOnly(zips'[e.path], e.hash)
    BY DEF Zipped, IsNext, CompressFile
  <2>1. e \in taken[b] /\ e.path \in Files
    BY DEF IndInv, TodoTaken, UploadTypeOK, Deps
  <2>2. CASE e.path = d.path
    BY <1>1, <1>5, <2>1, <2>2 DEF IndInv, Agreement
  <2>3. CASE e.path # d.path
    <3>1. b # c
      BY <2>3, NextIsOne DEF IndInv, CompressFile
    <3>2. upc[b] = "put" /\ zips'[e.path] = zips[e.path]
      BY <2>1, <2>3, <3>1 DEF IndInv, UploadTypeOK, CompressFile, At
    <3> QED
      BY <3>2 DEF IndInv, Zipped
  <2> QED
    BY <2>2, <2>3
<1> QED
  BY <1>3, <1>4, <1>6 DEF IndInv

LEMMA PutStep ==
    ASSUME IndInv, NEW c \in Clients, NEW d \in todo[c], Put(c, d)
    PROVE  IndInv'
<1>1. d.path \in Files /\ d.hash \in Contents
  BY DEF IndInv, UploadTypeOK, Deps
<1>2. UploadTypeOK'
  BY <1>1 DEF IndInv, UploadTypeOK, Put, At
<1>3. HoldsOnly(zips[d.path], d.hash)
  BY DEF IndInv, Zipped, Put, At
<1>4. StoredUnderItsHash'
  <2> SUFFICES ASSUME NEW h \in Contents
               PROVE  /\ store'[h] \cap Contents \subseteq {h}
                      /\ store'[h] # {} => h \in store'[h]
    BY DEF StoredUnderItsHash
  <2>1. CASE h = d.hash
    BY <1>1, <1>3, <2>1 DEF IndInv, UploadTypeOK, Put, HoldsOnly
  <2>2. CASE h # d.hash
    BY <1>1, <2>2 DEF IndInv, UploadTypeOK, Put, StoredUnderItsHash
  <2> QED
    BY <2>1, <2>2
<1>5. Current' /\ Agreement' /\ TodoTaken'
  BY DEF IndInv, Current, Agreement, TodoTaken, Put
<1>6. Zipped'
  BY DEF IndInv, UploadTypeOK, Zipped, IsNext, Put, At
<1> QED
  BY <1>2, <1>4, <1>5, <1>6 DEF IndInv

LEMMA RemoveCompressedStep ==
    ASSUME IndInv, NEW c \in Clients, NEW d \in todo[c], RemoveCompressed(c, d)
    PROVE  IndInv'
<1>1. d.path \in Files
  BY DEF IndInv, UploadTypeOK, Deps
<1>2. UploadTypeOK'
  BY <1>1 DEF IndInv, UploadTypeOK, RemoveCompressed, At, Leave, RemoveZip
<1>3. Current' /\ Agreement' /\ StoredUnderItsHash'
  BY DEF IndInv, Current, Agreement, StoredUnderItsHash, RemoveCompressed
<1>4. TodoTaken'
  BY DEF IndInv, UploadTypeOK, TodoTaken, RemoveCompressed, Leave
<1>5. Zipped'
  <2> SUFFICES ASSUME NEW b \in Clients, upc'[b] = "put", NEW e \in todo'[b],
                      \A x \in todo'[b] : e.path <= x.path
               PROVE  zips'[e.path] = {} \/ HoldsOnly(zips'[e.path], e.hash)
    BY DEF Zipped, IsNext
  <2>1. b # c /\ upc[b] = "put" /\ todo'[b] = todo[b]
    BY DEF IndInv, UploadTypeOK, RemoveCompressed, At, Leave
  <2>2. e.path \in Files
    BY <2>1 DEF IndInv, UploadTypeOK, Deps
  <2>3. zips[e.path] = {} \/ HoldsOnly(zips[e.path], e.hash)
    BY <2>1 DEF IndInv, Zipped, IsNext
  <2> QED
    BY <2>2, <2>3 DEF IndInv, UploadTypeOK, RemoveCompressed, RemoveZip
<1> QED
  BY <1>2, <1>3, <1>4, <1>5 DEF IndInv

-----------------------------------------------------------------------------
LEMMA UploadNextIndInv == IndInv /\ [UploadNext]_uploadVars => IndInv'
<1> SUFFICES ASSUME IndInv, [UploadNext]_uploadVars
             PROVE  IndInv'
  OBVIOUS
<1>1. ASSUME NEW f \in Files, NEW content \in Contents \cup {Absent}, Edit(f, content)
      PROVE  IndInv'
  BY <1>1, EditStep
<1>2. ASSUME NEW c \in Clients, NEW used \in SUBSET Files, Take(c, used)
      PROVE  IndInv'
  BY <1>2, TakeStep
<1>3. ASSUME NEW c \in Clients, BeginUpload(c) \/ Release(c)
      PROVE  IndInv'
  BY <1>3, BeginUploadStep, ReleaseStep
<1>4. ASSUME NEW c \in Clients, UploadStep(c)
      PROVE  IndInv'
  <2>1. PICK d \in todo[c] : \/ Skip(c, d) \/ NotStored(c, d)
                             \/ CompressFile(c, d) \/ CompressFails(c, d)
                             \/ Put(c, d) \/ PutFails(c, d) \/ RemoveCompressed(c, d)
    BY <1>4 DEF UploadStep
  <2>2. CASE Skip(c, d) \/ NotStored(c, d) \/ CompressFails(c, d) \/ PutFails(c, d)
    BY <2>2, OtherUploadSteps
  <2>3. CASE CompressFile(c, d)
    BY <2>3, CompressFileStep
  <2>4. CASE Put(c, d)
    BY <2>4, PutStep
  <2>5. CASE RemoveCompressed(c, d)
    BY <2>5, RemoveCompressedStep
  <2> QED
    BY <2>1, <2>2, <2>3, <2>4, <2>5
<1>5. CASE UNCHANGED uploadVars
  BY <1>5 DEF uploadVars, IndInv, UploadTypeOK, Current, Agreement, TodoTaken, Zipped,
              IsNext, StoredUnderItsHash
<1> QED
  BY <1>1, <1>2, <1>3, <1>4, <1>5 DEF UploadNext

(* For any number of files and of reprobuilds, each object of the store    *)
(* holds the content its name is the hash of, and of that file nothing     *)
(* else.  (uploadCustomDependencies, compressFile, uploadToMinioWithCurl)  *)
THEOREM ObjectsAreTheirHash == UploadSpec => []StoredUnderItsHash
<1>1. IndInv => StoredUnderItsHash
  BY DEF IndInv
<1> QED
  BY <1>1, UploadInitIndInv, UploadNextIndInv, PTL DEF UploadSpec

-----------------------------------------------------------------------------
(* The steps of a build before and after its uploads.                      *)
LEMMA BuildStepsUpload ==
    ASSUME NEW b \in Clients, BuildStep(b)
    PROVE  [UploadNext]_uploadVars
<1>1. CASE Start(b) \/ TrackingLost(b) \/ TrackBuildThrows(b) \/ OpenRecord(b)
           \/ FlushRecord(b) \/ CloseRecord(b) \/ CloseFullDisk(b)
  BY <1>1 DEF Start, TrackingLost, TrackBuildThrows, OpenRecord, FlushRecord, CloseRecord, CloseFullDisk
<1>2. CASE Track(b)
  <2>1. Uses[b] \in SUBSET Files
    BY PipelineAssumption
  <2> QED
    BY <1>2, <2>1 DEF Track, UploadNext
<1>3. CASE SaveThrows(b) \/ GraphThrows(b) \/ EndWithoutUpload(b) \/ EndOfUpload(b) \/ Kill(b)
  BY <1>3 DEF SaveThrows, GraphThrows, EndWithoutUpload, EndOfUpload, Kill, UploadNext
<1>4. CASE GraphSaved(b)
  BY <1>4 DEF GraphSaved, UploadNext
<1>5. CASE Upload(b)
  BY <1>5 DEF Upload, UploadNext
<1> QED
  BY <1>1, <1>2, <1>3, <1>4, <1>5 DEF BuildStep

LEMMA NextUploads == [Next]_vars => [UploadNext]_uploadVars
<1> SUFFICES ASSUME [Next]_vars
             PROVE  [UploadNext]_uploadVars
  OBVIOUS
<1>1. ASSUME NEW b \in Clients, BuildStep(b)
      PROVE  [UploadNext]_uploadVars
  BY <1>1, BuildStepsUpload
<1>2. ASSUME NEW q \in Bundlers, UNCHANGED <<uploadVars, pipelineVars>>
      PROVE  [UploadNext]_uploadVars
  BY <1>2
<1>3. CASE UserEdits
  <2>1. PICK f \in Custom, content \in Contents \cup {Absent} : Edit(f, content)
    BY <1>3 DEF UserEdits
  <2>2. f \in Files
    BY UploaderAssumption
  <2> QED
    BY <2>1, <2>2 DEF UploadNext
<1>4. CASE UNCHANGED vars
  BY <1>4 DEF vars
<1>5. CASE \E t \in Trees : TreeGoes(t)
  BY <1>5 DEF TreeGoes
<1> QED
  BY <1>1, <1>2, <1>3, <1>4, <1>5 DEF Next, Done

(* main and createBundle implement the uploads: nothing else that they do, *)
(* and no way in which they end, touches files, zips or the store.         *)
THEOREM PipelineUploads == Spec => UploadSpec
<1>1. Init => UploadInit
  BY DEF Init
<1> QED
  BY <1>1, NextUploads, PTL DEF Spec, UploadSpec

(* Whatever the builds, their kills, the edits and the bundles, an object  *)
(* of the store holds the content its name is the hash of.                 *)
(* (uploadCustomDependencies, called from main)                            *)
THEOREM StoreIsSound == Spec => []StoredUnderItsHash
BY PipelineUploads, ObjectsAreTheirHash, PTL

-----------------------------------------------------------------------------
(* The round trip of a record through its file.                            *)

Proper(r) ==
    /\ IsFiniteSet(r.deps) /\ r.deps \subseteq Deps
    /\ \A d, e \in r.deps : d.path = e.path => d = e

(* A record has its four fields.                                           *)
Shaped(r) == \E p, d, a, c : r = [build_path |-> p, deps |-> d, artifacts |-> a, commits |-> c]

Rank(r, d) == Cardinality(Smaller(r, d))

(* A dependency has as many before it as its rank says, so that two of one *)
(* record differ in rank.                                                  *)
LEMMA RankBounds ==
    ASSUME NEW r, Proper(r), NEW d \in r.deps
    PROVE  Rank(r, d) \in 0..Cardinality(r.deps)-1
<1>0. d.path \in Nat
  BY UploaderAssumption DEF Proper, Deps
<1>1. Smaller(r, d) \subseteq r.deps /\ d \notin Smaller(r, d)
  BY <1>0 DEF Smaller
<1>2. /\ IsFiniteSet(Smaller(r, d)) /\ Cardinality(Smaller(r, d)) <= Cardinality(r.deps)
      /\ Cardinality(Smaller(r, d)) # Cardinality(r.deps)
  BY <1>1, FS_Subset DEF Proper
<1>3. Cardinality(r.deps) \in Nat /\ Cardinality(Smaller(r, d)) \in Nat
  BY <1>2, FS_CardinalityType DEF Proper
<1> QED
  BY <1>2, <1>3 DEF Rank

LEMMA RankGrows ==
    ASSUME NEW r, Proper(r), NEW d \in r.deps, NEW e \in r.deps, d.path < e.path
    PROVE  Rank(r, d) # Rank(r, e)
<1>0. \A x \in r.deps : x.path \in Nat
  BY UploaderAssumption DEF Proper, Deps
<1>1. /\ Smaller(r, e) \subseteq r.deps /\ Smaller(r, d) \subseteq Smaller(r, e)
      /\ d \in Smaller(r, e) /\ d \notin Smaller(r, d)
  BY <1>0 DEF Smaller
<1>2. IsFiniteSet(Smaller(r, e))
  BY <1>1, FS_Subset DEF Proper
<1> QED
  BY <1>1, <1>2, FS_Subset DEF Rank

LEMMA RankIsUnique ==
    ASSUME NEW r, Proper(r), NEW d \in r.deps, NEW e \in r.deps, Rank(r, d) = Rank(r, e)
    PROVE  d = e
<1>1. d.path \in Nat /\ e.path \in Nat
  BY UploaderAssumption DEF Proper, Deps
<1>2. d.path = e.path
  BY <1>1, RankGrows
<1> QED
  BY <1>2 DEF Proper

(* getAllDependencies leaves none out and gives none twice.                *)
LEMMA AllDependencies ==
    ASSUME NEW r, Proper(r)
    PROVE  /\ GetAllDependencies(r) \in Seq(r.deps)
           /\ \A d \in r.deps : \E k \in DOMAIN GetAllDependencies(r) : GetAllDependencies(r)[k] = d
           /\ \A j, k \in DOMAIN GetAllDependencies(r) :
                 GetAllDependencies(r)[j] = GetAllDependencies(r)[k] => j = k
<1> DEFINE n == Cardinality(r.deps)
           rank == [d \in r.deps |-> Rank(r, d)]
           s == GetAllDependencies(r)
<1>1. n \in Nat
  BY FS_CardinalityType DEF Proper
<1>2. rank \in Injection(r.deps, 0..n-1)
  BY RankBounds, RankIsUnique DEF Injection, IsInjective
<1> HIDE DEF n, rank
<1>3. IsFiniteSet(0..n-1) /\ Cardinality(0..n-1) = n
  <2>1. 0 \in Int /\ n - 1 \in Int /\ (0 > n - 1 => n = 0) /\ n - 1 - 0 + 1 = n
    BY <1>1
  <2>2. Cardinality(0..n-1) = IF 0 > n - 1 THEN 0 ELSE n - 1 - 0 + 1
    BY <2>1, FS_Interval, Zenon
  <2> QED
    BY <2>1, <2>2, FS_Interval, Zenon
<1>4. rank \in Surjection(r.deps, 0..n-1)
  BY <1>2, <1>3, FS_Injection DEF n, Proper
<1>5. \A j \in 0..n-1 : \E d \in r.deps : rank[d] = j
  BY <1>4 DEF Surjection
<1>6. \A k \in 1..n : \E d \in r.deps : Rank(r, d) = k - 1
  <2>1. \A k \in 1..n : k - 1 \in 0..n-1
    BY <1>1
  <2> QED
    BY <2>1, <1>5 DEF rank
<1>7. DOMAIN s = 1..n
  BY DEF GetAllDependencies, n
<1>8. \A k \in 1..n : s[k] = CHOOSE d \in r.deps : Rank(r, d) = k - 1
  BY DEF GetAllDependencies, Rank, n
<1>9. s = [k \in 1..n |-> s[k]]
  BY DEF GetAllDependencies, n
<1> HIDE DEF s
<1>10. \A k \in 1..n : s[k] \in r.deps /\ Rank(r, s[k]) = k - 1
  BY <1>6, <1>8
<1>11. s \in Seq(r.deps)
  BY <1>1, <1>9, <1>10
<1>12. ASSUME NEW d \in r.deps
       PROVE  \E k \in 1..n : s[k] = d
  <2>1. PICK i \in 0..n-1 : i = Rank(r, d)
    BY RankBounds DEF n
  <2>2. i + 1 \in 1..n /\ i + 1 - 1 = i
    BY <1>1, <2>1
  <2>3. Rank(r, s[i + 1]) = i /\ s[i + 1] \in r.deps
    BY <1>10, <2>2
  <2> QED
    BY <2>1, <2>2, <2>3, RankIsUnique
<1>13. ASSUME NEW j \in 1..n, NEW k \in 1..n, s[j] = s[k]
       PROVE  j = k
  <2>1. j - 1 = k - 1
    BY <1>10, <1>13
  <2> QED
    BY <1>1, <2>1
<1> QED
  BY <1>7, <1>11, <1>12, <1>13 DEF s

LEMMA KnownOrigins == \A d \in Deps : [d EXCEPT !.origin = Origin(@)] = d
BY DEF Deps, Origin, Origins

(* What is written is read back.                                           *)
LEMMA RoundTrip ==
    ASSUME NEW r, Proper(r), Shaped(r)
    PROVE  LoadFromFile(SaveToFile(r)) = r
<1> DEFINE s == GetAllDependencies(r)
<1>1. ToSet(s) = r.deps
  BY AllDependencies, LenProperties DEF ToSet
<1>2. {[d EXCEPT !.origin = Origin(@)] : d \in ToSet(s)} = r.deps
  BY <1>1, KnownOrigins DEF Proper
<1> HIDE DEF s
<1>3. LoadFromFile(SaveToFile(r)) = [build_path |-> r.build_path, deps |-> r.deps,
                                    artifacts |-> r.artifacts, commits |-> r.commits]
  BY <1>2 DEF SaveToFile, LoadFromFile, s
<1>4. PICK p, d, a, c : r = [build_path |-> p, deps |-> d, artifacts |-> a, commits |-> c]
  BY DEF Shaped
<1>5. r.build_path = p /\ r.deps = d /\ r.artifacts = a /\ r.commits = c
  BY <1>4
<1> QED
  BY <1>3, <1>4, <1>5

(* What a file that was cut may have for dependencies.                      *)
CutDependencies(text) ==
    {text.dependencies, <<>>}
    \cup {SubSeq(text.dependencies, 1, k - 1) : k \in DOMAIN text.dependencies}
    \cup {[SubSeq(text.dependencies, 1, k) EXCEPT ![k].origin = "..."] : k \in DOMAIN text.dependencies}

LEMMA BeginningsCut ==
    ASSUME NEW text, DOMAIN text = DOMAIN NoText, NEW b \in Beginnings(text)
    PROVE  b.dependencies \in CutDependencies(text)
<1>1. \A s \in 1..4 : \A part : CutIn(text, s, part).dependencies =
          IF s = 2 THEN part ELSE IF s = 1 THEN <<>> ELSE text.dependencies
  BY DEF CutIn, Sections, NoText
<1>2. CASE \E s \in 1..4 : \E k \in DOMAIN text[Sections[s]] :
               b = CutIn(text, s, SubSeq(text[Sections[s]], 1, k - 1))
  <2>0. PICK s \in 1..4 : \E k \in DOMAIN text[Sections[s]] :
           b = CutIn(text, s, SubSeq(text[Sections[s]], 1, k - 1))
    BY <1>2
  <2>1. PICK k \in DOMAIN text[Sections[s]] :
           b = CutIn(text, s, SubSeq(text[Sections[s]], 1, k - 1))
    BY <2>0
  <2>2. CASE s = 2
    <3>1. Sections[s] = "dependencies"
      BY <2>2 DEF Sections
    <3>2. b.dependencies = SubSeq(text.dependencies, 1, k - 1) /\ k \in DOMAIN text.dependencies
      BY <1>1, <2>1, <2>2, <3>1
    <3> QED
      BY <3>2 DEF CutDependencies
  <2>3. CASE s # 2
    <3>1. b.dependencies \in {<<>>, text.dependencies}
      BY <1>1, <2>1, <2>3
    <3> QED
      BY <3>1 DEF CutDependencies
  <2> QED
    BY <2>2, <2>3
<1>3. CASE \E k \in DOMAIN text.dependencies :
               b = CutIn(text, 2, [SubSeq(text.dependencies, 1, k) EXCEPT ![k].origin = "..."])
  <2>1. PICK k \in DOMAIN text.dependencies :
           b = CutIn(text, 2, [SubSeq(text.dependencies, 1, k) EXCEPT ![k].origin = "..."])
    BY <1>3
  <2> DEFINE part == [SubSeq(text.dependencies, 1, k) EXCEPT ![k].origin = "..."]
  <2>2. part \in CutDependencies(text)
    BY DEF CutDependencies
  <2>3. b = CutIn(text, 2, part)
    BY <2>1
  <2> HIDE DEF part
  <2>4. CutIn(text, 2, part).dependencies = part
    BY <1>1
  <2> QED
    BY <2>2, <2>3, <2>4
<1> QED
  BY <1>2, <1>3 DEF Beginnings

Loaded(d) == [d EXCEPT !.origin = Origin(@)]

(* The k-th dependency of a file that was cut is the k-th that was to be   *)
(* written, if not in its origin.                                          *)
LEMMA CutEntries ==
    ASSUME NEW r, Proper(r), NEW b \in Beginnings(SaveToFile(r)) \cup {SaveToFile(r), NoText}
    PROVE  \E m \in Nat :
             /\ m <= Len(GetAllDependencies(r))
             /\ DOMAIN b.dependencies = 1..m
             /\ \A k \in 1..m : LET d == GetAllDependencies(r)[k] IN
                  Loaded(b.dependencies[k]) \in {d, [d EXCEPT !.origin = "custom"]}
<1> DEFINE s == GetAllDependencies(r)
<1>1. s \in Seq(Deps) /\ Len(s) \in Nat /\ DOMAIN s = 1..Len(s)
  BY AllDependencies, SeqMonotonic, LenProperties DEF Proper
<1>2. \A k \in 1..Len(s) : s[k] \in Deps /\ Loaded(s[k]) = s[k]
  BY <1>1, KnownOrigins, ElementOfSeq DEF Loaded
<1>3. \A k \in 1..Len(s) : Loaded([s[k] EXCEPT !.origin = "..."]) = [s[k] EXCEPT !.origin = "custom"]
  BY <1>2 DEF Loaded, Origin, Origins, Deps
<1>4. SaveToFile(r).dependencies = s /\ NoText.dependencies = <<>>
      /\ DOMAIN SaveToFile(r) = DOMAIN NoText
  BY DEF SaveToFile, NoText
<1>5. b.dependencies \in CutDependencies(SaveToFile(r))
  BY <1>4, BeginningsCut DEF CutDependencies
<1> HIDE DEF s
<1>6. ASSUME b.dependencies = s
      PROVE  \E m \in Nat : /\ m <= Len(s) /\ DOMAIN b.dependencies = 1..m
                            /\ \A j \in 1..m : Loaded(b.dependencies[j]) \in {s[j], [s[j] EXCEPT !.origin = "custom"]}
  BY <1>1, <1>2, <1>6
<1>7. ASSUME b.dependencies = <<>>
      PROVE  \E m \in Nat : /\ m <= Len(s) /\ DOMAIN b.dependencies = 1..m
                            /\ \A j \in 1..m : Loaded(b.dependencies[j]) \in {s[j], [s[j] EXCEPT !.origin = "custom"]}
  <2>1. DOMAIN b.dependencies = 1..0 /\ 0 <= Len(s)
    BY <1>1, <1>7
  <2> QED
    BY <2>1
<1>8. ASSUME NEW k \in 1..Len(s), b.dependencies = SubSeq(s, 1, k - 1)
      PROVE  \E m \in Nat : /\ m <= Len(s) /\ DOMAIN b.dependencies = 1..m
                            /\ \A j \in 1..m : Loaded(b.dependencies[j]) \in {s[j], [s[j] EXCEPT !.origin = "custom"]}
  <2>1. DOMAIN b.dependencies = 1..k-1 /\ \A j \in 1..k-1 : b.dependencies[j] = s[j]
    BY <1>1, <1>8
  <2> QED
    BY <1>1, <1>2, <2>1
<1>9. ASSUME NEW k \in 1..Len(s), b.dependencies = [SubSeq(s, 1, k) EXCEPT ![k].origin = "..."]
      PROVE  \E m \in Nat : /\ m <= Len(s) /\ DOMAIN b.dependencies = 1..m
                            /\ \A j \in 1..m : Loaded(b.dependencies[j]) \in {s[j], [s[j] EXCEPT !.origin = "custom"]}
  <2>1. DOMAIN SubSeq(s, 1, k) = 1..k /\ \A j \in 1..k : SubSeq(s, 1, k)[j] = s[j]
    BY <1>1
  <2>2. DOMAIN b.dependencies = 1..k
    BY <1>9, <2>1
  <2>3. ASSUME NEW j \in 1..k
        PROVE  b.dependencies[j] = IF j = k THEN [s[j] EXCEPT !.origin = "..."] ELSE s[j]
    BY <1>9, <2>1
  <2>4. ASSUME NEW j \in 1..k
        PROVE  Loaded(b.dependencies[j]) \in {s[j], [s[j] EXCEPT !.origin = "custom"]}
    <3>1. j \in 1..Len(s)
      BY <1>1
    <3> QED
      BY <1>2, <1>3, <2>3, <3>1
  <2>5. k \in Nat /\ k <= Len(s)
    BY <1>1
  <2> QED
    BY <2>2, <2>4, <2>5
<1>10. \/ b.dependencies = s \/ b.dependencies = <<>>
       \/ \E k \in 1..Len(s) : \/ b.dependencies = SubSeq(s, 1, k - 1)
                               \/ b.dependencies = [SubSeq(s, 1, k) EXCEPT ![k].origin = "..."]
  BY <1>1, <1>4, <1>5 DEF CutDependencies
<1>11. \E m \in Nat : /\ m <= Len(s) /\ DOMAIN b.dependencies = 1..m
                      /\ \A j \in 1..m : Loaded(b.dependencies[j]) \in {s[j], [s[j] EXCEPT !.origin = "custom"]}
  BY <1>6, <1>7, <1>8, <1>9, <1>10
<1> QED
  BY <1>11 DEF s

(* A file that was cut holds a proper record, of files of the whole one    *)
(* and with their hashes.                                                  *)
LEMMA CutIsProper ==
    ASSUME NEW r, Proper(r), NEW b \in Beginnings(SaveToFile(r)) \cup {SaveToFile(r), NoText}
    PROVE  /\ Proper(LoadFromFile(b))
           /\ \A d \in LoadFromFile(b).deps : \E e \in r.deps : d.path = e.path /\ d.hash = e.hash
<1> DEFINE s == GetAllDependencies(r)
           x == b.dependencies
           deps == LoadFromFile(b).deps
<1>1. s \in Seq(r.deps) /\ Len(s) \in Nat /\ DOMAIN s = 1..Len(s)
      /\ \A j, k \in DOMAIN s : s[j] = s[k] => j = k
  BY AllDependencies, LenProperties
<1>2. PICK m \in Nat :
        /\ m <= Len(s) /\ DOMAIN x = 1..m
        /\ \A k \in 1..m : Loaded(x[k]) \in {s[k], [s[k] EXCEPT !.origin = "custom"]}
  BY CutEntries
<1> DEFINE f == [k \in 1..m |-> Loaded(x[k])]
<1>3. deps = {f[k] : k \in 1..m}
  BY <1>2 DEF LoadFromFile, ToSet, Loaded
<1>4. \A k \in 1..m : s[k] \in r.deps /\ s[k] \in Deps
  BY <1>1, <1>2, ElementOfSeq DEF Proper
<1>5. \A k \in 1..m : /\ f[k] \in Deps
                      /\ f[k].path = s[k].path /\ f[k].hash = s[k].hash
  <2> SUFFICES ASSUME NEW k \in 1..m
               PROVE  /\ f[k] \in Deps
                      /\ f[k].path = s[k].path /\ f[k].hash = s[k].hash
    OBVIOUS
  <2>1. f[k] \in {s[k], [s[k] EXCEPT !.origin = "custom"]} /\ s[k] \in Deps
    BY <1>2, <1>4
  <2> HIDE DEF s, x, f
  <2> QED
    BY <2>1 DEF Deps
<1> HIDE DEF s, x, deps, f
<1>6. f \in Surjection(1..m, deps)
  BY <1>3 DEF Surjection, f
<1>7. IsFiniteSet(deps)
  <2>1. IsFiniteSet(1..m)
    BY <1>2, FS_Interval
  <2> QED
    BY <1>6, <2>1, FS_Surjection
<1>8. ASSUME NEW d \in deps, NEW e \in deps, d.path = e.path
      PROVE  d = e
  <2>1. PICK j \in 1..m : d = f[j]
    BY <1>3
  <2>2. PICK k \in 1..m : e = f[k]
    BY <1>3
  <2>3. s[j] = s[k]
    BY <1>4, <1>5, <1>8, <2>1, <2>2 DEF Proper
  <2> QED
    BY <1>1, <1>2, <2>1, <2>2, <2>3
<1> QED
  BY <1>3, <1>4, <1>5, <1>7, <1>8 DEF Proper, deps

-----------------------------------------------------------------------------
(* The invariant of the whole: what is needed of the builds, the record    *)
(* files, the uploads and the bundles for the properties of Pipeline.      *)

(* A file that was not edited has the hash it had first.                   *)
AsFirst(deps) == \A d \in deps : d.path \notin edited => d.hash = Original[d.path]

TakenIsResolved == \A c \in Clients : \A d \in taken[c] : d = Resolved(d.path, d.hash)

EditedIsKnown ==
    /\ edited \subseteq Custom
    /\ \A f \in Files : f \notin edited => disk[f] = Original[f]

(* A build uploads what it has recorded.                                   *)
BuildOK(b) ==
    /\ upc[b] # "off" <=> pc[b] = "upload"
    /\ upc[b] = "off" => todo[b] = {}
    /\ pc[b] \in Underway \cup {"idle"} => built[b].deps = taken[b]
    /\ Shaped(built[b]) /\ Proper(built[b]) /\ AsFirst(built[b].deps)

BuildsOK ==
    /\ tree \in [Clients -> Trees]
    /\ pc \in [Clients -> Underway \cup Over \cup {"idle"}]
    /\ DOMAIN built = Clients
    /\ \A b \in Clients : BuildOK(b)

FileOK(t) ==
    /\ \E a, w, d : files[t] = [there |-> a, whole |-> w, doc |-> d]
    /\ files[t].whole => files[t].there
    /\ Proper(LoadFromFile(files[t].doc)) /\ AsFirst(LoadFromFile(files[t].doc).deps)

FilesOK == DOMAIN files = Trees /\ \A t \in Trees : FileOK(t)

(* One build of a tree is under way at a time.                             *)
Apart ==
    /\ \A a, b \in Clients :
          tree[a] = tree[b] /\ pc[a] \in Underway /\ pc[b] \in Underway => a = b
    /\ \A b \in Clients : pc[b] = "write" => ~files[tree[b]].whole

(* A build that has come to its record, whose record is thus fixed.        *)
Wrote(b) == pc[b] \notin {"idle", "track", "postprocess"}

BuildsOf(t) == {b \in Clients : tree[b] = t}

WholeRecord(t) ==
    /\ files[t].there /\ ~files[t].whole =>
          \E b \in BuildsOf(t) : pc[b] = "write" \/ Cut(b)
    /\ files[t].whole =>
          \E b \in BuildsOf(t) : Wrote(b) /\ LoadFromFile(files[t].doc) = built[b]
    /\ \A b \in BuildsOf(t) : pc[b] \in {"graph", "upload", "ended", "not uploaded"} =>
          \/ files[t].whole /\ LoadFromFile(files[t].doc) = built[b]
          \/ (\E a \in BuildsOf(t) \ {b} : Wrote(a)) \/ Cut(b)

WholeRecords == \A t \in Trees : WholeRecord(t)

(* Without faults a dependency is stored when the build leaves it, also    *)
(* when its zip is gone before the put: only one that has stored it        *)
(* removes a zip.                                                          *)
Uploading(c) ==
    /\ upc[c] # "off" => \A d \in taken[c] : IsCustom(d) /\ d.path \notin edited =>
           store[d.hash] # {} \/ d \in todo[c]
    /\ \A d \in todo[c] : IsNext(c, d) =>
           /\ upc[c] = "put" => zips[d.path] # {} \/ store[d.hash] # {}
           /\ upc[c] = "remove" => store[d.hash] # {}
    /\ pc[c] = "ended" => \A d \in built[c].deps :
           d.path \in Custom \ edited => store[d.hash] # {}

UploadsOK == ~faulty => \A c \in Clients : Uploading(c)

(* A zip is of an upload that has yet to remove it.                        *)
InHand(f) ==
    \E c \in Clients : upc[c] \in {"put", "remove"} /\ \E d \in todo[c] : IsNext(c, d) /\ d.path = f
ZipsAreUsed == NoneKilled => \A f \in Files : zips[f] \subseteq {Foreign} \/ InHand(f)

BuildInv ==
    /\ TakenIsResolved /\ EditedIsKnown /\ BuildsOK /\ FilesOK /\ Apart
    /\ WholeRecords /\ UploadsOK /\ ZipsAreUsed

LEMMA SpecIndInv == Spec => []IndInv
<1>1. UploadSpec => []IndInv
  BY UploadInitIndInv, UploadNextIndInv, PTL DEF UploadSpec
<1> QED
  BY <1>1, PipelineUploads, PTL

LEMMA NothingIsProper == /\ Shaped(NoRecord) /\ Proper(NoRecord) /\ NoRecord.deps = {}
                         /\ LoadFromFile(NoText) = NoRecord
<1>1. Proper(NoRecord)
  BY FS_EmptySet DEF Proper, NoRecord
<1>2. ToSet(NoText.dependencies) = {}
  BY DEF ToSet, NoText
<1>3. LoadFromFile(NoText) = NoRecord
  BY <1>2 DEF LoadFromFile, NoText, NoRecord
<1> QED
  BY <1>1, <1>3 DEF Shaped, NoRecord

LEMMA InitBuildInv == Init => BuildInv
<1> SUFFICES ASSUME Init
             PROVE  BuildInv
  OBVIOUS
<1> USE DEF Init, UploadInit, BundleInit
<1>1. TakenIsResolved /\ EditedIsKnown
  BY DEF TakenIsResolved, EditedIsKnown
<1>2. BuildsOK
  <2>1. tree \in [Clients -> Trees]
    BY PipelineAssumption
  <2>2. built = [b \in Clients |-> NoRecord] /\ NoRecord.deps = {}
    BY DEF NoRecord
  <2>3. \A b \in Clients : Shaped(built[b]) /\ Proper(built[b]) /\ AsFirst(built[b].deps)
    BY <2>2, NothingIsProper DEF AsFirst
  <2>4. \A b \in Clients : pc[b] = "idle" /\ upc[b] = "off" /\ taken[b] = {} /\ todo[b] = {}
    OBVIOUS
  <2>5. pc \in [Clients -> Underway \cup Over \cup {"idle"}] /\ DOMAIN built = Clients
    BY <2>2
  <2> HIDE DEF Init, UploadInit, BundleInit
  <2> QED
    BY <2>1, <2>2, <2>3, <2>4, <2>5 DEF BuildsOK, BuildOK, Underway
<1>3. FilesOK
  <2>1. DOMAIN files = Trees
        /\ \A t \in Trees : files[t] = [there |-> FALSE, whole |-> FALSE, doc |-> NoText]
    OBVIOUS
  <2>2. Proper(LoadFromFile(NoText)) /\ AsFirst(LoadFromFile(NoText).deps)
    BY NothingIsProper DEF AsFirst
  <2> HIDE DEF Init, UploadInit, BundleInit
  <2> QED
    BY <2>1, <2>2 DEF FilesOK, FileOK
<1>4. \A b \in Clients : pc[b] = "idle" /\ upc[b] = "off" /\ todo[b] = {}
  OBVIOUS
<1>5. \A t \in Trees : ~files[t].there /\ ~files[t].whole
  OBVIOUS
<1>6. ZipsAreUsed
  BY DEF ZipsAreUsed
<1> HIDE DEF Init, UploadInit, BundleInit
<1>7. Apart
  BY <1>4 DEF Apart, Underway
<1>8. WholeRecords
  BY <1>4, <1>5 DEF WholeRecords, WholeRecord, BuildsOf
<1>9. UploadsOK
  BY <1>4 DEF UploadsOK, Uploading
<1> QED
  BY <1>1, <1>2, <1>3, <1>6, <1>7, <1>8, <1>9 DEF BuildInv

-----------------------------------------------------------------------------
(* A reprobuild that uploads is the only one whose upload moves.           *)
LEMMA UploadMoves ==
    ASSUME UploadTypeOK, NEW b \in Clients,
           \/ \E used \in SUBSET Files : Take(b, used)
           \/ BeginUpload(b) \/ UploadStep(b) \/ Release(b)
    PROVE  /\ UNCHANGED disk
           /\ \A a \in Clients \ {b} :
                 taken'[a] = taken[a] /\ upc'[a] = upc[a] /\ todo'[a] = todo[a]
<1>1. CASE (\E used \in SUBSET Files : Take(b, used)) \/ BeginUpload(b) \/ Release(b)
  BY <1>1 DEF UploadTypeOK, Take, BeginUpload, Release, At
<1>2. CASE UploadStep(b)
  <2>1. PICK d \in todo[b] : \/ Skip(b, d) \/ NotStored(b, d)
                             \/ CompressFile(b, d) \/ CompressFails(b, d)
                             \/ Put(b, d) \/ PutFails(b, d) \/ RemoveCompressed(b, d)
    BY <1>2 DEF UploadStep
  <2>2. CASE Skip(b, d) \/ NotStored(b, d) \/ CompressFile(b, d) \/ CompressFails(b, d)
    BY <2>2 DEF UploadTypeOK, Skip, NotStored, CompressFile, CompressFails, At, Leave
  <2>3. CASE Put(b, d) \/ PutFails(b, d) \/ RemoveCompressed(b, d)
    BY <2>3 DEF UploadTypeOK, Put, PutFails, RemoveCompressed, At, Leave
  <2> QED
    BY <2>1, <2>2, <2>3
<1> QED
  BY <1>1, <1>2

(* An upload step of c leaves what is not its own and keeps what it took.  *)
LEMMA UploadStepMoves ==
    ASSUME UploadTypeOK, NEW c \in Clients, UploadStep(c)
    PROVE  UNCHANGED taken /\ upc[c] # "off" /\ upc'[c] # "off"
<1>1. PICK d \in todo[c] : \/ Skip(c, d) \/ NotStored(c, d)
                           \/ CompressFile(c, d) \/ CompressFails(c, d)
                           \/ Put(c, d) \/ PutFails(c, d) \/ RemoveCompressed(c, d)
  BY DEF UploadStep
<1>2. CASE Skip(c, d) \/ NotStored(c, d) \/ CompressFile(c, d) \/ CompressFails(c, d)
  BY <1>2 DEF UploadTypeOK, Skip, NotStored, CompressFile, CompressFails, At
<1>3. CASE Put(c, d) \/ PutFails(c, d) \/ RemoveCompressed(c, d)
  BY <1>3 DEF UploadTypeOK, Put, PutFails, RemoveCompressed, At
<1> QED
  BY <1>1, <1>2, <1>3

(* A step of a build is its own: of the rest, only the record file of its  *)
(* tree and the zips and objects of its upload change.                     *)
LEMMA BuildMoves ==
    ASSUME BuildsOK, UploadTypeOK, NEW b \in Clients, BuildStep(b)
    PROVE  /\ UNCHANGED <<disk, bundleVars, tree>>
           /\ \A a \in Clients \ {b} :
                 /\ pc'[a] = pc[a] /\ built'[a] = built[a]
                 /\ taken'[a] = taken[a] /\ upc'[a] = upc[a] /\ todo'[a] = todo[a]
           /\ pc' \in [Clients -> Underway \cup Over \cup {"idle"}]
           /\ DOMAIN built' = Clients
<1> DEFINE OthersStay == \A a \in Clients \ {b} :
                        taken'[a] = taken[a] /\ upc'[a] = upc[a] /\ todo'[a] = todo[a]
<1>1. UNCHANGED disk /\ OthersStay
  <2>1. CASE Start(b) \/ TrackingLost(b) \/ TrackBuildThrows(b) \/ OpenRecord(b)
             \/ FlushRecord(b) \/ CloseRecord(b) \/ CloseFullDisk(b)
    BY <2>1 DEF Start, TrackingLost, TrackBuildThrows, OpenRecord, FlushRecord, CloseRecord, CloseFullDisk, uploadVars
  <2>2. CASE Track(b)
    BY <2>2, UploadMoves, PipelineAssumption DEF Track
  <2>3. CASE SaveThrows(b) \/ GraphThrows(b) \/ EndWithoutUpload(b) \/ EndOfUpload(b) \/ Kill(b)
    BY <2>3, UploadMoves DEF SaveThrows, GraphThrows, EndWithoutUpload, EndOfUpload, Kill
  <2>4. CASE GraphSaved(b) \/ Upload(b)
    BY <2>4, UploadMoves DEF GraphSaved, Upload
  <2> QED
    BY <2>1, <2>2, <2>3, <2>4 DEF BuildStep
<1>2. UNCHANGED <<bundleVars, tree>>
  BY DEF BuildStep, Elsewhere, Start, Track, TrackingLost, TrackBuildThrows, SaveThrows,
         OpenRecord, FlushRecord, CloseRecord, CloseFullDisk, GraphThrows, GraphSaved, EndWithoutUpload,
         Upload, EndOfUpload, Kill
<1>3. /\ pc' \in [Clients -> Underway \cup Over \cup {"idle"}]
      /\ \A a \in Clients \ {b} : pc'[a] = pc[a]
  BY DEF BuildsOK, Underway, Over, Goes,
         BuildStep, Start, Track, TrackingLost, TrackBuildThrows, SaveThrows,
         OpenRecord, FlushRecord, CloseRecord, CloseFullDisk, GraphThrows, GraphSaved, EndWithoutUpload,
         Upload, EndOfUpload, Kill
<1>4. /\ DOMAIN built' = Clients
      /\ \A a \in Clients \ {b} : built'[a] = built[a]
  BY DEF BuildsOK,
         BuildStep, Start, Track, TrackingLost, TrackBuildThrows, SaveThrows,
         OpenRecord, FlushRecord, CloseRecord, CloseFullDisk, GraphThrows, GraphSaved, EndWithoutUpload,
         Upload, EndOfUpload, Kill
<1> QED
  BY <1>1, <1>2, <1>3, <1>4

(* What is taken is a record's worth of dependencies.                      *)
LEMMA TakenAreProper ==
    ASSUME IndInv, EditedIsKnown, NEW c \in Clients,
           NEW used \in SUBSET Files, IsFiniteSet(used), Take(c, used)
    PROVE  /\ \A d \in taken'[c] : d = Resolved(d.path, d.hash) /\ d \in Deps
           /\ AsFirst(taken'[c])
           /\ IsFiniteSet(taken'[c])
           /\ \A d, e \in taken'[c] : d.path = e.path => d = e
<1> DEFINE there == {g \in used : disk[g] # Absent}
           new == {Resolved(f, disk[f]) : f \in there}
<1>1. taken'[c] = new
  BY DEF IndInv, UploadTypeOK, Take
<1>2. \A f \in there : f \in Files /\ disk[f] \in Contents
  BY DEF IndInv, UploadTypeOK
<1>3. \A f \in there : /\ Resolved(f, disk[f]).path = f
                       /\ Resolved(f, disk[f]).hash = disk[f]
                       /\ Resolved(f, disk[f]) \in Deps
  BY <1>2 DEF Resolved, Deps
<1>4. IsFiniteSet(new)
  <2>1. IsFiniteSet(there)
    BY FS_Subset
  <2> DEFINE f == [g \in there |-> Resolved(g, disk[g])]
  <2>2. f \in Surjection(there, new)
    BY DEF Surjection
  <2> HIDE DEF f, there, new
  <2> QED
    BY <2>1, <2>2, FS_Surjection
<1>5. AsFirst(new)
  BY <1>2, <1>3 DEF AsFirst, EditedIsKnown
<1>6. \A d \in new : \E f \in there : d = Resolved(f, disk[f])
  OBVIOUS
<1> HIDE DEF new, there
<1>7. \A d \in new : d = Resolved(d.path, d.hash) /\ d \in Deps
  BY <1>3, <1>6
<1>8. \A d, e \in new : d.path = e.path => d = e
  BY <1>3, <1>6
<1> QED
  BY <1>1, <1>4, <1>5, <1>7, <1>8

LEMMA TakenStep ==
    ASSUME IndInv, EditedIsKnown, TakenIsResolved, [Next]_vars
    PROVE  TakenIsResolved'
<1>1. ASSUME NEW c \in Clients, Take(c, Uses[c])
      PROVE  TakenIsResolved'
  <2>1. Uses[c] \in SUBSET Files /\ IsFiniteSet(Uses[c])
    BY PipelineAssumption
  <2>2. \A d \in taken'[c] : d = Resolved(d.path, d.hash)
    BY <1>1, <2>1, TakenAreProper
  <2>3. \A a \in Clients \ {c} : taken'[a] = taken[a]
    BY <1>1, <2>1, UploadMoves DEF IndInv
  <2> QED
    BY <2>2, <2>3 DEF TakenIsResolved
<1>2. ASSUME \A c \in Clients : taken'[c] \subseteq taken[c]
      PROVE  TakenIsResolved'
  BY <1>2 DEF TakenIsResolved
<1>3. ASSUME NEW c \in Clients, BuildStep(c)
      PROVE  TakenIsResolved'
  <2>1. CASE Track(c)
    BY <1>1, <2>1 DEF Track
  <2>2. CASE Start(c) \/ TrackingLost(c) \/ TrackBuildThrows(c) \/ OpenRecord(c)
             \/ FlushRecord(c) \/ CloseRecord(c) \/ CloseFullDisk(c)
    BY <1>2, <2>2 DEF Start, TrackingLost, TrackBuildThrows, OpenRecord, FlushRecord, CloseRecord, CloseFullDisk, uploadVars
  <2>3. CASE SaveThrows(c) \/ GraphThrows(c) \/ EndWithoutUpload(c) \/ EndOfUpload(c) \/ Kill(c)
    <3>1. \A a \in Clients : taken'[a] \subseteq taken[a]
      BY <2>3 DEF SaveThrows, GraphThrows, EndWithoutUpload, EndOfUpload, Kill, Release, IndInv, UploadTypeOK
    <3> QED
      BY <1>2, <3>1
  <2>4. CASE GraphSaved(c)
    BY <1>2, <2>4 DEF GraphSaved, BeginUpload
  <2>5. CASE Upload(c)
    BY <1>2, <2>5, UploadStepMoves DEF Upload, IndInv
  <2> QED
    BY <1>3, <2>1, <2>2, <2>3, <2>4, <2>5 DEF BuildStep
<1>4. CASE UserEdits
  BY <1>2, <1>4 DEF UserEdits, Edit
<1>5. CASE UNCHANGED uploadVars
  BY <1>2, <1>5 DEF uploadVars
<1> QED
  BY <1>3, <1>4, <1>5 DEF Next, Done, TreeGoes, vars

LEMMA EditedStep ==
    ASSUME IndInv, EditedIsKnown, BuildsOK, [Next]_vars
    PROVE  /\ EditedIsKnown'
           /\ edited \subseteq edited'
<1>1. CASE UserEdits
  <2>1. PICK f \in Custom, content \in Contents \cup {Absent} :
           Edit(f, content) /\ edited' = edited \cup {f}
    BY <1>1 DEF UserEdits
  <2> QED
    BY <2>1 DEF EditedIsKnown, Edit, IndInv, UploadTypeOK
<1>2. ASSUME UNCHANGED <<disk, edited>>
      PROVE  EditedIsKnown' /\ edited \subseteq edited'
  BY <1>2 DEF EditedIsKnown
<1>3. ASSUME NEW b \in Clients, BuildStep(b)
      PROVE  UNCHANGED <<disk, edited>>
  BY <1>3, BuildMoves DEF IndInv, bundleVars
<1>4. ASSUME NEW q \in Bundlers, HandleBundle(q) \/ CreateBundle(q), UNCHANGED <<uploadVars, pipelineVars>>
      PROVE  UNCHANGED <<disk, edited>>
  BY <1>4 DEF uploadVars, HandleBundle, CreateBundle, LoadRecord, CannotLoad, MakeStaging, CopySource,
              CopyDependency, SaveInside, CreateArchive, RemoveStaging, BundleFails
<1>5. CASE UNCHANGED vars \/ \E t \in Trees : TreeGoes(t)
  BY <1>2, <1>5 DEF TreeGoes, vars, uploadVars, bundleVars
<1> QED
  BY <1>1, <1>2, <1>3, <1>4, <1>5 DEF Next, Done

(* A tree that is gone stays away.                                         *)
LEMMA GoneStep ==
    ASSUME [Next]_vars
    PROVE  gone \subseteq gone' /\ (gone \subseteq Trees => gone' \subseteq Trees)
<1>1. ASSUME NEW b \in Clients, BuildStep(b)
      PROVE  gone' = gone
  BY <1>1 DEF BuildStep, Elsewhere, Start, Track, TrackingLost, TrackBuildThrows, SaveThrows, OpenRecord,
              FlushRecord, CloseRecord, CloseFullDisk, GraphThrows, GraphSaved, EndWithoutUpload, Upload, EndOfUpload, Kill
<1>2. CASE UNCHANGED <<uploadVars, pipelineVars>>
  BY <1>2 DEF pipelineVars
<1>3. CASE UserEdits
  BY <1>3 DEF UserEdits
<1>4. CASE \E t \in Trees : TreeGoes(t)
  BY <1>4 DEF TreeGoes
<1>5. CASE UNCHANGED vars
  BY <1>5 DEF vars, pipelineVars
<1> QED
  BY <1>1, <1>2, <1>3, <1>4, <1>5 DEF Next, Done

(* What is not a step of a build leaves the builds, the record files and   *)
(* the uploads alone.                                                      *)
buildVars == <<zips, store, taken, upc, todo, faulty, tree, pc, built, kills, files>>

LEMMA StepKinds == [Next]_vars => (\E b \in Clients : BuildStep(b)) \/ UNCHANGED buildVars
<1> SUFFICES ASSUME [Next]_vars
             PROVE  (\E b \in Clients : BuildStep(b)) \/ UNCHANGED buildVars
  OBVIOUS
<1>1. CASE UserEdits
  BY <1>1 DEF UserEdits, Edit, buildVars
<1>2. CASE UNCHANGED <<uploadVars, pipelineVars>>
  BY <1>2 DEF uploadVars, pipelineVars, buildVars
<1>3. CASE UNCHANGED vars
  BY <1>3 DEF vars, uploadVars, pipelineVars, buildVars
<1>4. CASE \E t \in Trees : TreeGoes(t)
  BY <1>4 DEF TreeGoes, uploadVars, buildVars
<1> QED
  BY <1>1, <1>2, <1>3, <1>4 DEF Next, Done

LEMMA AnotherPath ==
    ASSUME NEW r, Shaped(r), NEW x, NEW s, s = [r EXCEPT !.build_path = x]
    PROVE  Shaped(s) /\ s.deps = r.deps
<1>1. PICK p, d, a, c : r = [build_path |-> p, deps |-> d, artifacts |-> a, commits |-> c]
  BY DEF Shaped
<1>2. s = [build_path |-> x, deps |-> d, artifacts |-> a, commits |-> c]
  BY <1>1
<1> QED
  BY <1>1, <1>2 DEF Shaped

LEMMA OtherCommits ==
    ASSUME NEW r, Shaped(r), NEW x, NEW s, s = [r EXCEPT !.commits = x]
    PROVE  Shaped(s) /\ s.deps = r.deps
<1>1. PICK p, d, a, c : r = [build_path |-> p, deps |-> d, artifacts |-> a, commits |-> c]
  BY DEF Shaped
<1>2. s = [build_path |-> p, deps |-> d, artifacts |-> a, commits |-> x]
  BY <1>1
<1> QED
  BY <1>1, <1>2 DEF Shaped

LEMMA OtherDeps ==
    ASSUME NEW r, Shaped(r), NEW x, NEW s, s = [r EXCEPT !.deps = x]
    PROVE  Shaped(s) /\ s.deps = x
<1>1. PICK p, d, a, c : r = [build_path |-> p, deps |-> d, artifacts |-> a, commits |-> c]
  BY DEF Shaped
<1>2. s = [build_path |-> p, deps |-> x, artifacts |-> a, commits |-> c]
  BY <1>1
<1> QED
  BY <1>2 DEF Shaped

LEMMA OtherArtifacts ==
    ASSUME NEW r, Shaped(r), NEW x, NEW s, s = [r EXCEPT !.artifacts = x]
    PROVE  Shaped(s) /\ s.deps = r.deps
<1>1. PICK p, d, a, c : r = [build_path |-> p, deps |-> d, artifacts |-> a, commits |-> c]
  BY DEF Shaped
<1>2. s = [build_path |-> p, deps |-> d, artifacts |-> x, commits |-> c]
  BY <1>1
<1> QED
  BY <1>1, <1>2 DEF Shaped

LEMMA BuildsOwnStep ==
    ASSUME IndInv, EditedIsKnown, BuildsOK, NEW b \in Clients, BuildStep(b), edited' = edited
    PROVE  BuildOK(b)'
<1> USE DEF Goes
<1>0. Shaped(built[b])
  BY DEF BuildsOK, BuildOK
<1>1. BuildOK(b) /\ DOMAIN built = Clients /\ pc \in [Clients -> Underway \cup Over \cup {"idle"}]
      /\ upc \in [Clients -> {"off", "next", "zip", "put", "remove"}]
      /\ taken \in [Clients -> SUBSET Deps] /\ todo \in [Clients -> SUBSET Deps]
  BY DEF BuildsOK, IndInv, UploadTypeOK
<1>2. CASE Start(b)
  <2>1. built'[b] = [built[b] EXCEPT !.build_path = tree[b]]
    BY <1>1, <1>2 DEF Start
  <2>2. Shaped(built'[b]) /\ built'[b].deps = built[b].deps
    BY <1>0, <2>1, AnotherPath
  <2>3. UNCHANGED <<upc, todo, taken>> /\ pc[b] = "idle" /\ pc'[b] = "track"
    BY <1>1, <1>2 DEF Start, uploadVars
  <2> QED
    BY <1>1, <2>2, <2>3 DEF BuildOK, Proper, AsFirst, Underway
<1>3. CASE Track(b)
  <2>1. built'[b] = [built[b] EXCEPT !.deps = taken'[b], !.artifacts = Makes[b]]
    BY <1>1, <1>3 DEF Track
  <2> DEFINE q == [built[b] EXCEPT !.deps = taken'[b]]
  <2>2. Shaped(built'[b]) /\ built'[b].deps = taken'[b]
    <3>1. q = [built[b] EXCEPT !.deps = taken'[b]]
      OBVIOUS
    <3>2. built'[b] = [q EXCEPT !.artifacts = Makes[b]]
      BY <2>1
    <3> HIDE DEF q
    <3>3. Shaped(q) /\ q.deps = taken'[b]
      BY <1>0, <3>1, OtherDeps
    <3> QED
      BY <3>2, <3>3, OtherArtifacts
  <2>3. Uses[b] \in SUBSET Files /\ IsFiniteSet(Uses[b]) /\ Take(b, Uses[b])
    BY <1>3, PipelineAssumption DEF Track
  <2>4. Proper(built'[b]) /\ AsFirst(taken'[b])
    BY <2>2, <2>3, TakenAreProper DEF Proper
  <2>5. UNCHANGED <<upc, todo>> /\ pc[b] = "track" /\ pc'[b] = "postprocess"
    BY <1>1, <1>3 DEF Track, Take
  <2> QED
    BY <1>1, <2>2, <2>4, <2>5 DEF BuildOK, AsFirst
<1>4. CASE TrackingLost(b) \/ TrackBuildThrows(b)
  <2>1. UNCHANGED <<upc, todo, taken, built>> /\ pc[b] = "track" /\ pc'[b] \in {"postprocess", "failed"}
    BY <1>1, <1>4 DEF TrackingLost, TrackBuildThrows, uploadVars
  <2> QED
    BY <1>1, <2>1 DEF BuildOK, Proper, AsFirst, Underway
<1>5. CASE SaveThrows(b) \/ GraphThrows(b) \/ EndWithoutUpload(b) \/ EndOfUpload(b) \/ Kill(b)
  <2>1. Release(b) /\ pc'[b] \in Over /\ built' = built
    BY <1>1, <1>5 DEF SaveThrows, GraphThrows, EndWithoutUpload, EndOfUpload, Kill, Over
  <2>2. upc'[b] = "off" /\ todo'[b] = {}
    BY <1>1, <2>1 DEF Release
  <2> QED
    BY <1>1, <2>1, <2>2 DEF BuildOK, Proper, AsFirst, Over, Underway
<1>6. CASE OpenRecord(b)
  <2>1. built'[b] = [built[b] EXCEPT !.commits = Cloned[b]]
    BY <1>1, <1>6 DEF OpenRecord
  <2>2. Shaped(built'[b]) /\ built'[b].deps = built[b].deps
    BY <1>0, <2>1, OtherCommits
  <2>3. UNCHANGED <<upc, todo, taken>> /\ pc[b] = "postprocess" /\ pc'[b] = "write"
    BY <1>1, <1>6 DEF OpenRecord, uploadVars
  <2> QED
    BY <1>1, <2>2, <2>3 DEF BuildOK, Proper, AsFirst, Underway
<1>7. CASE FlushRecord(b) \/ CloseRecord(b) \/ CloseFullDisk(b)
  <2>1. UNCHANGED <<upc, todo, taken, built>> /\ pc[b] = "write" /\ pc'[b] \in {"write", "graph"}
    BY <1>1, <1>7 DEF FlushRecord, CloseRecord, CloseFullDisk, uploadVars
  <2> QED
    BY <1>1, <2>1 DEF BuildOK, Proper, AsFirst, Underway
<1>8. CASE GraphSaved(b)
  <2>1. UNCHANGED <<taken, built>> /\ pc[b] = "graph" /\ pc'[b] = "upload" /\ upc'[b] = "next"
    BY <1>1, <1>8 DEF GraphSaved, BeginUpload, At
  <2> QED
    BY <1>1, <2>1 DEF BuildOK, Proper, AsFirst, Underway
<1>9. CASE Upload(b)
  <2>1. UNCHANGED <<taken, built, pc>> /\ upc[b] # "off" /\ upc'[b] # "off"
    BY <1>9, UploadStepMoves DEF Upload, IndInv
  <2> QED
    BY <1>1, <2>1 DEF BuildOK, Proper, AsFirst
<1> QED
  BY <1>2, <1>3, <1>4, <1>5, <1>6, <1>7, <1>8, <1>9 DEF BuildStep

LEMMA BuildsStep ==
    ASSUME IndInv, EditedIsKnown, BuildsOK, [Next]_vars
    PROVE  BuildsOK'
<1>1. ASSUME NEW b \in Clients, BuildStep(b)
      PROVE  BuildsOK'
  <2>1. UNCHANGED <<edited, tree>>
    BY <1>1, BuildMoves DEF IndInv, bundleVars
  <2>2. BuildOK(b)'
    BY <1>1, <2>1, BuildsOwnStep
  <2>3. ASSUME NEW a \in Clients \ {b}
        PROVE  BuildOK(a)'
    <3>1. /\ pc'[a] = pc[a] /\ built'[a] = built[a]
          /\ taken'[a] = taken[a] /\ upc'[a] = upc[a] /\ todo'[a] = todo[a]
      BY <1>1, BuildMoves DEF IndInv
    <3>2. BuildOK(a)
      BY DEF BuildsOK
    <3> QED
      BY <2>1, <3>1, <3>2 DEF BuildOK, Proper, AsFirst
  <2> QED
    BY <1>1, <2>1, <2>2, <2>3, BuildMoves DEF IndInv, BuildsOK
<1>2. CASE UNCHANGED buildVars
  BY <1>2, EditedStep DEF buildVars, BuildsOK, BuildOK, Shaped, Proper, AsFirst
<1> QED
  BY <1>1, <1>2, StepKinds

-----------------------------------------------------------------------------
(* What a step of a build does to the record file of its tree.             *)
LEMMA FileMoves ==
    ASSUME BuildsOK, FilesOK, NEW b \in Clients, BuildStep(b)
    PROVE  /\ DOMAIN files' = Trees
           /\ \A t \in Trees \ {tree[b]} : files'[t] = files[t]
           /\ kills \subseteq kills'
           /\ \/ /\ UNCHANGED files
                 /\ pc[b] = "write" => Cut(b)'
                 /\ pc'[b] # "write"
                 /\ pc'[b] \in {"graph", "upload", "ended", "not uploaded"} =>
                        pc[b] \in {"graph", "upload"} \/ Cut(b)'
                 /\ Wrote(b) => Wrote(b)' /\ built'[b] = built[b]
              \/ /\ pc[b] = "postprocess" /\ pc'[b] = "write"
                 /\ files'[tree[b]] = [there |-> TRUE, whole |-> FALSE, doc |-> NoText]
              \/ /\ pc[b] = "write" /\ pc'[b] = "write" /\ UNCHANGED built
                 /\ \E doc \in Beginnings(SaveToFile(built[b])) :
                       files'[tree[b]] = [there |-> files[tree[b]].there,
                                          whole |-> files[tree[b]].whole, doc |-> doc]
              \/ /\ pc[b] = "write" /\ pc'[b] = "graph" /\ UNCHANGED built
                 /\ files'[tree[b]] = [there |-> TRUE, whole |-> TRUE,
                                       doc |-> SaveToFile(built[b])]
<1>1. tree[b] \in Trees /\ DOMAIN files = Trees /\ DOMAIN built = Clients /\ DOMAIN pc = Clients
  BY DEF BuildsOK, FilesOK
<1>2. CASE OpenRecord(b)
  BY <1>1, <1>2 DEF OpenRecord, Goes, Elsewhere
<1>3. CASE FlushRecord(b)
  <2>1. PICK doc \in Beginnings(SaveToFile(built[b])) : files' = [files EXCEPT ![tree[b]].doc = doc]
    BY <1>3 DEF FlushRecord
  <2>2. PICK a, w, d : files[tree[b]] = [there |-> a, whole |-> w, doc |-> d]
    BY <1>1 DEF FilesOK, FileOK
  <2>3. files'[tree[b]] = [there |-> a, whole |-> w, doc |-> doc]
    BY <1>1, <2>1, <2>2
  <2>4. files[tree[b]].there = a /\ files[tree[b]].whole = w
    BY <2>2
  <2>5. \A t \in Trees \ {tree[b]} : files'[t] = files[t]
    BY <1>1, <2>1
  <2>6. DOMAIN files' = Trees
    BY <1>1, <2>1
  <2>7. pc[b] = "write" /\ UNCHANGED <<pc, built, kills>>
    BY <1>3 DEF FlushRecord, Elsewhere
  <2> QED
    BY <2>3, <2>4, <2>5, <2>6, <2>7
<1>4. CASE CloseRecord(b)
  BY <1>1, <1>4 DEF CloseRecord, Replaced, Goes, Elsewhere
<1>5. CASE Start(b) \/ Track(b) \/ TrackingLost(b) \/ TrackBuildThrows(b) \/ SaveThrows(b)
  <2>1. UNCHANGED <<files, kills>> /\ pc[b] \in {"idle", "track", "postprocess"}
        /\ pc'[b] \in {"track", "postprocess", "failed"}
    BY <1>1, <1>5 DEF Start, Track, TrackingLost, TrackBuildThrows, SaveThrows, Goes, Elsewhere
  <2> QED
    BY <1>1, <2>1 DEF Wrote
<1>6. CASE GraphThrows(b) \/ GraphSaved(b) \/ EndWithoutUpload(b) \/ Upload(b) \/ EndOfUpload(b)
  <2>1. UNCHANGED <<files, kills, built>> /\ pc[b] \in {"graph", "upload"}
        /\ pc'[b] \in {"upload", "failed", "not uploaded", "ended"}
    BY <1>1, <1>6 DEF GraphThrows, GraphSaved, EndWithoutUpload, Upload, EndOfUpload, Goes, Elsewhere
  <2> QED
    BY <1>1, <2>1 DEF Wrote
<1>7. CASE Kill(b)
  <2>1. UNCHANGED <<files, built>> /\ pc'[b] = "failed" /\ kills' = kills \cup {<<b, pc[b]>>}
    BY <1>1, <1>7 DEF Kill
  <2> QED
    BY <1>1, <2>1 DEF Wrote, Cut
<1>8. CASE CloseFullDisk(b)
  <2>1. UNCHANGED <<files, built>> /\ pc[b] = "write" /\ pc'[b] = "graph" /\ kills' = kills \cup {<<b, "full">>}
    BY <1>1, <1>8 DEF CloseFullDisk, Goes
  <2> QED
    BY <1>1, <2>1 DEF Wrote, Cut
<1> QED
  BY <1>2, <1>3, <1>4, <1>5, <1>6, <1>7, <1>8 DEF BuildStep

LEMMA FilesStep ==
    ASSUME IndInv, EditedIsKnown, BuildsOK, FilesOK, [Next]_vars
    PROVE  FilesOK'
<1>1. ASSUME NEW b \in Clients, BuildStep(b)
      PROVE  FilesOK'
  <2>1. edited' = edited
    BY <1>1, BuildMoves DEF IndInv, bundleVars
  <2>2. \A t \in Trees : files'[t] = files[t] => FileOK(t)'
    BY <2>1 DEF FilesOK, FileOK, Proper, AsFirst
  <2>3. tree[b] \in Trees /\ Proper(built[b]) /\ AsFirst(built[b].deps)
    BY DEF BuildsOK, BuildOK
  <2>4. ASSUME NEW doc \in Beginnings(SaveToFile(built[b])) \cup {SaveToFile(built[b]), NoText}
        PROVE  Proper(LoadFromFile(doc)) /\ AsFirst(LoadFromFile(doc).deps)
    <3>1. /\ Proper(LoadFromFile(doc))
          /\ \A d \in LoadFromFile(doc).deps : \E e \in built[b].deps : d.path = e.path /\ d.hash = e.hash
      BY <2>3, CutIsProper
    <3> QED
      BY <2>3, <3>1 DEF AsFirst
  <2>5. ASSUME NEW a, NEW w, NEW doc \in Beginnings(SaveToFile(built[b])) \cup {SaveToFile(built[b]), NoText},
               files'[tree[b]] = [there |-> a, whole |-> w, doc |-> doc], w => a
        PROVE  FileOK(tree[b])'
    <3>1. files'[tree[b]].there = a /\ files'[tree[b]].whole = w /\ files'[tree[b]].doc = doc
      BY <2>5
    <3>2. tree' = tree
      BY <1>1, BuildMoves DEF IndInv
    <3> QED
      BY <2>1, <2>4, <2>5, <3>1, <3>2 DEF FileOK, AsFirst, Proper
  <2>6. FileOK(tree[b])'
    <3>1. files[tree[b]].whole => files[tree[b]].there
      BY <2>3 DEF FilesOK, FileOK
    <3>2. \/ files' = files
          \/ files'[tree[b]] = [there |-> TRUE, whole |-> FALSE, doc |-> NoText]
          \/ \E doc \in Beginnings(SaveToFile(built[b])) :
                files'[tree[b]] = [there |-> files[tree[b]].there,
                                   whole |-> files[tree[b]].whole, doc |-> doc]
          \/ files'[tree[b]] = [there |-> TRUE, whole |-> TRUE, doc |-> SaveToFile(built[b])]
      BY <1>1, FileMoves
    <3>3. tree' = tree
      BY <1>1, BuildMoves DEF IndInv
    <3>4. CASE files' = files
      BY <2>2, <2>3, <3>3, <3>4
    <3>5. CASE files'[tree[b]] = [there |-> TRUE, whole |-> FALSE, doc |-> NoText]
      BY <2>5, <3>5
    <3>6. CASE \E doc \in Beginnings(SaveToFile(built[b])) :
                  files'[tree[b]] = [there |-> files[tree[b]].there,
                                     whole |-> files[tree[b]].whole, doc |-> doc]
      BY <2>5, <3>1, <3>6
    <3>7. CASE files'[tree[b]] = [there |-> TRUE, whole |-> TRUE, doc |-> SaveToFile(built[b])]
      BY <2>5, <3>7
    <3> QED
      BY <3>2, <3>4, <3>5, <3>6, <3>7
  <2>7. tree' = tree
    BY <1>1, BuildMoves DEF IndInv
  <2> QED
    BY <1>1, <2>2, <2>6, <2>7, FileMoves DEF FilesOK
<1>2. CASE UNCHANGED buildVars
  <2>1. edited \subseteq edited' /\ files' = files
    BY <1>2, EditedStep DEF buildVars
  <2>2. ASSUME NEW t \in Trees
        PROVE  FileOK(t)'
    <3>1. FileOK(t)
      BY DEF FilesOK
    <3>2. AsFirst(LoadFromFile(files[t].doc).deps)'
      BY <2>1, <3>1 DEF FileOK, AsFirst
    <3> QED
      BY <2>1, <3>1, <3>2 DEF FileOK
  <2> QED
    BY <2>1, <2>2 DEF FilesOK
<1> QED
  BY <1>1, <1>2, StepKinds

LEMMA ApartStep ==
    ASSUME IndInv, BuildsOK, FilesOK, Apart, [Next]_vars
    PROVE  Apart'
<1>1. ASSUME NEW b \in Clients, BuildStep(b)
      PROVE  Apart'
  <2>1. tree' = tree /\ tree[b] \in Trees /\ \A a \in Clients \ {b} : pc'[a] = pc[a] /\ tree[a] \in Trees
    BY <1>1, BuildMoves DEF IndInv, BuildsOK
  <2>2. \/ pc[b] \in Underway
        \/ pc'[b] \notin Underway
        \/ /\ \A a \in Clients : tree[a] = tree[b] => pc[a] \notin Underway
           /\ pc'[b] # "write"
    <3>1. CASE Start(b)
      BY <3>1 DEF Start, Goes, BuildsOK
    <3>2. CASE ~Start(b)
      BY <1>1, <3>2 DEF BuildStep, Track, TrackingLost, TrackBuildThrows, SaveThrows, OpenRecord, FlushRecord,
             CloseRecord, CloseFullDisk, GraphThrows, GraphSaved, EndWithoutUpload, Upload, EndOfUpload, Kill, Goes, Underway
    <3> QED
      BY <3>1, <3>2
  <2>3. \A a, c \in Clients :
           tree'[a] = tree'[c] /\ pc'[a] \in Underway /\ pc'[c] \in Underway => a = c
    BY <2>1, <2>2 DEF Apart
  <2>4. ASSUME NEW a \in Clients, pc'[a] = "write"
        PROVE  ~files'[tree[a]].whole
    <3>1. CASE a = b
      <4>1. CASE pc[b] = "postprocess"
        <5>1. files'[tree[b]] = [there |-> TRUE, whole |-> FALSE, doc |-> NoText]
          BY <1>1, <2>4, <3>1, <4>1, FileMoves
        <5> QED
          BY <3>1, <5>1
      <4>2. CASE pc[b] # "postprocess"
        <5>1. PICK doc \in Beginnings(SaveToFile(built[b])) :
                 files'[tree[b]] = [there |-> files[tree[b]].there,
                                    whole |-> files[tree[b]].whole, doc |-> doc]
          BY <1>1, <2>4, <3>1, <4>2, FileMoves
        <5>2. pc[b] = "write"
          BY <1>1, <2>4, <3>1, <4>2, FileMoves
        <5> QED
          BY <3>1, <5>1, <5>2 DEF Apart
      <4> QED
        BY <4>1, <4>2
    <3>2. CASE a # b
      <4>1. pc[a] = "write"
        BY <2>1, <2>4, <3>2
      <4>2. CASE tree[a] = tree[b]
        <5>1. files' = files
          BY <1>1, <3>2, <4>1, <4>2, FileMoves DEF Apart, Underway
        <5> QED
          BY <4>1, <5>1 DEF Apart
      <4>3. CASE tree[a] # tree[b]
        BY <1>1, <2>1, <3>2, <4>1, <4>3, FileMoves DEF Apart
      <4> QED
        BY <4>2, <4>3
    <3> QED
      BY <3>1, <3>2
  <2> QED
    BY <2>1, <2>3, <2>4 DEF Apart
<1>2. CASE UNCHANGED buildVars
  BY <1>2 DEF buildVars, Apart
<1> QED
  BY <1>1, <1>2, StepKinds

LEMMA WholeStep ==
    ASSUME IndInv, BuildsOK, FilesOK, Apart, WholeRecords, [Next]_vars
    PROVE  WholeRecords'
<1>1. ASSUME NEW b \in Clients, BuildStep(b), NEW t \in Trees
      PROVE  WholeRecord(t)'
  <2> DEFINE builds == BuildsOf(t)
  <2>1. tree' = tree /\ \A a \in Clients \ {b} : pc'[a] = pc[a] /\ built'[a] = built[a]
    BY <1>1, BuildMoves DEF IndInv
  <2>2. kills \subseteq kills'
    BY <1>1, FileMoves
  <2>3. WholeRecord(t)
    BY <1>1 DEF WholeRecords
  <2>4. Shaped(built[b]) /\ Proper(built[b])
    BY DEF BuildsOK, BuildOK
  <2>5. SUFFICES
        /\ files'[t].there /\ ~files'[t].whole =>
              \E a \in builds : pc'[a] = "write" \/ Cut(a)'
        /\ files'[t].whole =>
              \E a \in builds : Wrote(a)' /\ LoadFromFile(files'[t].doc) = built'[a]
        /\ \A c \in builds : pc'[c] \in {"graph", "upload", "ended", "not uploaded"} =>
              \/ files'[t].whole /\ LoadFromFile(files'[t].doc) = built'[c]
              \/ (\E a \in builds \ {c} : Wrote(a)') \/ Cut(c)'
    BY <2>1 DEF WholeRecord, BuildsOf
  <2>6. /\ files[t].there /\ ~files[t].whole =>
              \E a \in builds : pc[a] = "write" \/ Cut(a)
        /\ files[t].whole =>
              \E a \in builds : Wrote(a) /\ LoadFromFile(files[t].doc) = built[a]
        /\ \A c \in builds : pc[c] \in {"graph", "upload", "ended", "not uploaded"} =>
              \/ files[t].whole /\ LoadFromFile(files[t].doc) = built[c]
              \/ (\E a \in builds \ {c} : Wrote(a)) \/ Cut(c)
    BY <2>3 DEF WholeRecord
  <2>7. \A a \in Clients \ {b} : Wrote(a)' <=> Wrote(a)
    BY <2>1 DEF Wrote
  <2>10. \A a : Cut(a) => Cut(a)'
    BY <2>2 DEF Cut
  <2>8. CASE b \notin builds
    <3>1. files'[t] = files[t]
      BY <1>1, <2>8, FileMoves DEF BuildsOf
    <3>2. \A a \in builds : a \in Clients \ {b}
      BY <2>8 DEF BuildsOf
    <3> HIDE DEF builds
    <3> QED
      BY <2>1, <2>10, <2>6, <2>7, <3>1, <3>2
  <2>9. CASE b \in builds
    <3>1. tree[b] = t /\ \A a \in builds : a \in Clients
      BY <2>9 DEF BuildsOf
    <3> HIDE DEF builds
    <3>2. CASE /\ UNCHANGED files
               /\ pc[b] = "write" => Cut(b)'
               /\ pc'[b] # "write"
               /\ pc'[b] \in {"graph", "upload", "ended", "not uploaded"} => pc[b] \in {"graph", "upload"} \/ Cut(b)'
               /\ Wrote(b) => Wrote(b)' /\ built'[b] = built[b]
      <4>1. \A a \in builds : Wrote(a) => Wrote(a)' /\ built'[a] = built[a]
        BY <2>1, <2>7, <3>1, <3>2
      <4>2. files'[t].there /\ ~files'[t].whole =>
               \E a \in builds : pc'[a] = "write" \/ Cut(a)'
        BY <2>1, <2>10, <2>6, <3>1, <3>2
      <4>3. files'[t].whole =>
               \E a \in builds : Wrote(a)' /\ LoadFromFile(files'[t].doc) = built'[a]
        BY <2>6, <3>2, <4>1
      <4>4. ASSUME NEW c \in builds, pc'[c] \in {"graph", "upload", "ended", "not uploaded"}
            PROVE  \/ files'[t].whole /\ LoadFromFile(files'[t].doc) = built'[c]
                   \/ (\E a \in builds \ {c} : Wrote(a)') \/ Cut(c)'
        <5>1. CASE pc[c] \in {"graph", "upload", "ended", "not uploaded"}
          <6>1. built'[c] = built[c]
            BY <4>1, <5>1 DEF Wrote
          <6> QED
            BY <2>10, <2>6, <3>2, <4>1, <5>1, <6>1
        <5>2. CASE Cut(c)'
          BY <5>2
        <5> QED
          BY <2>1, <3>1, <3>2, <4>4, <5>1, <5>2
      <4> QED
        BY <4>2, <4>3, <4>4
    <3>3. CASE /\ pc[b] = "postprocess" /\ pc'[b] = "write"
               /\ files'[tree[b]] = [there |-> TRUE, whole |-> FALSE, doc |-> NoText]
      <4>1. Wrote(b)' /\ ~files'[t].whole
        BY <3>1, <3>3 DEF Wrote
      <4> QED
        BY <2>9, <3>3, <4>1
    <3>4. CASE /\ pc[b] = "write" /\ pc'[b] = "write" /\ UNCHANGED built
               /\ \E doc \in Beginnings(SaveToFile(built[b])) :
                     files'[tree[b]] = [there |-> files[tree[b]].there,
                                        whole |-> files[tree[b]].whole, doc |-> doc]
      <4>1. ~files[t].whole
        BY <3>1, <3>4 DEF Apart
      <4>2. Wrote(b)' /\ ~files'[t].whole
        BY <3>1, <3>4, <4>1 DEF Wrote
      <4> QED
        BY <2>9, <3>4, <4>2
    <3>5. CASE /\ pc[b] = "write" /\ pc'[b] = "graph" /\ UNCHANGED built
               /\ files'[tree[b]] = [there |-> TRUE, whole |-> TRUE,
                                     doc |-> SaveToFile(built[b])]
      <4>1. files'[t].whole /\ files'[t].doc = SaveToFile(built[b])
        BY <3>1, <3>5
      <4>2. LoadFromFile(files'[t].doc) = built'[b]
        BY <2>4, <3>5, <4>1, RoundTrip
      <4>3. Wrote(b)'
        BY <3>5 DEF Wrote
      <4> QED
        BY <2>9, <4>1, <4>2, <4>3
    <3>6. \/ /\ UNCHANGED files
             /\ pc[b] = "write" => Cut(b)'
             /\ pc'[b] # "write"
             /\ pc'[b] \in {"graph", "upload", "ended", "not uploaded"} => pc[b] \in {"graph", "upload"} \/ Cut(b)'
             /\ Wrote(b) => Wrote(b)' /\ built'[b] = built[b]
          \/ /\ pc[b] = "postprocess" /\ pc'[b] = "write"
             /\ files'[tree[b]] = [there |-> TRUE, whole |-> FALSE, doc |-> NoText]
          \/ /\ pc[b] = "write" /\ pc'[b] = "write" /\ UNCHANGED built
             /\ \E doc \in Beginnings(SaveToFile(built[b])) :
                   files'[tree[b]] = [there |-> files[tree[b]].there,
                                      whole |-> files[tree[b]].whole, doc |-> doc]
          \/ /\ pc[b] = "write" /\ pc'[b] = "graph" /\ UNCHANGED built
             /\ files'[tree[b]] = [there |-> TRUE, whole |-> TRUE,
                                   doc |-> SaveToFile(built[b])]
      BY <1>1, FileMoves
    <3> QED
      BY <3>2, <3>3, <3>4, <3>5, <3>6, Zenon
  <2> QED
    BY <2>8, <2>9
<1>2. ASSUME NEW b \in Clients, BuildStep(b)
      PROVE  WholeRecords'
  BY <1>1, <1>2 DEF WholeRecords
<1>3. CASE UNCHANGED buildVars
  <2>1. UNCHANGED <<tree, pc, built, kills, files>>
    BY <1>3 DEF buildVars
  <2>2. ASSUME NEW t \in Trees
        PROVE  WholeRecord(t)'
    <3>1. WholeRecord(t)
      BY DEF WholeRecords
    <3>2. BuildsOf(t)' = BuildsOf(t) /\ \A a \in BuildsOf(t) : Wrote(a)' <=> Wrote(a)
      BY <2>1 DEF Wrote, BuildsOf
    <3>3. /\ files'[t] = files[t] /\ kills' = kills
          /\ \A a \in BuildsOf(t) : pc'[a] = pc[a] /\ built'[a] = built[a]
      BY <2>1
    <3> QED
      BY <3>1, <3>2, <3>3 DEF WholeRecord, Cut
  <2> QED
    BY <2>2 DEF WholeRecords
<1> QED
  BY <1>2, <1>3, StepKinds

-----------------------------------------------------------------------------
(* The uploads of a server that takes what it is given.                    *)

LEMMA NextIsThis ==
    ASSUME IndInv, NEW c \in Clients, NEW d \in todo[c], NEW e \in todo[c], IsNext(c, d), IsNext(c, e)
    PROVE  d.path = e.path /\ d.hash = e.hash
BY NextIsOne DEF IndInv

(* A file that is not there was deleted.                                   *)
LEMMA AbsentIsEdited ==
    ASSUME IndInv, EditedIsKnown, NEW c \in Clients, NEW d \in todo[c], disk[d.path] = Absent
    PROVE  d.path \in edited
<1>1. d.path \in Files
  BY DEF IndInv, UploadTypeOK, Deps
<1>2. Original[d.path] # Absent
  BY <1>1, UploaderAssumption
<1> QED
  BY <1>1, <1>2 DEF EditedIsKnown

(* Nothing is taken out of the store, and a zip is removed by one whose    *)
(* dependency is stored.                                                   *)
LEMMA UploadingElsewhere ==
    ASSUME IndInv, NEW b \in Clients, NEW c \in Clients \ {b}, Uploading(c),
           UNCHANGED <<edited, disk>>, pc'[c] = pc[c], built'[c] = built[c],
           taken'[c] = taken[c], upc'[c] = upc[c], todo'[c] = todo[c],
           \A h \in Contents : store[h] # {} => store'[h] # {},
           \A d \in todo[c] : zips[d.path] # {} => zips'[d.path] # {} \/ store'[d.hash] # {},
           \A d \in built[c].deps : d.hash \in Contents
    PROVE  Uploading(c)'
<1>1. \A d \in taken[c] \cup todo[c] : d.hash \in Contents
  BY DEF IndInv, UploadTypeOK, Deps
<1>2. (upc[c] # "off" => \A d \in taken[c] : IsCustom(d) /\ d.path \notin edited =>
           store[d.hash] # {} \/ d \in todo[c])'
  BY <1>1 DEF Uploading
<1>3. (\A d \in todo[c] : IsNext(c, d) =>
           /\ upc[c] = "put" => zips[d.path] # {} \/ store[d.hash] # {}
           /\ upc[c] = "remove" => store[d.hash] # {})'
  BY <1>1 DEF Uploading, IsNext
<1>4. (pc[c] = "ended" => \A d \in built[c].deps :
           d.path \in Custom \ edited => store[d.hash] # {})'
  BY DEF Uploading
<1> QED
  BY <1>2, <1>3, <1>4 DEF Uploading

LEMMA UploadingStep ==
    ASSUME IndInv, EditedIsKnown, BuildsOK, \A c \in Clients : Uploading(c),
           NEW b \in Clients, NEW d \in todo[b], ~faulty', pc[b] = "upload",
           UNCHANGED <<pc, built, edited>>,
           \/ Skip(b, d) \/ NotStored(b, d) \/ CompressFile(b, d) \/ CompressFails(b, d)
           \/ Put(b, d) \/ PutFails(b, d) \/ RemoveCompressed(b, d)
    PROVE  \A c \in Clients : Uploading(c)'
<1>1. /\ d.path \in Files /\ d.hash \in Contents /\ d \in taken[b]
      /\ zips \in [Files -> SUBSET (Contents \cup {Foreign})]
      /\ store \in [Contents -> SUBSET (Contents \cup {Foreign})]
      /\ upc \in [Clients -> {"off", "next", "zip", "put", "remove"}]
      /\ todo \in [Clients -> SUBSET Deps]
      /\ TodoTaken /\ Agreement
  BY DEF IndInv, UploadTypeOK, Deps, TodoTaken
<1>2. Uploading(b)
  OBVIOUS
<1>3. \A c \in Clients : \A e \in todo[c] : e.path = d.path => e.hash = d.hash
  BY <1>1 DEF Agreement, TodoTaken
<1>4. \A e \in todo[b] : IsNext(b, d) /\ IsNext(b, e) => e.path = d.path /\ e.hash = d.hash
  BY NextIsThis
<1>5. \A c \in Clients : \A e \in todo[c] : e.path \in Files /\ e.hash \in Contents
  BY <1>1 DEF Deps
<1>6. ASSUME NEW c \in Clients \ {b},
             \A h \in Contents : store[h] # {} => store'[h] # {},
             \A e \in todo[c] : zips[e.path] # {} => zips'[e.path] # {} \/ store'[e.hash] # {}
      PROVE  Uploading(c)'
  <2>1. taken'[c] = taken[c] /\ upc'[c] = upc[c] /\ todo'[c] = todo[c] /\ disk' = disk
    BY <1>1, UploadMoves DEF UploadStep, IndInv
  <2>2. \A e \in built[c].deps : e.hash \in Contents
    BY DEF BuildsOK, BuildOK, Proper, Deps
  <2> QED
    BY <1>6, <2>1, <2>2, UploadingElsewhere
<1>7. pc[b] # "ended" /\ pc'[b] # "ended"
  OBVIOUS
<1>8. CASE Skip(b, d) \/ CompressFails(b, d)
  <2>1. /\ upc'[b] = "next" /\ todo'[b] = todo[b] \ {d} /\ UNCHANGED <<store, zips, taken>>
        /\ upc[b] # "off"
    BY <1>1, <1>8 DEF Skip, CompressFails, At, Leave
  <2>2. store[d.hash] # {} \/ d.path \in edited
    BY <1>8, AbsentIsEdited DEF Skip, CompressFails
  <2>3. Uploading(b)'
    BY <1>2, <1>7, <2>1, <2>2 DEF Uploading
  <2> QED
    BY <1>6, <2>1, <2>3
<1>9. CASE NotStored(b, d)
  <2>1. upc'[b] = "zip" /\ UNCHANGED <<store, zips, taken, todo>> /\ upc[b] # "off"
    BY <1>1, <1>9 DEF NotStored, At
  <2>2. Uploading(b)'
    BY <1>2, <1>7, <2>1 DEF Uploading
  <2> QED
    BY <1>6, <2>1, <2>2
<1>10. CASE CompressFile(b, d)
  <2>1. upc'[b] = "put" /\ UNCHANGED <<store, taken, todo>> /\ upc[b] # "off" /\ IsNext(b, d)
    BY <1>1, <1>10 DEF CompressFile, At
  <2>2. \A f \in Files : zips'[f] = IF f = d.path THEN ReplaceEntry(zips[f], disk[f]) ELSE zips[f]
    BY <1>1, <1>10 DEF CompressFile
  <2>3. \A f \in Files : zips[f] # {} \/ f = d.path => zips'[f] # {}
    BY <2>2 DEF ReplaceEntry
  <2>4. \A e \in todo[b] : IsNext(b, e)' => IsNext(b, e)
    BY <2>1 DEF IsNext
  <2>5. Uploading(b)'
    BY <1>1, <1>2, <1>4, <1>7, <2>1, <2>3, <2>4 DEF Uploading
  <2> QED
    BY <1>5, <1>6, <2>1, <2>3, <2>5
<1>11. CASE Put(b, d) \/ PutFails(b, d)
  <2>1. upc[b] = "put" /\ upc'[b] = "remove" /\ UNCHANGED <<zips, taken, todo>> /\ IsNext(b, d)
    BY <1>1, <1>11 DEF Put, PutFails, At
  <2>2. \A h \in Contents : store[h] # {} => store'[h] # {}
    BY <1>1, <1>11 DEF Put, PutFails
  <2>3. store'[d.hash] # {}
    <3>1. CASE Put(b, d)
      BY <1>1, <3>1 DEF Put
    <3>2. CASE PutFails(b, d)
      BY <1>2, <2>1, <3>2 DEF PutFails, Uploading
    <3> QED
      BY <1>11, <3>1, <3>2
  <2>4. \A e \in todo[b] : IsNext(b, e)' => IsNext(b, e)
    BY <2>1 DEF IsNext
  <2>5. \A e \in todo[b] : IsNext(b, e)' => store'[e.hash] # {}
    BY <1>4, <2>1, <2>3, <2>4
  <2>6. \A e \in taken[b] : e.hash \in Contents
    BY DEF IndInv, UploadTypeOK, Deps
  <2>7. Uploading(b)'
    BY <1>2, <1>7, <2>1, <2>2, <2>5, <2>6 DEF Uploading
  <2> QED
    BY <1>6, <2>1, <2>2, <2>7
<1>12. CASE RemoveCompressed(b, d)
  <2>1. /\ upc[b] = "remove" /\ upc'[b] = "next" /\ UNCHANGED <<store, taken>> /\ IsNext(b, d)
        /\ todo'[b] = todo[b] \ {d}
    BY <1>1, <1>12 DEF RemoveCompressed, At, Leave
  <2>2. \A f \in Files \ {d.path} : zips'[f] = zips[f]
    BY <1>1, <1>12 DEF RemoveCompressed
  <2>3. store[d.hash] # {}
    BY <1>2, <2>1 DEF Uploading
  <2>4. Uploading(b)'
    BY <1>2, <1>7, <2>1, <2>3 DEF Uploading
  <2>5. \A c \in Clients : \A e \in todo[c] : zips[e.path] # {} => zips'[e.path] # {} \/ store'[e.hash] # {}
    BY <1>3, <1>5, <2>1, <2>2, <2>3
  <2> QED
    BY <1>6, <2>1, <2>4, <2>5
<1> QED
  BY <1>8, <1>9, <1>10, <1>11, <1>12

LEMMA UploadsStep ==
    ASSUME IndInv, TakenIsResolved, EditedIsKnown, BuildsOK, UploadsOK, [Next]_vars
    PROVE  UploadsOK'
<1>1. ASSUME NEW b \in Clients, BuildStep(b), ~faulty'
      PROVE  \A c \in Clients : Uploading(c)'
  <2>1. /\ UNCHANGED <<disk, edited>>
        /\ \A c \in Clients \ {b} :
              /\ pc'[c] = pc[c] /\ built'[c] = built[c]
              /\ taken'[c] = taken[c] /\ upc'[c] = upc[c] /\ todo'[c] = todo[c]
    BY <1>1, BuildMoves DEF IndInv, bundleVars
  <2>2. /\ BuildOK(b) /\ pc \in [Clients -> Underway \cup Over \cup {"idle"}]
        /\ upc \in [Clients -> {"off", "next", "zip", "put", "remove"}]
        /\ todo \in [Clients -> SUBSET Deps]
    BY DEF BuildsOK, IndInv, UploadTypeOK
  <2>3. CASE Upload(b)
    <3>1. PICK d \in todo[b] : \/ Skip(b, d) \/ NotStored(b, d)
                               \/ CompressFile(b, d) \/ CompressFails(b, d)
                               \/ Put(b, d) \/ PutFails(b, d) \/ RemoveCompressed(b, d)
      BY <2>3 DEF Upload, UploadStep
    <3>2. ~faulty
      BY <1>1, <3>1 DEF Skip, NotStored, CompressFile, CompressFails, Put, PutFails, RemoveCompressed
    <3>3. \A c \in Clients : Uploading(c)
      BY <3>2 DEF UploadsOK
    <3>4. pc[b] = "upload" /\ UNCHANGED <<pc, built, edited>>
      BY <2>1, <2>3 DEF Upload
    <3> QED
      BY <1>1, <3>1, <3>3, <3>4, UploadingStep
  <2>4. CASE ~Upload(b)
    <3>1. UNCHANGED <<faulty, store, zips>>
      BY <1>1, <2>4 DEF BuildStep, Start, Track, TrackingLost, TrackBuildThrows, SaveThrows, OpenRecord,
             FlushRecord, CloseRecord, CloseFullDisk, GraphThrows, GraphSaved, EndWithoutUpload, EndOfUpload, Kill,
             Take, Release, BeginUpload, uploadVars
    <3>2. \A c \in Clients : Uploading(c)
      BY <1>1, <3>1 DEF UploadsOK
    <3>3. \A c \in Clients \ {b} : Uploading(c)'
      <4>1. \A c \in Clients : \A e \in built[c].deps : e.hash \in Contents
        BY DEF BuildsOK, BuildOK, Proper, Deps
      <4> QED
        BY <2>1, <3>1, <3>2, <4>1, UploadingElsewhere
    <3>4. CASE GraphSaved(b)
      <4>1. /\ pc'[b] = "upload" /\ upc'[b] = "next" /\ taken' = taken
            /\ todo'[b] = {d \in taken[b] : IsCustom(d)}
        BY <2>2, <3>4 DEF GraphSaved, Goes, BeginUpload, At
      <4>2. Uploading(b)'
        BY <4>1 DEF Uploading
      <4> QED
        BY <3>3, <4>2
    <3>5. CASE EndOfUpload(b)
      <4>1. /\ upc[b] = "next" /\ todo[b] = {} /\ pc[b] = "upload" /\ built' = built
            /\ upc'[b] = "off" /\ todo'[b] = {}
        BY <2>2, <3>5 DEF EndOfUpload, Goes, Release
      <4>2. built[b].deps = taken[b]
        BY <2>2, <4>1 DEF BuildOK, Underway
      <4>3. \A d \in taken[b] : d.path \in Custom => IsCustom(d)
        BY DEF TakenIsResolved, Resolved, IsCustom
      <4>4. \A d \in taken[b] : d.path \in Custom \ edited => store[d.hash] # {}
        BY <3>2, <4>1, <4>3 DEF Uploading
      <4>5. Uploading(b)'
        BY <2>1, <3>1, <4>1, <4>2, <4>4 DEF Uploading
      <4> QED
        BY <3>3, <4>5
    <3>6. CASE ~GraphSaved(b) /\ ~EndOfUpload(b)
      <4>1. /\ pc'[b] # "ended" /\ upc'[b] = "off"
        <5>1. CASE Start(b) \/ Track(b) \/ TrackingLost(b) \/ TrackBuildThrows(b) \/ OpenRecord(b)
                   \/ FlushRecord(b) \/ CloseRecord(b) \/ CloseFullDisk(b)
          <6>1. pc[b] \in {"idle", "track", "postprocess", "write"} /\ upc' = upc
            BY <5>1 DEF Start, Track, TrackingLost, TrackBuildThrows, OpenRecord, FlushRecord, CloseRecord, CloseFullDisk,
                        Goes, Take, uploadVars
          <6>2. upc[b] = "off"
            BY <2>2, <6>1 DEF BuildOK
          <6>3. pc'[b] # "ended"
            BY <2>2, <5>1 DEF Start, Track, TrackingLost, TrackBuildThrows, OpenRecord, FlushRecord, CloseRecord, CloseFullDisk, Goes
          <6> QED
            BY <6>1, <6>2, <6>3
        <5>2. CASE SaveThrows(b) \/ GraphThrows(b) \/ EndWithoutUpload(b) \/ Kill(b)
          BY <2>2, <5>2 DEF SaveThrows, GraphThrows, EndWithoutUpload, Kill, Goes, Release
        <5> QED
          BY <1>1, <2>4, <3>6, <5>1, <5>2 DEF BuildStep
      <4>2. todo'[b] = {}
        <5>1. BuildOK(b)'
          BY <1>1, <2>1, BuildsOwnStep
        <5> QED
          BY <4>1, <5>1 DEF BuildOK
      <4>3. Uploading(b)'
        BY <4>1, <4>2 DEF Uploading
      <4> QED
        BY <3>3, <4>3
    <3> QED
      BY <3>4, <3>5, <3>6
  <2> QED
    BY <2>3, <2>4
<1>2. ASSUME UNCHANGED buildVars, ~faulty', NEW c \in Clients
      PROVE  Uploading(c)'
  <2>1. /\ taken' = taken /\ upc' = upc /\ todo' = todo /\ pc' = pc /\ built' = built
        /\ zips' = zips /\ store' = store /\ faulty' = faulty /\ edited \subseteq edited'
    BY <1>2, EditedStep DEF buildVars
  <2>2. Uploading(c)
    BY <1>2, <2>1 DEF UploadsOK
  <2> QED
    BY <2>1, <2>2 DEF Uploading, IsNext
<1> QED
  BY <1>1, <1>2, StepKinds DEF UploadsOK

(* A zip that is not the user's is in the hands of an upload, until a      *)
(* build is killed.                                                        *)
LEMMA ZipsStep ==
    ASSUME IndInv, BuildsOK, ZipsAreUsed, [Next]_vars
    PROVE  ZipsAreUsed'
<1>1. ASSUME NEW b \in Clients, BuildStep(b), NoneKilled', NEW f \in Files
      PROVE  zips'[f] \subseteq {Foreign} \/ InHand(f)'
  <2>1. \A c \in Clients \ {b} : upc'[c] = upc[c] /\ todo'[c] = todo[c]
    BY <1>1, BuildMoves DEF IndInv
  <2>2. ~Kill(b) /\ NoneKilled
    <3>1. kills \subseteq kills'
      BY <1>1 DEF BuildStep, Start, Track, TrackingLost, TrackBuildThrows, SaveThrows, OpenRecord,
               FlushRecord, CloseRecord, CloseFullDisk, GraphThrows, GraphSaved, EndWithoutUpload, Upload, EndOfUpload,
               Kill, Elsewhere
    <3>2. Kill(b) => <<b, pc[b]>> \in kills' /\ pc[b] # "full"
      BY DEF Kill, Underway
    <3> QED
      BY <1>1, <3>1, <3>2 DEF NoneKilled
  <2>3. zips[f] \subseteq {Foreign} \/ InHand(f)
    BY <2>2 DEF ZipsAreUsed
  <2>4. /\ upc \in [Clients -> {"off", "next", "zip", "put", "remove"}]
        /\ todo \in [Clients -> SUBSET Deps]
        /\ zips \in [Files -> SUBSET (Contents \cup {Foreign})]
    BY DEF IndInv, UploadTypeOK
  <2>5. ASSUME NEW c \in Clients \ {b}, NEW e \in todo[c], upc[c] \in {"put", "remove"}, IsNext(c, e), e.path = f
        PROVE  InHand(f)'
    BY <2>1, <2>5 DEF InHand, IsNext
  <2>6. ASSUME zips'[f] = zips[f],
               \A e \in todo[b] : upc[b] \in {"put", "remove"} /\ IsNext(b, e) =>
                   upc'[b] \in {"put", "remove"} /\ todo'[b] = todo[b]
        PROVE  zips'[f] \subseteq {Foreign} \/ InHand(f)'
    <3>1. CASE InHand(f)
      <4>1. PICK c \in Clients : upc[c] \in {"put", "remove"} /\ \E e \in todo[c] : IsNext(c, e) /\ e.path = f
        BY <3>1 DEF InHand
      <4>2. CASE c = b
        BY <2>6, <4>1, <4>2 DEF InHand, IsNext
      <4>3. CASE c # b
        BY <2>5, <4>1, <4>3
      <4> QED
        BY <4>2, <4>3
    <3>2. CASE zips[f] \subseteq {Foreign}
      BY <2>6, <3>2
    <3> QED
      BY <2>3, <3>1, <3>2
  <2>7. CASE Upload(b)
    <3>1. PICK d \in todo[b] : \/ Skip(b, d) \/ NotStored(b, d)
                               \/ CompressFile(b, d) \/ CompressFails(b, d)
                               \/ Put(b, d) \/ PutFails(b, d) \/ RemoveCompressed(b, d)
      BY <2>7 DEF Upload, UploadStep
    <3>2. d.path \in Files
      BY <2>4 DEF Deps
    <3>3. CASE Skip(b, d) \/ NotStored(b, d) \/ CompressFails(b, d)
      BY <2>6, <3>3 DEF Skip, NotStored, CompressFails, At
    <3>4. CASE Put(b, d) \/ PutFails(b, d)
      BY <2>4, <2>6, <3>4 DEF Put, PutFails, At
    <3>5. CASE CompressFile(b, d)
      <4>1. upc[b] = "zip" /\ upc'[b] = "put" /\ todo' = todo /\ IsNext(b, d)
        BY <2>4, <3>5 DEF CompressFile, At
      <4>2. CASE f = d.path
        BY <4>1, <4>2 DEF InHand, IsNext
      <4>3. CASE f # d.path
        BY <2>4, <2>6, <3>5, <4>1, <4>3 DEF CompressFile
      <4> QED
        BY <4>2, <4>3
    <3>6. CASE RemoveCompressed(b, d)
      <4>1. IsNext(b, d)
        BY <3>6 DEF RemoveCompressed
      <4>2. CASE f = d.path
        BY <2>4, <3>2, <3>6, <4>2 DEF RemoveCompressed, RemoveZip
      <4>3. CASE f # d.path
        <5>1. zips'[f] = zips[f]
          BY <2>4, <3>6, <4>3 DEF RemoveCompressed
        <5>2. \A e \in todo[b] : IsNext(b, e) => e.path # f
          BY <4>1, <4>3, NextIsThis
        <5> QED
          BY <2>3, <2>5, <5>1, <5>2 DEF InHand
      <4> QED
        BY <4>2, <4>3
    <3> QED
      BY <3>1, <3>3, <3>4, <3>5, <3>6
  <2>8. CASE ~Upload(b)
    <3>1. UNCHANGED zips
      BY <1>1, <2>8 DEF BuildStep, Start, Track, TrackingLost, TrackBuildThrows, SaveThrows, OpenRecord,
             FlushRecord, CloseRecord, CloseFullDisk, GraphThrows, GraphSaved, EndWithoutUpload, EndOfUpload, Kill,
             Take, Release, BeginUpload, uploadVars
    <3>2. CASE EndOfUpload(b)
      BY <2>6, <3>1, <3>2 DEF EndOfUpload
    <3>3. CASE ~EndOfUpload(b)
      <4>1. pc[b] # "upload"
        BY <1>1, <2>2, <2>8, <3>3 DEF BuildStep, Start, Track, TrackingLost, TrackBuildThrows, SaveThrows, OpenRecord,
             FlushRecord, CloseRecord, CloseFullDisk, GraphThrows, GraphSaved, EndWithoutUpload, Goes
      <4>2. upc[b] = "off"
        BY <4>1 DEF BuildsOK, BuildOK
      <4> QED
        BY <2>6, <3>1, <4>2
    <3> QED
      BY <3>2, <3>3
  <2> QED
    BY <2>7, <2>8
<1>2. CASE UNCHANGED buildVars
  BY <1>2 DEF buildVars, ZipsAreUsed, NoneKilled, InHand, IsNext
<1> QED
  BY <1>1, <1>2, StepKinds DEF ZipsAreUsed

LEMMA SpecBuildInv == Spec => [](IndInv /\ BuildInv)
<1>1. IndInv /\ BuildInv /\ [Next]_vars => BuildInv'
  <2> SUFFICES ASSUME IndInv, BuildInv, [Next]_vars
               PROVE  BuildInv'
    OBVIOUS
  <2>1. /\ TakenIsResolved /\ EditedIsKnown /\ BuildsOK /\ FilesOK /\ Apart
        /\ WholeRecords /\ UploadsOK /\ ZipsAreUsed
    BY DEF BuildInv
  <2>2. TakenIsResolved' /\ EditedIsKnown' /\ BuildsOK' /\ FilesOK'
    BY <2>1, TakenStep, EditedStep, BuildsStep, FilesStep
  <2>3. Apart' /\ WholeRecords'
    BY <2>1, ApartStep, WholeStep
  <2>4. UploadsOK' /\ ZipsAreUsed'
    BY <2>1, UploadsStep, ZipsStep
  <2> QED
    BY <2>2, <2>3, <2>4 DEF BuildInv
<1> QED
  BY <1>1, InitBuildInv, SpecIndInv, PTL DEF Spec

(* A record file that says it is whole is what a build of its tree used;   *)
(* it is torn only by a build that is writing it or was killed doing so.   *)
THEOREM RecordsStayWhole == Spec => []RecordsAreWhole
<1>1. BuildInv => RecordsAreWhole
  <2> SUFFICES ASSUME BuildInv, NEW t \in Trees
               PROVE  LET builds == {b \in Clients : tree[b] = t} IN
                      /\ files[t].there /\ ~files[t].whole =>
                            \E b \in builds : pc[b] = "write" \/ Cut(b)
                      /\ files[t].whole => \E b \in builds : LoadFromFile(files[t].doc) = built[b]
                      /\ \A b \in builds : pc[b] \in {"ended", "not uploaded"} =>
                            \/ files[t].whole /\ LoadFromFile(files[t].doc) = built[b]
                            \/ \E a \in builds \ {b} : pc[a] \notin {"idle", "track", "postprocess"}
                            \/ Cut(b)
    BY DEF RecordsAreWhole
  <2>1. WholeRecord(t)
    BY DEF BuildInv, WholeRecords
  <2> QED
    BY <2>1 DEF WholeRecord, BuildsOf, Wrote
<1> QED
  BY <1>1, SpecBuildInv, PTL

(* Where nothing failed, a build that ended has put its files.             *)
THEOREM UploadsAreDone == Spec => []UploadedUnlessFaulty
<1>1. BuildInv => UploadedUnlessFaulty
  BY DEF BuildInv, UploadsOK, Uploading, UploadedUnlessFaulty
<1> QED
  BY <1>1, SpecBuildInv, PTL

-----------------------------------------------------------------------------
(* Bundles.                                                                *)

CustomOf(q) == {e \in record[q].deps : IsCustom(e)}

BundlerOK(q) == Shaped(record[q]) /\ Proper(record[q]) /\ AsFirst(record[q].deps)

BundlersOK ==
    /\ bpc \in [Bundlers -> {"idle", "loaded", "source", "deps", "archive",
                              "remove", "done", "failed"}]
    /\ DOMAIN record = Bundlers
    /\ uncopied \in [Bundlers -> SUBSET Deps]
    /\ \A q \in Bundlers : BundlerOK(q)

(* A directory is left only by a bundler that is at it or has failed.      *)
InUse(s) == \E q \in Bundlers : SecondOf[q] = s /\ bpc[q] \notin {"idle", "loaded", "done"}

DirectoryOK(s) ==
    staging[s] # <<>> =>
        /\ \E x, y, z : staging[s] = [src |-> x, deps |-> y, record |-> z]
        /\ \A d \in staging[s].deps : d.path \in Files
        /\ InUse(s)

DirectoriesOK == DOMAIN staging = Seconds /\ \A s \in Seconds : DirectoryOK(s)

(* What is collected so far is of the record, and what was not edited is   *)
(* as it was recorded.                                                     *)
Filled(q, x) ==
    /\ Existing(record[q].build_path) \subseteq x.src /\ x.src \subseteq {record[q].build_path} \ {""}
    /\ \A d \in x.deps : \E e \in CustomOf(q) : e.path = d.path
    /\ \A e \in CustomOf(q) \ uncopied[q] : e.path \notin edited =>
           [path |-> e.path, content |-> e.hash] \in x.deps

(* A bundler finds in its directory what it put there.                     *)
StagedOK(q) ==
    LET staged == staging[SecondOf[q]]
    IN  /\ bpc[q] \in {"idle", "loaded"} => staged = <<>>
        /\ bpc[q] = "source" => staged = Nothing
        /\ bpc[q] \in {"deps", "archive"} => Filled(q, staged)
        /\ bpc[q] = "deps" => uncopied[q] \subseteq CustomOf(q)
        /\ bpc[q] = "archive" => uncopied[q] = {} /\ staged.record = SaveToFile(record[q])

StagingOK == \A q \in Bundlers : StagedOK(q)

BundleInv == BundlersOK /\ DirectoriesOK /\ (SecondsApart => StagingOK) /\ gone \subseteq Trees

LEMMA InitBundleInv == Init => BundleInv
<1> SUFFICES ASSUME Init
             PROVE  BundleInv
  OBVIOUS
<1>1. /\ bpc = [q \in Bundlers |-> "idle"] /\ record = [q \in Bundlers |-> NoRecord]
      /\ uncopied = [q \in Bundlers |-> {}] /\ staging = [s \in Seconds |-> <<>>]
  BY DEF Init, BundleInit
<1>2. BundlersOK
  BY <1>1, NothingIsProper DEF BundlersOK, BundlerOK, AsFirst
<1>3. DirectoriesOK
  BY <1>1 DEF DirectoriesOK, DirectoryOK
<1>4. StagingOK
  BY <1>1 DEF StagingOK, StagedOK, Seconds
<1>5. gone = {}
  BY DEF Init
<1> QED
  BY <1>2, <1>3, <1>4, <1>5 DEF BundleInv

BundleStep(q) == HandleBundle(q) \/ CreateBundle(q)

LEMMA BundleKinds ==
    ASSUME IndInv, BuildsOK, [Next]_vars
    PROVE  \/ \E q \in Bundlers : BundleStep(q) /\ UNCHANGED <<disk, edited, files, gone>>
           \/ UNCHANGED <<bpc, record, uncopied, staging, archives>>
<1>1. CASE \E b \in Clients : BuildStep(b)
  BY <1>1, BuildMoves DEF IndInv, bundleVars
<1>2. ASSUME NEW q \in Bundlers, BundleStep(q), UNCHANGED <<uploadVars, pipelineVars>>
      PROVE  UNCHANGED <<disk, edited, files, gone>>
  BY <1>2 DEF uploadVars, pipelineVars, BundleStep, HandleBundle, CreateBundle, LoadRecord, CannotLoad,
              MakeStaging, CopySource, CopyDependency, SaveInside, CreateArchive, RemoveStaging, BundleFails
<1>3. CASE UserEdits
  BY <1>3 DEF UserEdits
<1>4. CASE UNCHANGED vars
  BY <1>4 DEF vars, bundleVars
<1>5. CASE \E t \in Trees : TreeGoes(t)
  BY <1>5 DEF TreeGoes, bundleVars
<1> QED
  BY <1>1, <1>2, <1>3, <1>4, <1>5 DEF Next, Done, BundleStep

(* A step of a bundler is its own.                                         *)
LEMMA BundleMoves ==
    ASSUME BundlersOK, DirectoriesOK, NEW q \in Bundlers, BundleStep(q)
    PROVE  /\ bpc' \in [Bundlers -> {"idle", "loaded", "source", "deps", "archive",
                                      "remove", "done", "failed"}]
           /\ DOMAIN record' = Bundlers /\ DOMAIN uncopied' = Bundlers
           /\ DOMAIN staging' = Seconds
           /\ \A p \in Bundlers \ {q} :
                 bpc'[p] = bpc[p] /\ record'[p] = record[p] /\ uncopied'[p] = uncopied[p]
           /\ \A s \in Seconds \ {SecondOf[q]} : staging'[s] = staging[s]
<1> USE DEF BundlersOK, DirectoriesOK, Bundling, Dir, TempDir, Stage
<1>1. CASE LoadRecord(q)
  BY <1>1 DEF LoadRecord
<1>2. CASE CannotLoad(q)
  BY <1>2 DEF CannotLoad
<1>3. CASE MakeStaging(q)
  BY <1>3 DEF MakeStaging
<1>4. CASE CopySource(q)
  BY <1>4 DEF CopySource
<1>5. ASSUME NEW d \in uncopied[q], CopyDependency(q, d)
      PROVE  /\ bpc' = bpc /\ record' = record /\ DOMAIN staging' = Seconds
             /\ DOMAIN uncopied' = Bundlers
             /\ \A p \in Bundlers \ {q} : uncopied'[p] = uncopied[p]
             /\ \A s \in Seconds \ {SecondOf[q]} : staging'[s] = staging[s]
  BY <1>5 DEF CopyDependency
<1>6. CASE SaveInside(q)
  BY <1>6 DEF SaveInside
<1>7. CASE CreateArchive(q)
  BY <1>7 DEF CreateArchive
<1>8. CASE RemoveStaging(q)
  BY <1>8 DEF RemoveStaging
<1>9. CASE BundleFails(q)
  BY <1>9 DEF BundleFails
<1> QED
  BY <1>1, <1>2, <1>3, <1>4, <1>5, <1>6, <1>7, <1>8, <1>9 DEF BundleStep, HandleBundle, CreateBundle

LEMMA RecordMoves ==
    ASSUME BundlersOK, NEW q \in Bundlers, BundleStep(q)
    PROVE  /\ record'[q] \in {record[q], LoadFromFile(files[RecordOf[q]].doc), NoRecord}
           /\ uncopied'[q] \subseteq uncopied[q] \cup CustomOf(q)
<1> USE DEF BundlersOK
<1>1. CASE LoadRecord(q) \/ CannotLoad(q)
  BY <1>1 DEF LoadRecord, CannotLoad
<1>2. CASE MakeStaging(q) \/ SaveInside(q) \/ CreateArchive(q) \/ RemoveStaging(q)
  BY <1>2 DEF MakeStaging, SaveInside, CreateArchive, RemoveStaging
<1>3. CASE CopySource(q)
  BY <1>3 DEF CopySource, CustomOf
<1>4. CASE \E d \in uncopied[q] : CopyDependency(q, d)
  BY <1>4 DEF CopyDependency
<1>5. CASE BundleFails(q)
  BY <1>5 DEF BundleFails
<1> QED
  BY <1>1, <1>2, <1>3, <1>4, <1>5 DEF BundleStep, HandleBundle, CreateBundle

LEMMA BundlersStep ==
    ASSUME IndInv, EditedIsKnown, BuildsOK, FilesOK, BundlersOK, DirectoriesOK, [Next]_vars
    PROVE  BundlersOK'
<1>1. ASSUME NEW q \in Bundlers, BundleStep(q), edited' = edited
      PROVE  BundlersOK'
  <2>1. ASSUME NEW r, Shaped(r), Proper(r), AsFirst(r.deps), record'[q] = r
        PROVE  BundlerOK(q)'
    BY <1>1, <2>1 DEF BundlerOK, Shaped, Proper, AsFirst
  <2>2. BundlerOK(q)'
    <3>1. CASE record'[q] = record[q]
      BY <2>1, <3>1 DEF BundlersOK, BundlerOK
    <3>2. CASE record'[q] = LoadFromFile(files[RecordOf[q]].doc)
      <4> DEFINE r == LoadFromFile(files[RecordOf[q]].doc)
      <4>1. RecordOf[q] \in Trees
        BY BundleAssumption
      <4>2. Proper(r) /\ AsFirst(r.deps)
        BY <4>1 DEF FilesOK, FileOK
      <4>3. Shaped(r)
        BY DEF LoadFromFile, Shaped
      <4> QED
        BY <2>1, <3>2, <4>2, <4>3
    <3>3. CASE record'[q] = NoRecord
      BY <2>1, <3>3, NothingIsProper DEF AsFirst
    <3> QED
      BY <1>1, <3>1, <3>2, <3>3, RecordMoves
  <2>3. ASSUME NEW p \in Bundlers \ {q}
        PROVE  BundlerOK(p)'
    <3>1. BundlerOK(p) /\ record'[p] = record[p]
      BY <1>1, BundleMoves DEF BundlersOK
    <3> QED
      BY <1>1, <3>1 DEF BundlerOK, Shaped, Proper, AsFirst
  <2>4. uncopied'[q] \subseteq Deps
    <3>1. record[q].deps \subseteq Deps /\ uncopied[q] \subseteq Deps
      BY DEF BundlersOK, BundlerOK, Proper
    <3> QED
      BY <1>1, <3>1, RecordMoves DEF CustomOf
  <2>5. \A p \in Bundlers : uncopied'[p] \subseteq Deps
    BY <1>1, <2>4, BundleMoves DEF BundlersOK
  <2>6. uncopied' \in [Bundlers -> SUBSET Deps]
    <3>1. uncopied' = [p \in Bundlers |-> uncopied'[p]]
      BY <1>1 DEF BundlersOK, BundleStep, HandleBundle, CreateBundle, LoadRecord, CannotLoad, MakeStaging,
             CopySource, CopyDependency, SaveInside, CreateArchive, RemoveStaging, BundleFails
    <3> QED
      BY <2>5, <3>1
  <2> QED
    BY <1>1, <2>2, <2>3, <2>6, BundleMoves DEF BundlersOK
<1>2. CASE UNCHANGED <<bpc, record, uncopied, staging, archives>>
  <2>1. edited \subseteq edited'
    BY EditedStep
  <2>2. \A q \in Bundlers : BundlerOK(q)'
    BY <1>2, <2>1 DEF BundlersOK, BundlerOK, Shaped, Proper, AsFirst
  <2> QED
    BY <1>2, <2>2 DEF BundlersOK
<1> QED
  BY <1>1, <1>2, BundleKinds

(* What a directory holds once one of its fields was set.                  *)
Collected(x) ==
    /\ \E a, b, c : x = [src |-> a, deps |-> b, record |-> c]
    /\ \A d \in x.deps : d.path \in Files

LEMMA WithSource ==
    ASSUME NEW x, Collected(x), NEW v, NEW y, y = [x EXCEPT !.src = v]
    PROVE  Collected(y) /\ y.src = v /\ y.deps = x.deps /\ y.record = x.record
<1>1. PICK a, b, c : x = [src |-> a, deps |-> b, record |-> c]
  BY DEF Collected
<1>2. y = [src |-> v, deps |-> b, record |-> c]
  BY <1>1
<1>3. x.deps = b /\ x.record = c /\ y.src = v /\ y.deps = b /\ y.record = c
  BY <1>1, <1>2
<1> QED
  BY <1>2, <1>3 DEF Collected

LEMMA WithRecord ==
    ASSUME NEW x, Collected(x), NEW v, NEW y, y = [x EXCEPT !.record = v]
    PROVE  Collected(y) /\ y.src = x.src /\ y.deps = x.deps /\ y.record = v
<1>1. PICK a, b, c : x = [src |-> a, deps |-> b, record |-> c]
  BY DEF Collected
<1>2. y = [src |-> a, deps |-> b, record |-> v]
  BY <1>1
<1>3. x.deps = b /\ x.src = a /\ y.src = a /\ y.deps = b /\ y.record = v
  BY <1>1, <1>2
<1> QED
  BY <1>2, <1>3 DEF Collected

LEMMA WithDeps ==
    ASSUME NEW x, Collected(x), NEW v, \A d \in v : d.path \in Files, NEW y, y = [x EXCEPT !.deps = v]
    PROVE  Collected(y) /\ y.src = x.src /\ y.deps = v /\ y.record = x.record
<1>1. PICK a, b, c : x = [src |-> a, deps |-> b, record |-> c]
  BY DEF Collected
<1>2. y = [src |-> a, deps |-> v, record |-> c]
  BY <1>1
<1>3. x.src = a /\ x.record = c /\ y.src = a /\ y.deps = v /\ y.record = c
  BY <1>1, <1>2
<1> QED
  BY <1>2, <1>3 DEF Collected

(* What a bundler does to its directory.                                   *)
LEMMA DirectoryMoves ==
    ASSUME BundlersOK, DirectoriesOK, NEW q \in Bundlers, BundleStep(q)
    PROVE  LET was == staging[SecondOf[q]]
               is == staging'[SecondOf[q]]
           IN  \/ is = was /\ (bpc'[q] \in {"idle", "loaded", "done"} => bpc[q] \in {"idle", "loaded", "done"})
               \/ is = <<>>
               \/ /\ bpc'[q] \notin {"idle", "loaded", "done"}
                  /\ \/ was = <<>> /\ is = Nothing
                     \/ /\ was # <<>>
                        /\ \/ is = was
                           \/ \E v : is = [was EXCEPT !.src = v]
                           \/ \E v : is = [was EXCEPT !.record = v]
                           \/ \E d \in uncopied[q] : is = [was EXCEPT !.deps =
                                 Others(was.deps, d.path) \cup {[path |-> d.path, content |-> disk[d.path]]}]
<1> USE DEF BundlersOK, DirectoriesOK, Seconds, Bundling, Dir, TempDir, Stage, Staged
<1>1. CASE LoadRecord(q) \/ CannotLoad(q)
  BY <1>1 DEF LoadRecord, CannotLoad
<1>2. CASE MakeStaging(q)
  BY <1>2 DEF MakeStaging
<1>3. CASE CopySource(q)
  BY <1>3 DEF CopySource
<1>4. CASE \E d \in uncopied[q] : CopyDependency(q, d)
  <2>1. PICK d \in uncopied[q] : CopyDependency(q, d)
    BY <1>4
  <2>2. bpc[q] = "deps" /\ bpc' = bpc /\ staging[SecondOf[q]] # <<>>
    BY <2>1 DEF CopyDependency
  <2>3. CASE disk[d.path] = Absent
    BY <2>1, <2>2, <2>3 DEF CopyDependency
  <2>4. CASE disk[d.path] # Absent
    <3>1. staging' = [staging EXCEPT ![SecondOf[q]].deps = Others(staging[SecondOf[q]].deps, d.path)
                             \cup {[path |-> d.path, content |-> disk[d.path]]}]
      BY <2>1, <2>4 DEF CopyDependency
    <3> QED
      BY <2>2, <3>1
  <2> QED
    BY <2>3, <2>4
<1>5. CASE SaveInside(q)
  BY <1>5 DEF SaveInside
<1>6. CASE CreateArchive(q)
  BY <1>6 DEF CreateArchive
<1>7. CASE RemoveStaging(q)
  BY <1>7 DEF RemoveStaging, RemoveAll
<1>8. CASE BundleFails(q)
  BY <1>8 DEF BundleFails
<1> QED
  BY <1>1, <1>2, <1>3, <1>4, <1>5, <1>6, <1>7, <1>8 DEF BundleStep, HandleBundle, CreateBundle

LEMMA DirectoriesStep ==
    ASSUME IndInv, BuildsOK, BundlersOK, DirectoriesOK, [Next]_vars
    PROVE  DirectoriesOK'
<1>1. ASSUME NEW q \in Bundlers, BundleStep(q)
      PROVE  DirectoriesOK'
  <2>1. ASSUME NEW s \in Seconds \ {SecondOf[q]}
        PROVE  DirectoryOK(s)'
    <3>1. staging'[s] = staging[s] /\ DirectoryOK(s)
      BY <1>1, BundleMoves DEF DirectoriesOK
    <3>2. \A p \in Bundlers : SecondOf[p] = s => bpc'[p] = bpc[p]
      BY <1>1, BundleMoves
    <3> QED
      BY <3>1, <3>2 DEF DirectoryOK, InUse
  <2> DEFINE s == SecondOf[q]
  <2>2. DirectoryOK(s)'
    <3>1. s \in Seconds /\ DirectoryOK(s)
      BY DEF DirectoriesOK, Seconds
    <3>2. bpc'[q] \notin {"idle", "loaded", "done"} => InUse(s)'
      BY DEF InUse
    <3>3. staging[s] # <<>> => Collected(staging[s])
      BY <3>1 DEF DirectoryOK, Collected
    <3>4. Collected(staging'[s]) /\ InUse(s)' => DirectoryOK(s)'
      BY DEF DirectoryOK, Collected
    <3>5. CASE staging'[s] = staging[s] /\ (bpc'[q] \in {"idle", "loaded", "done"} => bpc[q] \in {"idle", "loaded", "done"})
      <4>1. InUse(s) => InUse(s)'
        BY <1>1, <3>5, BundleMoves DEF InUse
      <4> QED
        BY <3>1, <3>3, <3>4, <3>5, <4>1 DEF DirectoryOK
    <3>6. CASE staging'[s] = <<>>
      BY <3>6 DEF DirectoryOK
    <3>7. CASE bpc'[q] \notin {"idle", "loaded", "done"} /\ staging[s] = <<>> /\ staging'[s] = Nothing
      <4>1. Collected(Nothing)
        BY DEF Nothing, Collected
      <4> QED
        BY <3>2, <3>4, <3>7, <4>1
    <3>8. CASE /\ bpc'[q] \notin {"idle", "loaded", "done"} /\ staging[s] # <<>>
               /\ \/ staging'[s] = staging[s]
                  \/ \E v : staging'[s] = [staging[s] EXCEPT !.src = v]
                  \/ \E v : staging'[s] = [staging[s] EXCEPT !.record = v]
      <4>1. Collected(staging'[s])
        <5>1. Collected(staging[s])
          BY <3>3, <3>8
        <5>2. ASSUME NEW v, staging'[s] = [staging[s] EXCEPT !.src = v]
              PROVE  Collected(staging'[s])
          BY <5>1, <5>2, WithSource
        <5>3. ASSUME NEW v, staging'[s] = [staging[s] EXCEPT !.record = v]
              PROVE  Collected(staging'[s])
          BY <5>1, <5>3, WithRecord
        <5> QED
          BY <3>8, <5>1, <5>2, <5>3
      <4> QED
        BY <3>2, <3>4, <3>8, <4>1
    <3>9. ASSUME bpc'[q] \notin {"idle", "loaded", "done"}, staging[s] # <<>>, NEW d \in uncopied[q],
                 staging'[s] = [staging[s] EXCEPT !.deps =
                     Others(staging[s].deps, d.path) \cup {[path |-> d.path, content |-> disk[d.path]]}]
          PROVE  DirectoryOK(s)'
      <4> DEFINE v == Others(staging[s].deps, d.path) \cup {[path |-> d.path, content |-> disk[d.path]]}
      <4>1. d.path \in Files
        BY DEF BundlersOK, Deps
      <4>2. \A e \in v : e.path \in Files
        BY <3>3, <3>9, <4>1 DEF Others, Collected
      <4> HIDE DEF v
      <4>3. Collected([staging[s] EXCEPT !.deps = v])
        BY <3>3, <3>9, <4>2, WithDeps
      <4> QED
        BY <3>2, <3>4, <3>9, <4>3 DEF v
    <3> QED
      BY <1>1, <3>5, <3>6, <3>7, <3>8, <3>9, DirectoryMoves
  <2> QED
    BY <1>1, <2>1, <2>2, BundleMoves DEF DirectoriesOK
<1>2. CASE UNCHANGED <<bpc, record, uncopied, staging, archives>>
  BY <1>2 DEF DirectoriesOK, DirectoryOK, InUse
<1> QED
  BY <1>1, <1>2, BundleKinds

LEMMA CopyStep ==
    ASSUME IndInv, EditedIsKnown, BundlersOK, DirectoriesOK, StagingOK,
           NEW q \in Bundlers, NEW d \in uncopied[q], CopyDependency(q, d), edited' = edited, gone' = gone
    PROVE  StagedOK(q)'
<1> DEFINE was == staging[SecondOf[q]]
           is == staging'[SecondOf[q]]
           copied == [path |-> d.path, content |-> disk[d.path]]
<1>1. bpc[q] = "deps" /\ bpc' = bpc /\ record' = record /\ was # <<>>
  BY DEF CopyDependency, Staged, Dir, TempDir
<1>2. uncopied'[q] = uncopied[q] \ {d}
  BY DEF CopyDependency, BundlersOK
<1>3. SecondOf[q] \in Seconds /\ DOMAIN staging = Seconds
  BY DEF Seconds, DirectoriesOK
<1>4. Filled(q, was) /\ uncopied[q] \subseteq CustomOf(q)
  BY <1>1 DEF StagingOK, StagedOK
<1>5. Collected(was)
  BY <1>1, <1>3 DEF DirectoriesOK, DirectoryOK, Collected
<1>6. d \in CustomOf(q) /\ d \in record[q].deps /\ d \in Deps
  BY <1>4 DEF CustomOf, BundlersOK
<1>7. d.path \in Files /\ d.hash \in Contents
  BY <1>6 DEF Deps
<1>8. d.path \notin edited => disk[d.path] = d.hash /\ disk[d.path] # Absent
  BY <1>6, <1>7, UploaderAssumption DEF EditedIsKnown, BundlersOK, BundlerOK, AsFirst
<1>9. ASSUME NEW e \in CustomOf(q), e # d
      PROVE  e.path # d.path
  BY <1>6, <1>9 DEF CustomOf, BundlersOK, BundlerOK, Proper
<1>10. CustomOf(q)' = CustomOf(q)
  BY <1>1 DEF CustomOf
<1>11. Filled(q, staging[SecondOf[q]])'
  <2>1. CASE disk[d.path] = Absent
    <3>1. staging'[SecondOf[q]] = staging[SecondOf[q]]
      BY <2>1 DEF CopyDependency
    <3>2. \A e \in CustomOf(q) \ uncopied'[q] : e.path \notin edited =>
             [path |-> e.path, content |-> e.hash] \in was.deps
      BY <1>2, <1>4, <1>8, <2>1 DEF Filled
    <3> QED
      BY <1>1, <1>4, <1>10, <3>1, <3>2 DEF Filled, Existing
  <2>2. CASE disk[d.path] # Absent
    <3> DEFINE v == Others(was.deps, d.path) \cup {copied}
    <3>1. is = [was EXCEPT !.deps = v]
      BY <1>3, <2>2 DEF CopyDependency, Stage, Staged, Dir, TempDir
    <3>2. \A e \in v : e.path \in Files
      BY <1>5, <1>7 DEF Others, Collected
    <3> HIDE DEF v, was, is
    <3>3. is.src = was.src /\ is.deps = v
      BY <1>5, <3>1, <3>2, WithDeps
    <3>4. \A x \in v : \E e \in CustomOf(q) : e.path = x.path
      <4>1. \A x \in v : x \in was.deps \/ x.path = d.path
        BY DEF Others, v
      <4>2. \A x \in was.deps : \E e \in CustomOf(q) : e.path = x.path
        BY <1>4 DEF Filled
      <4> QED
        BY <1>6, <4>1, <4>2
    <3>5. ASSUME NEW e \in CustomOf(q) \ uncopied'[q], e.path \notin edited
          PROVE  [path |-> e.path, content |-> e.hash] \in v
      <4>1. CASE e = d
        BY <1>8, <3>5, <4>1 DEF v
      <4>2. CASE e # d
        <5>1. [path |-> e.path, content |-> e.hash] \in was.deps
          BY <1>2, <1>4, <3>5, <4>2 DEF Filled
        <5>2. e.path # d.path
          BY <1>9, <4>2
        <5> QED
          BY <5>1, <5>2 DEF Others, v
      <4> QED
        BY <4>1, <4>2
    <3>6. /\ Existing(record[q].build_path) \subseteq was.src
          /\ was.src \subseteq {record[q].build_path} \ {""}
      BY <1>4 DEF Filled
    <3> QED
      BY <1>1, <1>10, <3>3, <3>4, <3>5, <3>6 DEF Filled, is, Existing
  <2> QED
    BY <2>1, <2>2
<1>12. uncopied'[q] \subseteq CustomOf(q)
  BY <1>2, <1>4
<1>13. bpc'[q] = "deps"
  BY <1>1
<1> HIDE DEF was, is
<1> QED
  BY <1>10, <1>11, <1>12, <1>13 DEF StagedOK

LEMMA StagedOwnStep ==
    ASSUME IndInv, EditedIsKnown, BundlersOK, DirectoriesOK, StagingOK,
           NEW q \in Bundlers, BundleStep(q), edited' = edited, gone' = gone
    PROVE  StagedOK(q)'
<1> DEFINE s == SecondOf[q]
<1>1. s \in Seconds /\ DOMAIN staging = Seconds /\ StagedOK(q)
  BY DEF Seconds, DirectoriesOK, StagingOK
<1>2. staging[s] # <<>> => Collected(staging[s])
  BY <1>1 DEF DirectoriesOK, DirectoryOK, Collected
<1> USE DEF Bundling, Dir, TempDir, Stage, Staged
<1>3. CASE LoadRecord(q)
  BY <1>1, <1>3 DEF LoadRecord, BundlersOK, StagedOK
<1>4. CASE MakeStaging(q)
  BY <1>1, <1>4 DEF MakeStaging, BundlersOK, StagedOK
<1>5. CASE CopySource(q)
  <2>1. bpc[q] = "source" /\ bpc'[q] = "deps" /\ record' = record
    BY <1>5 DEF CopySource, BundlersOK
  <2>2. uncopied'[q] = CustomOf(q)
    BY <1>5 DEF CopySource, BundlersOK, CustomOf
  <2>3. staging'[s] = [staging[s] EXCEPT !.src = staging[s].src \cup Existing(record[q].build_path)]
    BY <1>1, <1>5 DEF CopySource
  <2>4. staging[s] = Nothing
    BY <1>1, <2>1 DEF StagedOK
  <2> DEFINE v == Existing(record[q].build_path)
  <2> HIDE DEF v
  <2>5. staging'[s].src = v /\ staging'[s].deps = {}
    <3>1. staging'[s] = [staging[s] EXCEPT !.src = {} \cup v]
      BY <2>3, <2>4 DEF v, Nothing
    <3>2. Nothing.deps = {} /\ Collected(Nothing)
      BY DEF Nothing, Collected
    <3> QED
      BY <2>4, <3>1, <3>2, WithSource
  <2>6. CustomOf(q)' = CustomOf(q)
    BY <2>1 DEF CustomOf
  <2>7. Filled(q, staging[s])'
    BY <2>1, <2>2, <2>5, <2>6 DEF Filled, v, Existing
  <2> QED
    BY <2>1, <2>2, <2>6, <2>7 DEF StagedOK
<1>6. CASE \E d \in uncopied[q] : CopyDependency(q, d)
  BY <1>6, CopyStep
<1>7. CASE SaveInside(q)
  <2>1. bpc[q] = "deps" /\ bpc'[q] = "archive" /\ UNCHANGED <<record, uncopied>> /\ uncopied[q] = {}
    BY <1>7 DEF SaveInside, BundlersOK
  <2>2. staging'[s] = [staging[s] EXCEPT !.record = SaveToFile(record[q])] /\ staging[s] # <<>>
    BY <1>1, <1>7 DEF SaveInside
  <2>3. Filled(q, staging[s])
    BY <1>1, <2>1 DEF StagedOK
  <2>4. /\ staging'[s].src = staging[s].src /\ staging'[s].deps = staging[s].deps
        /\ staging'[s].record = SaveToFile(record[q])
    BY <1>2, <2>2, WithRecord
  <2>5. CustomOf(q)' = CustomOf(q)
    BY <2>1 DEF CustomOf
  <2>6. Filled(q, staging[s])'
    BY <2>1, <2>3, <2>4, <2>5 DEF Filled, Existing
  <2> QED
    BY <2>1, <2>4, <2>6 DEF StagedOK
<1>8. CASE CannotLoad(q) \/ CreateArchive(q) \/ RemoveStaging(q) \/ BundleFails(q)
  <2>1. bpc'[q] \in {"remove", "done", "failed"}
    BY <1>8 DEF CannotLoad, CreateArchive, RemoveStaging, BundleFails, BundlersOK
  <2> QED
    BY <2>1 DEF StagedOK
<1> QED
  BY <1>3, <1>4, <1>5, <1>6, <1>7, <1>8 DEF BundleStep, HandleBundle, CreateBundle

LEMMA StagingStep ==
    ASSUME SecondsApart, IndInv, EditedIsKnown, BuildsOK, BundlersOK, DirectoriesOK, StagingOK, [Next]_vars
    PROVE  StagingOK'
<1>1. ASSUME NEW q \in Bundlers, BundleStep(q), edited' = edited, gone' = gone
      PROVE  StagingOK'
  <2>1. ASSUME NEW p \in Bundlers \ {q}
        PROVE  StagedOK(p)'
    <3>1. SecondOf[p] \in Seconds \ {SecondOf[q]}
      BY DEF Seconds, SecondsApart
    <3>2. /\ bpc'[p] = bpc[p] /\ record'[p] = record[p] /\ uncopied'[p] = uncopied[p]
          /\ staging'[SecondOf[p]] = staging[SecondOf[p]]
      BY <1>1, <3>1, BundleMoves
    <3>3. StagedOK(p)
      BY DEF StagingOK
    <3> QED
      BY <1>1, <3>2, <3>3 DEF StagedOK, Filled, CustomOf, Existing
  <2> QED
    BY <1>1, <2>1, StagedOwnStep DEF StagingOK
<1>2. CASE UNCHANGED <<bpc, record, uncopied, staging, archives>>
  <2>1. edited \subseteq edited' /\ gone \subseteq gone'
    BY EditedStep, GoneStep
  <2> QED
    BY <1>2, <2>1 DEF StagingOK, StagedOK, Filled, CustomOf, Existing
<1> QED
  BY <1>1, <1>2, BundleKinds

LEMMA SpecBundleInv == Spec => [](IndInv /\ BuildInv /\ BundleInv)
<1>1. IndInv /\ BuildInv /\ BundleInv /\ [Next]_vars => BundleInv'
  <2> SUFFICES ASSUME IndInv, BuildInv, BundleInv, [Next]_vars
               PROVE  BundleInv'
    OBVIOUS
  <2>1. EditedIsKnown /\ BuildsOK /\ FilesOK
    BY DEF BuildInv
  <2>2. BundlersOK /\ DirectoriesOK /\ (SecondsApart => StagingOK)
    BY DEF BundleInv
  <2> QED
    BY <2>1, <2>2, BundlersStep, DirectoriesStep, StagingStep, GoneStep DEF BundleInv
<1> QED
  BY <1>1, InitBundleInv, SpecBuildInv, PTL DEF Spec

(* Once nothing is under way, no zip is left, and no directory but of a    *)
(* bundler that failed.                                                    *)
THEOREM AllIsCleaned == Spec => []NothingLeftBehind
<1>1. BuildInv /\ BundleInv => NothingLeftBehind
  <2> SUFFICES ASSUME BuildInv, BundleInv, AllOver
               PROVE  /\ NoneKilled => \A f \in Files : zips[f] \subseteq {Foreign}
                      /\ \A s \in Seconds : staging[s] # <<>> => InUse(s)
    BY DEF NothingLeftBehind, InUse
  <2>1. \A f \in Files : ~InHand(f)
    <3>1. \A c \in Clients : upc[c] # "off" => pc[c] = "upload"
      BY DEF BuildInv, BuildsOK, BuildOK
    <3> QED
      BY <3>1 DEF AllOver, Underway, InHand
  <2>2. \A s \in Seconds : staging[s] # <<>> => InUse(s)
    BY DEF BundleInv, DirectoriesOK, DirectoryOK
  <2> QED
    BY <2>1, <2>2 DEF BuildInv, ZipsAreUsed
<1> QED
  BY <1>1, SpecBundleInv, PTL

(* Every variable of main, its uploads and the bundles keeps its type.     *)
THEOREM PipelineTypes == Spec => []TypeOK
<1>1. IndInv /\ BuildInv /\ BundleInv => TypeOK
  <2> SUFFICES ASSUME IndInv, BuildInv, BundleInv
               PROVE  TypeOK
    OBVIOUS
  <2>1. BundleTypeOK
    <3>1. BundlersOK /\ DirectoriesOK /\ edited \subseteq Custom
      BY DEF BundleInv, BuildInv, EditedIsKnown
    <3>2. \A q \in Bundlers : record[q].deps \subseteq Deps
      BY <3>1 DEF BundlersOK, BundlerOK, Proper
    <3>3. \A s \in Seconds : staging[s] = <<>> \/ {d.path : d \in staging[s].deps} \subseteq Files
      BY <3>1 DEF DirectoriesOK, DirectoryOK
    <3> QED
      BY <3>1, <3>2, <3>3 DEF BundleTypeOK, BundlersOK, BundleInv
  <2>2. /\ pc \in [Clients -> Underway \cup Over \cup {"idle"}]
        /\ \A b \in Clients : built[b].deps \subseteq Deps
        /\ \A b \in Clients : upc[b] # "off" <=> pc[b] = "upload"
    BY DEF BuildInv, BuildsOK, BuildOK, Proper
  <2>3. \A t \in Trees : LoadFromFile(files[t].doc).deps \subseteq Deps
                         /\ (files[t].whole => files[t].there)
    BY DEF BuildInv, FilesOK, FileOK, Proper
  <2> QED
    BY <2>1, <2>2, <2>3 DEF TypeOK, IndInv
<1> QED
  BY <1>1, SpecBundleInv, PTL

-----------------------------------------------------------------------------
(* Archives.  zip adds to what there is: who makes a zip has its archive   *)
(* for itself.                                                             *)
ZipsAreApart == \A p, q \in Bundlers : Kind[q] # "tar" /\ ArchiveOf[p] = ArchiveOf[q] => p = q

(* The archive is of the record that was asked for.                        *)
HoldsRecord(q, x) ==
    /\ Existing(record[q].build_path) \subseteq x.src /\ x.src \subseteq {record[q].build_path} \ {""}
    /\ LoadFromFile(x.record) = record[q]
    /\ \A d \in x.deps : \E e \in CustomOf(q) : e.path = d.path
    /\ \A e \in CustomOf(q) : e.path \notin edited => [path |-> e.path, content |-> e.hash] \in x.deps

(* Nothing for zip to keep.                                                *)
HoldsNone(x) == x.deps = {} /\ x.src = {}

ArchiveOK(q) ==
    LET archive == archives[ArchiveOf[q]]
    IN  /\ Kind[q] # "tar" /\ bpc[q] \notin {"remove", "done", "failed"} => HoldsNone(archive.holds)
        /\ bpc[q] \in {"remove", "done"} /\ archive.by = <<q>> => HoldsRecord(q, archive.holds)

ArchivesOK == DOMAIN archives = Archives /\ \A q \in Bundlers : ArchiveOK(q)

LEMMA InitArchives == Init => ArchivesOK
BY DEF Init, BundleInit, ArchivesOK, ArchiveOK, HoldsNone, Archives, Nothing

LEMMA ArchiveMoves ==
    ASSUME BundlersOK, NEW q \in Bundlers, BundleStep(q)
    PROVE  /\ bpc[q] \in {"remove", "done", "failed"} => bpc'[q] \in {"remove", "done", "failed"}
           /\ \/ /\ UNCHANGED archives
                 /\ bpc'[q] \in {"remove", "done"} => bpc[q] \in {"remove", "done"} /\ record' = record
              \/ CreateArchive(q)
              \/ /\ archives' = [archives EXCEPT ![ArchiveOf[q]] = [by |-> <<>>, holds |-> Nothing]]
                 /\ bpc'[q] = "failed"
<1> USE DEF BundlersOK, Bundling
<1>1. CASE LoadRecord(q) \/ CannotLoad(q)
  BY <1>1 DEF LoadRecord, CannotLoad
<1>2. CASE MakeStaging(q) \/ SaveInside(q) \/ CopySource(q) \/ RemoveStaging(q)
  BY <1>2 DEF MakeStaging, SaveInside, CopySource, RemoveStaging
<1>3. CASE \E d \in uncopied[q] : CopyDependency(q, d)
  BY <1>3 DEF CopyDependency
<1>4. CASE BundleFails(q)
  BY <1>4 DEF BundleFails
<1>5. CASE CreateArchive(q)
  BY <1>5 DEF CreateArchive
<1> QED
  BY <1>1, <1>2, <1>3, <1>4, <1>5 DEF BundleStep, HandleBundle, CreateBundle

(* What is archived is the directory.                                      *)
LEMMA ArchivedIsStaged ==
    ASSUME BundlersOK, DirectoriesOK, NEW q \in Bundlers, Staged(q) # <<>>,
           NEW old, Kind[q] # "tar" => HoldsNone(old)
    PROVE  Archived(q, old) = Staged(q)
<1>1. SecondOf[q] \in Seconds
  BY DEF Seconds
<1>2. Collected(Staged(q))
  BY <1>1 DEF Staged, Dir, TempDir, DirectoriesOK, DirectoryOK, Collected
<1> DEFINE staged == Staged(q)
           new == {d \in old.deps : \A e \in staged.deps : e.path # d.path}
<1>3. CASE Kind[q] # "tar"
  <2>1. new = {} /\ old.src = {}
    BY <1>3 DEF HoldsNone
  <2>2. Archived(q, old) = [staged EXCEPT !.src = @ \cup old.src, !.deps = @ \cup new]
    BY <1>3 DEF Archived
  <2> HIDE DEF staged, new
  <2>3. staged.deps \cup new = staged.deps
    BY <2>1
  <2>4. PICK x, y, z : staged = [src |-> x, deps |-> y, record |-> z]
    BY <1>2 DEF Collected, staged
  <2>5. [staged EXCEPT !.src = @ \cup old.src, !.deps = @ \cup new] = [src |-> x, deps |-> y, record |-> z]
    BY <2>1, <2>3, <2>4
  <2> QED
    BY <2>2, <2>4, <2>5 DEF staged
<1> QED
  BY <1>3 DEF Archived

LEMMA ArchiveIsMade ==
    ASSUME BundlersOK, DirectoriesOK, StagingOK, ArchivesOK,
           NEW q \in Bundlers, CreateArchive(q), edited' = edited, gone' = gone
    PROVE  ArchiveOK(q)'
<1> DEFINE a == ArchiveOf[q]
           staged == Staged(q)
<1>1. bpc[q] = "archive" /\ bpc'[q] = "remove" /\ record' = record /\ staged # <<>>
  BY DEF CreateArchive, Bundling, BundlersOK
<1>2. a \in Archives
  BY DEF Archives
<1>3. archives'[a] = [by |-> <<q>>, holds |-> Archived(q, archives[a].holds)]
  BY <1>2 DEF CreateArchive, ArchivesOK
<1>4. Kind[q] # "tar" => HoldsNone(archives[a].holds)
  BY <1>1 DEF ArchivesOK, ArchiveOK
<1>5. archives'[a].holds = staged
  BY <1>1, <1>3, <1>4, ArchivedIsStaged
<1>6. Filled(q, staged) /\ uncopied[q] = {} /\ staged.record = SaveToFile(record[q])
  BY <1>1 DEF StagingOK, StagedOK, Staged, Dir, TempDir
<1>7. LoadFromFile(SaveToFile(record[q])) = record[q]
  BY RoundTrip DEF BundlersOK, BundlerOK
<1> HIDE DEF staged, a
<1>8. CustomOf(q)' = CustomOf(q)
  BY <1>1 DEF CustomOf
<1>9. HoldsRecord(q, staged)
  BY <1>6, <1>7 DEF HoldsRecord, Filled
<1>10. HoldsRecord(q, archives[ArchiveOf[q]].holds)'
  BY <1>1, <1>5, <1>8, <1>9 DEF HoldsRecord, a, Existing
<1> QED
  BY <1>1, <1>10 DEF ArchiveOK

LEMMA ArchivesStep ==
    ASSUME ZipsAreApart, IndInv, EditedIsKnown, BuildsOK, BundlersOK, DirectoriesOK, StagingOK,
           ArchivesOK, [Next]_vars
    PROVE  ArchivesOK'
<1>1. ASSUME NEW q \in Bundlers, BundleStep(q), edited' = edited, gone' = gone
      PROVE  ArchivesOK'
  <2>1. \A p \in Bundlers \ {q} : bpc'[p] = bpc[p] /\ record'[p] = record[p]
    BY <1>1, BundleMoves
  <2>2. ASSUME NEW p \in Bundlers, archives'[ArchiveOf[p]] = archives[ArchiveOf[p]],
               record'[p] = record[p] \/ bpc'[p] \notin {"remove", "done"},
               bpc'[p] \in {"remove", "done"} => bpc[p] \in {"remove", "done"},
               bpc[p] \in {"remove", "done", "failed"} => bpc'[p] \in {"remove", "done", "failed"}
        PROVE  ArchiveOK(p)'
    <3>1. ArchiveOK(p)
      BY DEF ArchivesOK
    <3>2. record'[p] = record[p] => CustomOf(p)' = CustomOf(p)
      BY DEF CustomOf
    <3> QED
      BY <1>1, <2>2, <3>1, <3>2 DEF ArchiveOK, HoldsRecord, Existing
  <2>3. \A p \in Bundlers \ {q} : archives'[ArchiveOf[p]] = archives[ArchiveOf[p]] => ArchiveOK(p)'
    BY <2>1, <2>2
  <2>4. CASE /\ UNCHANGED archives
             /\ bpc'[q] \in {"remove", "done"} => bpc[q] \in {"remove", "done"} /\ record' = record
    <3>1. ArchiveOK(q)'
      BY <1>1, <2>2, <2>4, ArchiveMoves
    <3> QED
      BY <2>3, <2>4, <3>1 DEF ArchivesOK
  <2>5. CASE CreateArchive(q)
    <3>1. /\ DOMAIN archives' = Archives
          /\ \A x \in Archives \ {ArchiveOf[q]} : archives'[x] = archives[x]
          /\ archives'[ArchiveOf[q]].by = <<q>>
      BY <2>5 DEF CreateArchive, ArchivesOK, Archives
    <3>2. ASSUME NEW p \in Bundlers \ {q}, ArchiveOf[p] = ArchiveOf[q]
          PROVE  ArchiveOK(p)'
      <4>1. Kind[p] = "tar"
        BY <3>2 DEF ZipsAreApart
      <4>2. <<q>> # <<p>>
        OBVIOUS
      <4> QED
        BY <3>1, <3>2, <4>1, <4>2 DEF ArchiveOK
    <3>3. ArchiveOK(q)'
      BY <1>1, <2>5, ArchiveIsMade
    <3> QED
      BY <2>3, <3>1, <3>2, <3>3 DEF ArchivesOK, Archives
  <2>6. CASE /\ archives' = [archives EXCEPT ![ArchiveOf[q]] = [by |-> <<>>, holds |-> Nothing]]
             /\ bpc'[q] = "failed"
    <3>1. /\ DOMAIN archives' = Archives
          /\ \A x \in Archives \ {ArchiveOf[q]} : archives'[x] = archives[x]
          /\ archives'[ArchiveOf[q]].by = <<>> /\ HoldsNone(archives'[ArchiveOf[q]].holds)
      BY <2>6 DEF ArchivesOK, Archives, Nothing, HoldsNone
    <3>2. ASSUME NEW p \in Bundlers, ArchiveOf[p] = ArchiveOf[q]
          PROVE  ArchiveOK(p)'
      <4>1. <<>> # <<p>>
        OBVIOUS
      <4> QED
        BY <3>1, <3>2, <4>1 DEF ArchiveOK
    <3> QED
      BY <2>3, <3>1, <3>2 DEF ArchivesOK, Archives
  <2> QED
    BY <1>1, <2>4, <2>5, <2>6, ArchiveMoves
<1>2. CASE UNCHANGED <<bpc, record, uncopied, staging, archives>>
  <2>1. edited \subseteq edited' /\ gone \subseteq gone'
    BY EditedStep, GoneStep
  <2> QED
    BY <1>2, <2>1 DEF ArchivesOK, ArchiveOK, HoldsRecord, CustomOf, Existing
<1> QED
  BY <1>1, <1>2, BundleKinds

(* A bundle holds the record it was asked for and the files of the record, *)
(* as they were recorded where no one touched them.                        *)
THEOREM BundlesAreOfTheirRecords ==
    ASSUME ZipsAreApart, SecondsApart
    PROVE  Spec => []BundleHoldsItsRecord
<1>1. ASSUME ArchivesOK
      PROVE  BundleHoldsItsRecord
  BY <1>1 DEF ArchivesOK, ArchiveOK, HoldsRecord, CustomOf, BundleHoldsItsRecord
<1>2. IndInv /\ BuildInv /\ BundleInv /\ ArchivesOK /\ [Next]_vars => ArchivesOK'
  BY ArchivesStep DEF BuildInv, BundleInv
<1> QED
  BY <1>1, <1>2, InitArchives, SpecBundleInv, PTL DEF Spec
=============================================================================
