---------------------- MODULE DependencyTrackingProofs ----------------------
(***************************************************************************)
(* Proofs about module DependencyTracking, for every number of files and   *)
(* threads and every machine, and about module TraceReading, which gives   *)
(* it its files, for every trace and all mappings.                         *)
(*                                                                         *)
(* The two have no variable in common.  The second begins at `Reading the  *)
(* trace'.                                                                 *)
(***************************************************************************)
EXTENDS DependencyTracking, TraceReading, SequenceTheorems, FiniteSetTheorems,
        WellFoundedInduction, TLAPS

(* A package that can be entered in the record. *)
HasName(p) == p # Invalid => p.name \in Names

(* Types, as far as the record needs them. *)
Typed ==
    /\ status \in [Files -> Pool!Statuses]
    /\ closed \in BOOLEAN
    /\ world \in Worlds
    /\ tpc \in [Files -> TaskPCs]
    /\ path_to_package \in [Paths -> Queries \cup {NoQuery}]
    /\ DOMAIN pkg = Files /\ pkg = [f \in Files |-> pkg[f]]
    /\ \A f \in Files : HasName(pkg[f])
    /\ \A p \in DOMAIN cache : HasName(cache[p])
    /\ DOMAIN seen = Files /\ seen = [f \in Files |-> seen[f]]
    /\ DOMAIN dependencies = Names
    /\ dependencies = [n \in Names |-> dependencies[n]]

(* A task is idle until the pool starts it and has ended when it is done.  *)
Lives ==
    \A f \in Files :
        /\ status[f] \in {"new", "queued"} => tpc[f] = "idle"
        /\ status[f] = "done" => tpc[f] = "end"
        /\ closed => status[f] = "done"

(* Only the holder of record_mutex is inside addDependency, and what it    *)
(* saw there is still the record.                                          *)
Guarded ==
    \A f \in Files :
        /\ tpc[f] = "add" <=> record_mutex = f
        /\ tpc[f] = "add" => seen[f] = dependencies /\ pkg[f] # Invalid

(* The record holds a package per name that an ended task has resolved to. *)
Recorded ==
    /\ \A n \in Names : dependencies[n] # Invalid =>
         \E f \in Files : /\ tpc[f] = "end"
                          /\ pkg[f] = dependencies[n] /\ pkg[f].name = n
    /\ \A f \in Files : tpc[f] = "end" /\ pkg[f] # Invalid =>
         dependencies[pkg[f].name] # Invalid

RecordInv == Typed /\ Lives /\ Guarded /\ Recorded

(* Resolution yields a package with a name, or the invalid package. *)
LEMMA ResolvedIsNamed ==
    ASSUME NEW w \in WorldType, NEW owners \in [Paths -> Queries \cup {NoQuery}],
           NEW p \in Paths
    PROVE  HasName(Resolved(w, owners, p))
<1>1. w.real[p] \in Paths
  BY DEF WorldType
<1>2. w.base[w.real[p]] \in Names /\ \A q \in Queries : w.display[q] \in Names
  BY <1>1 DEF WorldType
<1>3. FindOwner(w, owners, p) \in Queries \cup {NoQuery}
  BY <1>1 DEF FindOwner
<1>4. ASSUME NEW n \in Names, NEW o, NEW v
      PROVE  HasName(MakePackage(w, n, o, p, v))
  BY DEF MakePackage, HasName
<1> QED
  BY <1>2, <1>3, <1>4 DEF Resolved, HasName

LEMMA OwnersAreTyped ==
    ASSUME NEW w, NEW o \in LoadedOwners(w)
    PROVE  o \in [Paths -> Queries \cup {NoQuery}]
BY DEF LoadedOwners

LEMMA InitRecord == Init => RecordInv
<1> SUFFICES ASSUME Init
             PROVE  RecordInv
  OBVIOUS
<1>1. NoOwners \in [Paths -> Queries \cup {NoQuery}]
  BY DEF NoOwners
<1>2. path_to_package \in [Paths -> Queries \cup {NoQuery}]
  BY <1>1, OwnersAreTyped DEF Init
<1>3. Typed
  BY <1>2 DEF Init, Pool!Init, Pool!Tasks, Pool!Statuses, Typed, Files, TaskPCs,
              NoPackages, HasName
<1>4. Lives
  BY DEF Init, Pool!Init, Pool!Tasks, Lives, Files
<1>5. Guarded
  BY TrackingAssumption DEF Init, Guarded, Files
<1>6. Recorded
  BY DEF Init, Recorded, NoPackages
<1> QED
  BY <1>3, <1>4, <1>5, <1>6 DEF RecordInv

(* A step of a task outside addDependency: it may move its own counter to  *)
(* a place other than "add" and "end", and set its own package, before it  *)
(* gets there.                                                             *)
LEMMA QuietStep ==
    ASSUME RecordInv, NEW f \in Files, NEW pc \in TaskPCs \ {"idle", "add", "end"},
           tpc[f] \notin {"idle", "add", "end"},
           tpc' = [tpc EXCEPT ![f] = pc],
           NEW p, HasName(p), pkg' = [pkg EXCEPT ![f] = p] \/ UNCHANGED pkg,
           UNCHANGED <<poolVars, world, record_mutex, seen, dependencies>>,
           \A q \in DOMAIN cache' : HasName(cache'[q]),
           path_to_package' \in [Paths -> Queries \cup {NoQuery}]
    PROVE  RecordInv'
<1> USE DEF RecordInv, poolVars
<1>1. Typed'
  BY DEF Typed
<1>2. Lives'
  BY DEF Lives, Typed
<1>3. Guarded'
  BY DEF Guarded, Typed
<1>4. Recorded'
  BY DEF Recorded, Typed
<1> QED
  BY <1>1, <1>2, <1>3, <1>4

LEMMA StepRecord == RecordInv /\ [Next]_vars => RecordInv'
<1> SUFFICES ASSUME RecordInv, [Next]_vars
             PROVE  RecordInv'
  OBVIOUS
<1> USE DEF Goto, Yields
<1>0. /\ Typed /\ Lives /\ Guarded /\ Recorded
      /\ HasName(Invalid)
      /\ world \in WorldType
  BY TrackingAssumption DEF RecordInv, HasName, Typed
<1>a. \A f \in Files : world.raw[f] \in Paths
  BY <1>0 DEF WorldType, Files
<1>b. \A f \in Files : HasName(Resolved(world, path_to_package, world.raw[f]))
  BY <1>0, <1>a, ResolvedIsNamed DEF Typed
<1>c. \A q \in DOMAIN cache : HasName(cache[q])
  BY <1>0 DEF Typed
<1>d. path_to_package \in [Paths -> Queries \cup {NoQuery}]
  BY <1>0 DEF Typed
<1>1. ASSUME NEW f \in Files, SubmitFile(f)
      PROVE  RecordInv'
  <2>1. /\ status' = [status EXCEPT ![f] = "queued"] /\ status[f] = "new"
        /\ ~closed /\ UNCHANGED <<closed, tpc, dataVars>>
    BY <1>1 DEF SubmitFile, Pool!Submit
  <2>2. Typed' /\ Lives'
    BY <1>0, <2>1 DEF Typed, Lives, dataVars, Pool!Statuses
  <2>3. Guarded' /\ Recorded'
    BY <1>0, <2>1 DEF Guarded, Recorded, dataVars
  <2> QED
    BY <2>2, <2>3 DEF RecordInv
<1>2. ASSUME NEW f \in Files, StartFile(f)
      PROVE  RecordInv'
  <2>1. /\ status' = [status EXCEPT ![f] = "running"] /\ status[f] = "queued"
        /\ tpc' = [tpc EXCEPT ![f] = "get"] /\ tpc[f] = "idle"
        /\ UNCHANGED <<closed, dataVars>>
    BY <1>0, <1>2 DEF StartFile, Pool!Start, Lives
  <2>2. Typed' /\ Lives'
    BY <1>0, <2>1 DEF Typed, Lives, dataVars, Pool!Statuses, TaskPCs
  <2>3. Guarded' /\ Recorded'
    BY <1>0, <2>1 DEF Typed, Guarded, Recorded, dataVars
  <2> QED
    BY <2>2, <2>3 DEF RecordInv
<1>3. ASSUME NEW f \in Files, FinishFile(f)
      PROVE  RecordInv'
  <2>1. /\ status' = [status EXCEPT ![f] = "done"]
        /\ tpc[f] = "end" /\ UNCHANGED <<closed, tpc, dataVars>>
    BY <1>3 DEF FinishFile, Pool!Finish
  <2>2. Typed' /\ Lives'
    BY <1>0, <2>1 DEF Typed, Lives, dataVars, Pool!Statuses
  <2>3. Guarded' /\ Recorded'
    BY <1>0, <2>1 DEF Guarded, Recorded, dataVars
  <2> QED
    BY <2>2, <2>3 DEF RecordInv
<1>4. CASE ClosePool
  <2>1. /\ \A f \in Files : status[f] = "done"
        /\ closed' = TRUE /\ UNCHANGED <<status, tpc, dataVars>>
    BY <1>4 DEF ClosePool, Pool!Close
  <2>2. Typed' /\ Lives'
    BY <1>0, <2>1 DEF Typed, Lives, dataVars
  <2>3. Guarded' /\ Recorded'
    BY <1>0, <2>1 DEF Guarded, Recorded, dataVars
  <2> QED
    BY <2>2, <2>3 DEF RecordInv
<1>5. ASSUME NEW f \in Files, CacheGet(f)
      PROVE  RecordInv'
  <2>1. CASE CacheKey(f) \in DOMAIN cache
    BY <1>0, <1>5, <1>c, <1>d, <2>1, QuietStep DEF CacheGet, TaskPCs
  <2>2. CASE CacheKey(f) \notin DOMAIN cache
    BY <1>0, <1>5, <1>c, <1>d, <2>2, QuietStep DEF CacheGet, TaskPCs
  <2> QED
    BY <2>1, <2>2
<1>6. ASSUME NEW f \in Files, Dispatch(f)
      PROVE  RecordInv'
  <2>1. CASE tpc' = [tpc EXCEPT ![f] = "dpkg"] /\ UNCHANGED pkg
    BY <1>0, <1>6, <1>c, <1>d, <2>1, QuietStep DEF Dispatch, TaskPCs
  <2>2. CASE /\ pkg' = [pkg EXCEPT ![f] = Resolved(world, path_to_package, world.raw[f])]
             /\ tpc' = [tpc EXCEPT ![f] = "put"]
    BY <1>0, <1>6, <1>b, <1>c, <1>d, <2>2, QuietStep DEF Dispatch, TaskPCs
  <2> QED
    BY <1>6, <2>1, <2>2 DEF Dispatch
<1>7. ASSUME NEW f \in Files, LoadBegins(f)
      PROVE  RecordInv'
  BY <1>0, <1>7, <1>c, <1>d, QuietStep DEF LoadBegins, TaskPCs
<1>8. ASSUME NEW f \in Files, LoadEnds(f)
      PROVE  RecordInv'
  <2>1. path_to_package' \in [Paths -> Queries \cup {NoQuery}]
    BY <1>8, OwnersAreTyped DEF LoadEnds
  <2> QED
    BY <1>0, <1>8, <1>c, <2>1, QuietStep DEF LoadEnds, TaskPCs
<1>9. ASSUME NEW f \in Files, LoadFails(f)
      PROVE  RecordInv'
  BY <1>0, <1>9, <1>c, <1>d, QuietStep DEF LoadFails, TaskPCs
<1>10. ASSUME NEW f \in Files, DatabaseReady(f)
       PROVE  RecordInv'
  BY <1>0, <1>10, <1>c, <1>d, QuietStep DEF DatabaseReady, TaskPCs, dataVars
<1>11. ASSUME NEW f \in Files, Lookup(f)
       PROVE  RecordInv'
  BY <1>0, <1>11, <1>b, <1>c, <1>d, QuietStep DEF Lookup, TaskPCs
<1>12. ASSUME NEW f \in Files, CachePut(f)
       PROVE  RecordInv'
  <2>1. \A q \in DOMAIN cache' : HasName(cache'[q])
    BY <1>0, <1>12, <1>c DEF CachePut, Typed
  <2> QED
    BY <1>0, <1>12, <1>d, <2>1, QuietStep DEF CachePut, TaskPCs
<1>13. ASSUME NEW f \in Files, SkipInvalid(f)
       PROVE  RecordInv'
  <2>1. /\ tpc[f] = "valid" /\ pkg[f] = Invalid
        /\ tpc' = [tpc EXCEPT ![f] = "end"] /\ UNCHANGED <<poolVars, dataVars>>
    BY <1>13 DEF SkipInvalid, IsValid
  <2>2. Typed' /\ Lives'
    BY <1>0, <2>1 DEF Typed, Lives, dataVars, poolVars, TaskPCs
  <2>3. Guarded' /\ Recorded'
    BY <1>0, <2>1 DEF Typed, Guarded, Recorded, dataVars
  <2> QED
    BY <2>2, <2>3 DEF RecordInv
<1>14. ASSUME NEW f \in Files, EnterRecord(f)
       PROVE  RecordInv'
  <2>1. /\ tpc[f] = "valid" /\ pkg[f] # Invalid
        /\ record_mutex = Free /\ record_mutex' = f
        /\ seen' = [seen EXCEPT ![f] = dependencies]
        /\ tpc' = [tpc EXCEPT ![f] = "add"]
        /\ UNCHANGED <<status, closed, world, pkg, cache, path_to_package,
                       dependencies>>
    BY <1>14 DEF EnterRecord, IsValid, RecordMutexFree, poolVars
  <2>2. Typed' /\ Lives'
    BY <1>0, <2>1 DEF Typed, Lives, TaskPCs
  <2>3. Guarded'
    BY <1>0, <2>1, TrackingAssumption DEF Typed, Guarded, Files
  <2>4. Recorded'
    BY <1>0, <2>1 DEF Typed, Recorded
  <2> QED
    BY <2>2, <2>3, <2>4 DEF RecordInv
<1>15. ASSUME NEW f \in Files, AddDependency(f)
       PROVE  RecordInv'
  <2>1. /\ tpc[f] = "add" /\ record_mutex = f /\ record_mutex' = Free
        /\ pkg[f] # Invalid /\ pkg[f].name \in Names
        /\ dependencies' = [dependencies EXCEPT ![pkg[f].name] = pkg[f]]
        /\ tpc' = [tpc EXCEPT ![f] = "end"]
        /\ UNCHANGED <<status, closed, world, pkg, cache, path_to_package, seen>>
    BY <1>0, <1>15 DEF AddDependency, Put, Guarded, Typed, HasName, poolVars
  <2>2. Typed'
    BY <1>0, <2>1 DEF Typed, TaskPCs
  <2>3. Lives'
    BY <1>0, <2>1 DEF Typed, Lives
  <2>4. Guarded'
    BY <1>0, <2>1, TrackingAssumption DEF Typed, Guarded, Files
  <2>5. ASSUME NEW n \in Names, dependencies'[n] # Invalid
        PROVE  \E g \in Files : /\ tpc'[g] = "end"
                               /\ pkg'[g] = dependencies'[n] /\ pkg'[g].name = n
    <3>1. CASE n = pkg[f].name
      BY <1>0, <2>1, <3>1 DEF Typed
    <3>2. CASE n # pkg[f].name
      BY <1>0, <2>1, <2>5, <3>2 DEF Typed, Recorded
    <3> QED
      BY <3>1, <3>2
  <2>6. \A g \in Files : tpc'[g] = "end" /\ pkg'[g] # Invalid =>
          dependencies'[pkg'[g].name] # Invalid
    BY <1>0, <2>1 DEF Typed, Recorded
  <2> QED
    BY <2>2, <2>3, <2>4, <2>5, <2>6 DEF RecordInv, Recorded
<1>16. CASE UNCHANGED vars
  BY <1>0, <1>16
  DEF vars, poolVars, dataVars, RecordInv, Typed, Lives, Guarded, Recorded
<1> QED
  BY <1>1, <1>2, <1>3, <1>4, <1>5, <1>6, <1>7, <1>8, <1>9, <1>10, <1>11,
     <1>12, <1>13, <1>14, <1>15, <1>16
  DEF Next, TaskStep, Left

LEMMA AlwaysRecord == Spec => []RecordInv
BY InitRecord, StepRecord, PTL DEF Spec

(* No addDependency is lost: when the pool has closed the record has, by   *)
(* name, exactly the packages the files resolved to.                       *)
THEOREM RecordIsComplete == Spec => []RecordComplete
<1>1. RecordInv => RecordComplete
  <2> SUFFICES ASSUME RecordInv, closed
               PROVE  /\ Keys(dependencies) =
                           {pkg[f].name : f \in {g \in Files : IsValid(pkg[g])}}
                      /\ \A n \in Keys(dependencies) :
                           \E f \in {g \in Files : IsValid(pkg[g])} :
                             dependencies[n] = pkg[f] /\ pkg[f].name = n
    BY DEF RecordComplete
  <2>1. \A f \in Files : tpc[f] = "end"
    BY DEF RecordInv, Lives
  <2>2. \A n \in Keys(dependencies) :
          \E f \in {g \in Files : IsValid(pkg[g])} :
            dependencies[n] = pkg[f] /\ pkg[f].name = n
    BY DEF RecordInv, Recorded, Keys, IsValid
  <2>3. \A f \in Files : IsValid(pkg[f]) => pkg[f].name \in Keys(dependencies)
    BY <2>1 DEF RecordInv, Recorded, Typed, HasName, Keys, IsValid
  <2> QED
    BY <2>2, <2>3
<1> QED
  BY <1>1, AlwaysRecord, PTL

-----------------------------------------------------------------------------
(* What the tasks share, besides the record. *)
Shared ==
    /\ DOMAIN cache \subseteq {world.raw[f] : f \in Files}
    /\ dpkg \in {"unloaded", "loading", "ready"}
    /\ record_mutex \in Files \cup {Free}

LEMMA StepShared == Shared /\ [Next]_vars => Shared'
<1> SUFFICES ASSUME Shared, [Next]_vars
             PROVE  Shared'
  OBVIOUS
<1> USE DEF Shared, poolVars
<1>1. ASSUME UNCHANGED <<world, cache, dpkg, record_mutex>>
      PROVE  Shared'
  BY <1>1
<1>2. ASSUME NEW f \in Files, LoadBegins(f) \/ LoadEnds(f) \/ LoadFails(f)
      PROVE  Shared'
  BY <1>2 DEF LoadBegins, LoadEnds, LoadFails, AfterFailedLoad
<1>3. ASSUME NEW f \in Files, CachePut(f)
      PROVE  Shared'
  BY <1>3 DEF CachePut, CacheKey
<1>4. ASSUME NEW f \in Files, EnterRecord(f) \/ AddDependency(f)
      PROVE  Shared'
  BY <1>4 DEF EnterRecord, AddDependency
<1> QED
  BY <1>1, <1>2, <1>3, <1>4
  DEF Next, TaskStep, Left, SubmitFile, StartFile, FinishFile, ClosePool,
      CacheGet, Dispatch, DatabaseReady, Lookup, SkipInvalid, vars, dataVars

(* Every variable stays in its type: each entry of the record is some      *)
(* task's package.                                                         *)
THEOREM TrackingTypes == Spec => []TypeOK
<1>1. Init => Shared
  BY DEF Init, Shared
<1>2. RecordInv /\ Shared => TypeOK
  <2> SUFFICES ASSUME Typed, Recorded, Shared
               PROVE  TypeOK
    BY DEF RecordInv
  <2>1. \A n \in Names : dependencies[n] \in {Invalid} \cup {pkg[f] : f \in Files}
    BY DEF Recorded
  <2>2. dependencies \in [Names -> {Invalid} \cup {pkg[f] : f \in Files}]
    BY <2>1 DEF Typed
  <2> QED
    BY <2>2 DEF Typed, Shared, TypeOK
<1> QED
  BY <1>1, <1>2, StepShared, AlwaysRecord, PTL DEF Spec

-----------------------------------------------------------------------------
(* One package database. *)

NeedsDatabase(f) == world.mgr = "APT" /\ world.raw[f] \in world.exists

(* What may be held for file f: what the database in use says, if it is    *)
(* loaded or not needed, or a failure to load it.                          *)
Faithful(f, p) ==
    \/ p = Result(f) /\ (NeedsDatabase(f) => dpkg = "ready")
    \/ LoadMayFail /\ p = Invalid

(* One task loads, the others wait; who has an answer has it faithfully.   *)
DatabaseInv ==
    /\ \A f \in Files :
        /\ tpc[f] = "loading" => dpkg = "loading"
        /\ tpc[f] = "lookup" => dpkg = "ready"
        /\ tpc[f] \in {"dpkg", "loading", "lookup"} => NeedsDatabase(f)
        /\ tpc[f] \in {"put", "valid", "add", "end"} => Faithful(f, pkg[f])
        /\ world.raw[f] \in DOMAIN cache => Faithful(f, cache[world.raw[f]])
    /\ \A f, g \in Files : tpc[f] = "loading" /\ tpc[g] = "loading" => f = g

LEMMA InitDatabase == Init => DatabaseInv
BY DEF Init, DatabaseInv

(* Loading the database changes no answer that did not need it.            *)
LEMMA LoadKeepsAnswers ==
    ASSUME DatabaseInv, NEW g \in Files, LoadEnds(g), NEW f \in Files, NEW p,
           Faithful(f, p)
    PROVE  Faithful(f, p)'
<1>1. dpkg = "loading" /\ dpkg' = "ready" /\ world.mgr = "APT" /\ world' = world
  BY DEF LoadEnds, DatabaseInv, NeedsDatabase
<1>2. CASE NeedsDatabase(f)
  BY <1>1, <1>2 DEF Faithful
<1>3. CASE ~NeedsDatabase(f)
  <2>1. Result(f) = Invalid /\ Result(f)' = Invalid
    BY <1>1, <1>3 DEF NeedsDatabase, Result, Resolved
  <2> QED
    BY <1>1, <2>1 DEF Faithful
<1> QED
  BY <1>2, <1>3

LEMMA StepDatabase ==
    RecordInv /\ DatabaseInv /\ [Next]_vars => DatabaseInv'
<1> SUFFICES ASSUME Typed, DatabaseInv, [Next]_vars
             PROVE  DatabaseInv'
  BY DEF RecordInv
<1> USE DEF Goto, Yields, poolVars
<1>0. /\ tpc \in [Files -> TaskPCs]
      /\ DOMAIN pkg = Files
      /\ pkg = [f \in Files |-> pkg[f]]
  BY DEF Typed
<1>1. ASSUME NEW f \in Files, SubmitFile(f) \/ FinishFile(f)
      PROVE  DatabaseInv'
  BY <1>1 DEF SubmitFile, FinishFile, dataVars, DatabaseInv, Faithful, Result,
              NeedsDatabase
<1>2. ASSUME NEW f \in Files, StartFile(f)
      PROVE  DatabaseInv'
  BY <1>0, <1>2 DEF StartFile, dataVars, DatabaseInv, Faithful, Result,
                    NeedsDatabase
<1>3. CASE ClosePool \/ UNCHANGED vars
  BY <1>3 DEF ClosePool, vars, dataVars, DatabaseInv, Faithful, Result,
              NeedsDatabase
<1>4. ASSUME NEW f \in Files, CacheGet(f)
      PROVE  DatabaseInv'
  BY <1>0, <1>4 DEF CacheGet, CacheKey, DatabaseInv, Faithful, Result,
                    NeedsDatabase
<1>5. ASSUME NEW f \in Files, Dispatch(f)
      PROVE  DatabaseInv'
  BY <1>0, <1>5 DEF Dispatch, DatabaseInv, Faithful, Result, NeedsDatabase
<1>6. ASSUME NEW f \in Files, LoadBegins(f)
      PROVE  DatabaseInv'
  BY <1>0, <1>6 DEF LoadBegins, MayLoad, DatabaseInv, Faithful, Result,
                    NeedsDatabase
<1>7. ASSUME NEW g \in Files, LoadEnds(g)
      PROVE  DatabaseInv'
  <2>1. /\ tpc' = [tpc EXCEPT ![g] = "lookup"] /\ tpc[g] = "loading"
        /\ dpkg = "loading" /\ dpkg' = "ready"
        /\ UNCHANGED <<world, pkg, cache>>
    BY <1>7 DEF LoadEnds, DatabaseInv
  <2>2. ASSUME NEW f \in Files, tpc'[f] \in {"put", "valid", "add", "end"}
        PROVE  Faithful(f, pkg[f])'
    BY <1>0, <1>7, <2>1, <2>2, LoadKeepsAnswers DEF DatabaseInv
  <2>3. ASSUME NEW f \in Files, world.raw[f] \in DOMAIN cache
        PROVE  Faithful(f, cache[world.raw[f]])'
    BY <1>7, <2>1, <2>3, LoadKeepsAnswers DEF DatabaseInv
  <2> QED
    BY <1>0, <2>1, <2>2, <2>3 DEF DatabaseInv, NeedsDatabase
<1>8. ASSUME NEW f \in Files, LoadFails(f)
      PROVE  DatabaseInv'
  BY <1>0, <1>8 DEF LoadFails, AfterFailedLoad, DatabaseInv, Faithful, Result,
                    NeedsDatabase
<1>9. ASSUME NEW f \in Files, DatabaseReady(f)
      PROVE  DatabaseInv'
  BY <1>0, <1>9 DEF DatabaseReady, dataVars, DatabaseInv, Faithful, Result,
                    NeedsDatabase
<1>10. ASSUME NEW f \in Files, Lookup(f)
       PROVE  DatabaseInv'
  BY <1>0, <1>10 DEF Lookup, DatabaseInv, Faithful, Result, NeedsDatabase
<1>11. ASSUME NEW f \in Files, CachePut(f)
       PROVE  DatabaseInv'
  BY <1>0, <1>11 DEF CachePut, CacheKey, DatabaseInv, Faithful, Result,
                     NeedsDatabase
<1>12. ASSUME NEW f \in Files, SkipInvalid(f) \/ EnterRecord(f) \/ AddDependency(f)
       PROVE  DatabaseInv'
  BY <1>0, <1>12 DEF SkipInvalid, EnterRecord, AddDependency, dataVars,
                     DatabaseInv, Faithful, Result, NeedsDatabase
<1> QED
  BY <1>1, <1>2, <1>3, <1>4, <1>5, <1>6, <1>7, <1>8, <1>9, <1>10, <1>11, <1>12
  DEF Next, TaskStep, Left

(* However the tasks race to load the package database, all of them        *)
(* resolve their files against one and the same.                           *)
THEOREM TasksShareOneDatabase == Spec => []OneDatabase
<1>1. DatabaseInv => OneDatabase
  BY DEF DatabaseInv, OneDatabase, Faithful
<1> QED
  BY <1>1, InitDatabase, StepDatabase, AlwaysRecord, PTL DEF Spec

-----------------------------------------------------------------------------
(* Versions. *)

(* A set of positions has a last one: its distance from n is the least.    *)
LEMMA LastPosition ==
    ASSUME NEW n \in Nat, NEW T, T \subseteq 1..n, T # {}
    PROVE  \E x \in T : \A y \in T : y <= x
<1> DEFINE Distances == {n - x : x \in T}
<1>1. Distances \subseteq Nat /\ Distances # {}
  <2>1. \A x \in 1..n : n - x \in Nat
    OBVIOUS
  <2>2. Distances \subseteq Nat
    BY <2>1
  <2> QED
    BY <2>2
<1>2. PICK d \in Distances : \A e \in Distances : <<e, d>> \notin OpToRel(<, Nat)
  <2> HIDE DEF Distances
  <2> QED
    BY <1>1, NatLessThanWellFounded, WFMin
<1>3. \A e \in Distances : ~(e < d)
  BY <1>1, <1>2 DEF OpToRel
<1>4. PICK x \in T : d = n - x
  OBVIOUS
<1>5. ASSUME NEW y \in T
      PROVE  y <= x
  <2>1. ~(n - y < n - x)
    BY <1>3, <1>4
  <2> QED
    BY <2>1
<1> QED
  BY <1>5

(* Each installed package has a version, and a name without architecture   *)
(* that a file list has is that of one stanza's package only.  This is     *)
(* more than dpkg promises: the configuration files of a package that was  *)
(* removed for another architecture leave a stanza with its name.          *)
StanzasAreApart ==
    \A w \in Worlds : \A k, j \in 1..Len(w.stanzas) :
        /\ w.stanzas[k].version # ""
        /\ w.stanzas[j].name = w.stanzas[k].full =>
             w.stanzas[j].full = w.stanzas[k].full

(* The version found for a package with a stanza is that of such a stanza. *)
LEMMA VersionIsOwn ==
    ASSUME StanzasAreApart, NEW w \in Worlds, NEW q,
           NEW k \in 1..Len(w.stanzas), w.stanzas[k].full = q
    PROVE  \E j \in 1..Len(w.stanzas) :
              w.stanzas[j].full = q /\ FindVersion(w, q) = w.stanzas[j].version
<1> DEFINE hits == {j \in 1..Len(w.stanzas) :
                      /\ w.stanzas[j].full = q \/ w.stanzas[j].name = q
                      /\ w.stanzas[j].version # ""}
           last == CHOOSE j \in hits : \A m \in hits : m <= j
<1>1. Len(w.stanzas) \in Nat
  <2>1. w.stanzas \in Seq([name : Names, full : Queries, version : STRING])
    BY TrackingAssumption DEF WorldType
  <2> QED
    BY <2>1, LenProperties
<1>2. k \in hits
  BY DEF StanzasAreApart
<1>3. last \in hits
  <2>1. \E j \in hits : \A m \in hits : m <= j
    BY <1>1, <1>2, LastPosition
  <2> HIDE DEF hits
  <2> QED
    BY <2>1
<1>4. VersionByQuery(w, q) = w.stanzas[last].version
  BY <1>2 DEF VersionByQuery, LastVersion
<1>5. w.stanzas[last].version # "" /\ w.stanzas[last].full = q
  BY <1>3 DEF StanzasAreApart
<1> HIDE DEF last
<1> QED
  BY <1>3, <1>4, <1>5 DEF FindVersion

LEMMA MadeWithVersion ==
    ASSUME NEW w, NEW name, NEW origin, NEW p, NEW version,
           MakePackage(w, name, origin, p, version) # Invalid
    PROVE  MakePackage(w, name, origin, p, version).version = version
<1>1. version # "" /\ w.real[p] \in w.readable
  BY DEF MakePackage
<1> QED
  BY <1>1, Zenon DEF MakePackage

(* With two architectures of a package installed, a file is recorded with  *)
(* the version of the instance that owns it.                               *)
THEOREM VersionsAreOwn ==
    ASSUME StanzasAreApart
    PROVE  Spec => []OwnVersion
<1>1. RecordInv /\ DatabaseInv => OwnVersion
  <2> SUFFICES ASSUME RecordInv, DatabaseInv, NEW f \in Files,
                      tpc[f] \in {"valid", "add", "end"}, IsValid(pkg[f]),
                      NEW k \in 1..Len(world.stanzas),
                      FindOwner(world, path_to_package, world.raw[f]) # NoQuery,
                      world.stanzas[k].full
                        = FindOwner(world, path_to_package, world.raw[f])
               PROVE  \E j \in 1..Len(world.stanzas) :
                        /\ world.stanzas[j].full
                             = FindOwner(world, path_to_package, world.raw[f])
                        /\ pkg[f].version = world.stanzas[j].version
    BY DEF OwnVersion
  <2> DEFINE q == FindOwner(world, path_to_package, world.raw[f])
  <2>1. pkg[f] = Result(f) /\ pkg[f] # Invalid
    BY DEF DatabaseInv, Faithful, IsValid
  <2>2. \E n, o : pkg[f] = MakePackage(world, n, o, world.raw[f], FindVersion(world, q))
    BY <2>1 DEF Result, Resolved
  <2> HIDE DEF q
  <2>3. pkg[f].version = FindVersion(world, q)
    BY <2>1, <2>2, MadeWithVersion
  <2>4. world \in Worlds
    BY DEF RecordInv, Typed
  <2> QED
    BY <2>3, <2>4, VersionIsOwn DEF q
<1> QED
  BY <1>1, InitDatabase, StepDatabase, AlwaysRecord, PTL DEF Spec

-----------------------------------------------------------------------------
(* Reading the trace. *)

(* Least elements. *)
LEMMA Least ==
    ASSUME NEW T, T \subseteq Nat, T # {}
    PROVE  \E m \in T : \A x \in T : m <= x
<1>1. PICK m \in T : \A x \in T : <<x, m>> \notin OpToRel(<, Nat)
  BY NatLessThanWellFounded, WFMin
<1>2. \A x \in T : ~(x < m)
  BY <1>1 DEF OpToRel
<1> QED
  BY <1>2

(* What holds at 0 and goes up to n. *)
LEMMA Climb ==
    ASSUME NEW n \in Nat, NEW S, 0 \in S, \A j \in 0..n-1 : j \in S => j + 1 \in S
    PROVE  n \in S /\ \A j \in 0..n : j \in S
<1> SUFFICES ASSUME NEW j \in 0..n, j \notin S
             PROVE  FALSE
  OBVIOUS
<1> DEFINE T == {k \in 0..n : k \notin S}
<1>1. PICK m \in T : \A x \in T : m <= x
  <2>1. T \subseteq Nat /\ T # {}
    OBVIOUS
  <2> HIDE DEF T
  <2> QED
    BY <2>1, Least
<1>2. m \in 1..n /\ m \notin S
  OBVIOUS
<1>3. m - 1 \in S
  <2>1. m - 1 \in 0..n-1 /\ ~(m <= m - 1)
    BY <1>2
  <2>2. m - 1 \in 0..n
    BY <2>1
  <2> QED
    BY <1>1, <2>1, <2>2
<1>4. m - 1 + 1 = m
  BY <1>2
<1> QED
  BY <1>2, <1>3, <1>4

(* A value and a step from each to the next determine a sequence of values. *)
Iterated(n, V, c, step) ==
    \E h \in [0..n -> V] : h[0] = c /\ \A k \in 1..n : h[k] = step[k][h[k - 1]]

LEMMA Recursion ==
    ASSUME NEW n \in Nat, NEW V, NEW c \in V, NEW step \in [1..n -> [V -> V]]
    PROVE  Iterated(n, V, c, step)
<1> DEFINE Steps(h, m) == h[0] = c /\ \A k \in 1..m : h[k] = step[k][h[k - 1]]
           S == {m \in 0..n : \E h \in [0..m -> V] : Steps(h, m)}
<1>1. 0 \in S
  <2> DEFINE h == [k \in 0..0 |-> c]
  <2>1. h \in [0..0 -> V] /\ Steps(h, 0) /\ 0 \in 0..n
    OBVIOUS
  <2> QED
    BY <2>1
<1>2. ASSUME NEW m \in 0..n-1, m \in S
      PROVE  m + 1 \in S
  <2>1. PICK h \in [0..m -> V] : Steps(h, m)
    BY <1>2
  <2> DEFINE v == step[m + 1][h[m]]
             e == [k \in 0..m+1 |-> IF k = m + 1 THEN v ELSE h[k]]
  <2>2. v \in V
    <3>1. step[m + 1] \in [V -> V] /\ h[m] \in V
      OBVIOUS
    <3> QED
      BY <3>1
  <2>3. e \in [0..m+1 -> V] /\ e[m + 1] = v /\ \A k \in 0..m : e[k] = h[k]
    BY <2>2
  <2> HIDE DEF e, v
  <2>4. ASSUME NEW k \in 1..m+1
        PROVE  e[k] = step[k][e[k - 1]]
    <3>1. CASE k = m + 1
      <4>1. k - 1 = m /\ m \in 0..m
        BY <3>1
      <4>2. e[k - 1] = h[m]
        BY <2>3, <4>1
      <4> QED
        BY <2>3, <3>1, <4>2 DEF v
    <3>2. CASE k # m + 1
      <4>1. k \in 1..m /\ k - 1 \in 0..m /\ k \in 0..m
        BY <3>2
      <4> QED
        BY <2>1, <2>3, <4>1
    <3> QED
      BY <3>1, <3>2
  <2>5. Steps(e, m + 1) /\ m + 1 \in 0..n
    <3>1. e[0] = c
      BY <2>1, <2>3
    <3> QED
      BY <2>4, <3>1
  <2> HIDE DEF Steps
  <2> QED
    BY <2>3, <2>5
<1>3. n \in S
  <2> HIDE DEF S
  <2> QED
    BY <1>1, <1>2, Climb
<1> QED
  BY <1>3 DEF Iterated

-----------------------------------------------------------------------------
(* Paths. *)

Walk(abs, s) == Normal([abs |-> abs, names |-> s]).names

LEMMA EnteredNames ==
    ASSUME NEW abs, NEW done \in Seq(AllNames), NEW n \in AllNames
    PROVE  Entered(abs, done, n) \in Seq(AllNames)
<1>1. Front(done) \in Seq(AllNames)
  BY DEF Front
<1> QED
  BY <1>1 DEF Entered

(* The rounds of Normal. *)
LEMMA WalkRounds ==
    ASSUME NEW abs, NEW s \in Seq(AllNames)
    PROVE  \E h \in [0..Len(s) -> Seq(AllNames)] :
              /\ h[0] = <<>>
              /\ \A k \in 1..Len(s) : h[k] = Entered(abs, h[k - 1], s[k])
              /\ Walk(abs, s) = h[Len(s)]
<1> DEFINE n == Len(s)
           V == Seq(AllNames)
           step == [k \in 1..n |-> [v \in V |-> Entered(abs, v, s[k])]]
<1>0. n \in Nat /\ <<>> \in V
  OBVIOUS
<1>1. step \in [1..n -> [V -> V]]
  <2>1. ASSUME NEW k \in 1..n, NEW v \in V
        PROVE  Entered(abs, v, s[k]) \in V
    <3>1. s[k] \in AllNames
      OBVIOUS
    <3> QED
      BY <3>1, EnteredNames
  <2> QED
    BY <2>1
<1>2. PICK h \in [0..n -> V] : h[0] = <<>> /\ \A k \in 1..n : h[k] = step[k][h[k - 1]]
  <2> DEFINE c == <<>>
  <2>1. n \in Nat /\ c \in V /\ step \in [1..n -> [V -> V]]
    BY <1>0, <1>1
  <2> HIDE DEF step, n, V, c
  <2>2. Iterated(n, V, c, step)
    BY <2>1, Recursion
  <2> QED
    BY <2>2 DEF c, Iterated
<1>3. ASSUME NEW k \in 1..n
      PROVE  h[k] = Entered(abs, h[k - 1], s[k])
  <2>1. h[k - 1] \in V
    <3>1. k - 1 \in 0..n
      BY <1>0
    <3> HIDE DEF V
    <3> QED
      BY <3>1
  <2> QED
    BY <1>2, <2>1
<1> DEFINE Is(x) == x = [k \in 0..Len(s) |->
                            IF k = 0 THEN <<>> ELSE Entered(abs, x[k - 1], s[k])]
           upto == CHOOSE x : x = [k \in 0..Len(s) |->
                            IF k = 0 THEN <<>> ELSE Entered(abs, x[k - 1], s[k])]
<1>4. Is(h)
  <2>1. h = [k \in 0..n |-> h[k]]
    OBVIOUS
  <2>2. \A k \in 0..n : k # 0 => k \in 1..n
    BY <1>0
  <2>3. \A k \in 0..n : h[k] = IF k = 0 THEN <<>> ELSE Entered(abs, h[k - 1], s[k])
    BY <1>2, <1>3, <2>2
  <2> HIDE DEF step
  <2> QED
    BY <2>1, <2>3, Zenon
<1>5. Is(upto)
  BY <1>4, Zenon
<1> DEFINE p == [abs |-> abs, names |-> s]
<1>6. Walk(abs, s) = upto[Len(s)]
  <2>1. p.abs = abs /\ p.names = s
    OBVIOUS
  <2>2. Normal(p).names = (CHOOSE x : x = [k \in 0..Len(p.names) |->
            IF k = 0 THEN <<>> ELSE Entered(p.abs, x[k - 1], p.names[k])])[Len(p.names)]
    BY DEF Normal
  <2> HIDE DEF p
  <2>3. Normal(p).names = upto[Len(s)]
    BY <2>1, <2>2
  <2> QED
    BY <2>3 DEF Walk, p
<1>7. \A k \in 0..n : upto[k] = IF k = 0 THEN <<>> ELSE Entered(abs, upto[k - 1], s[k])
  BY <1>5, Zenon
<1> HIDE DEF upto, Is, step
<1> DEFINE U == {k \in 0..n : upto[k] = h[k]}
<1>8. 0 \in U
  BY <1>0, <1>2, <1>7
<1>9. ASSUME NEW k \in 0..n-1, k \in U
      PROVE  k + 1 \in U
  <2>1. k + 1 \in 1..n /\ k + 1 \in 0..n /\ k + 1 # 0 /\ k + 1 - 1 = k
    BY <1>0
  <2>2. upto[k + 1] = Entered(abs, upto[k], s[k + 1])
    BY <1>7, <2>1
  <2>3. h[k + 1] = Entered(abs, h[k], s[k + 1])
    BY <1>3, <2>1
  <2> QED
    BY <1>9, <2>1, <2>2, <2>3
<1>10. n \in U
  <2> HIDE DEF U
  <2> QED
    BY <1>0, <1>8, <1>9, Climb
<1> QED
  BY <1>2, <1>3, <1>6, <1>10

LEMMA WalkNames ==
    ASSUME NEW abs, NEW s \in Seq(AllNames)
    PROVE  Walk(abs, s) \in Seq(AllNames)
<1>1. PICK h \in [0..Len(s) -> Seq(AllNames)] : Walk(abs, s) = h[Len(s)]
  BY WalkRounds
<1>2. Len(s) \in 0..Len(s)
  OBVIOUS
<1> QED
  BY <1>1, <1>2

LEMMA WalkNothing ==
    \A abs : Walk(abs, <<>>) = <<>>
<1> SUFFICES ASSUME NEW abs, NEW s \in Seq(AllNames), Len(s) = 0
             PROVE  Walk(abs, s) = <<>>
  BY EmptySeq
<1> PICK h \in [0..Len(s) -> Seq(AllNames)] : h[0] = <<>> /\ Walk(abs, s) = h[Len(s)]
  BY WalkRounds
<1> QED
  OBVIOUS

LEMMA WalkOn ==
    ASSUME NEW abs, NEW s \in Seq(AllNames), NEW n \in AllNames
    PROVE  Walk(abs, Append(s, n)) = Entered(abs, Walk(abs, s), n)
<1> DEFINE m == Len(s)
           r == Append(s, n)
<1>0. m \in Nat /\ r \in Seq(AllNames) /\ Len(r) = m + 1 /\ r[m + 1] = n /\ \A k \in 1..m : r[k] = s[k]
  OBVIOUS
<1>1. PICK h \in [0..m -> Seq(AllNames)] :
           /\ h[0] = <<>>
           /\ \A k \in 1..m : h[k] = Entered(abs, h[k - 1], s[k])
           /\ Walk(abs, s) = h[m]
  BY WalkRounds
<1> HIDE DEF r
<1>2. PICK g \in [0..m+1 -> Seq(AllNames)] :
           /\ g[0] = <<>>
           /\ \A k \in 1..m+1 : g[k] = Entered(abs, g[k - 1], r[k])
           /\ Walk(abs, r) = g[m + 1]
  BY <1>0, WalkRounds, ZenonT(40)
<1> HIDE DEF m
<1> DEFINE U == {k \in 0..m : g[k] = h[k]}
<1>3. 0 \in U
  BY <1>0, <1>1, <1>2
<1>4. ASSUME NEW k \in 0..m-1, k \in U
      PROVE  k + 1 \in U
  <2>1. k + 1 \in 1..m /\ k + 1 \in 1..m+1 /\ k + 1 \in 0..m /\ k + 1 - 1 = k
    BY <1>0
  <2>2. h[k + 1] = Entered(abs, h[k], s[k + 1])
    BY <1>1, <2>1
  <2>3. g[k + 1] = Entered(abs, g[k], s[k + 1])
    BY <1>0, <1>2, <2>1
  <2> QED
    BY <1>4, <2>1, <2>2, <2>3
<1>5. m \in U
  <2> HIDE DEF U
  <2> QED
    BY <1>0, <1>3, <1>4, Climb
<1>6. m + 1 \in 1..m+1 /\ m + 1 - 1 = m
  BY <1>0
<1>7. g[m + 1] = Entered(abs, g[m], n)
  BY <1>0, <1>2, <1>6
<1> QED
  BY <1>1, <1>2, <1>5, <1>7 DEF r

(* What holds of no names, and of one more when it does of some. *)
LEMMA ByPrefixes ==
    ASSUME NEW S, NEW s \in Seq(S), NEW T, <<>> \in T,
           \A u \in Seq(S) : \A n \in S : u \in T => Append(u, n) \in T
    PROVE  s \in T
<1> DEFINE m == Len(s)
           U == {k \in 0..m : SubSeq(s, 1, k) \in T}
<1>0. m \in Nat /\ SubSeq(s, 1, m) = s /\ SubSeq(s, 1, 0) = <<>>
  <2>1. SubSeq(s, 1, m) = s
    BY SubSeqFull
  <2>2. SubSeq(s, 1, 0) = <<>>
    BY SubSeqEmpty
  <2> QED
    BY <2>1, <2>2, LenProperties
<1>1. 0 \in U
  <2>1. SubSeq(s, 1, 0) \in T
    BY <1>0, Zenon
  <2>2. 0 \in 0..m
    BY <1>0
  <2> QED
    BY <2>1, <2>2, Zenon
<1>2. ASSUME NEW k \in 0..m-1, k \in U
      PROVE  k + 1 \in U
  <2>1. k + 1 \in 1..m /\ k + 1 \in 0..m
    BY <1>0
  <2>2. SubSeq(s, 1, k) \in Seq(S) /\ s[k + 1] \in S
    BY <2>1
  <2>3. SubSeq(s, 1, k + 1) = Append(SubSeq(s, 1, k), s[k + 1])
    BY <2>1
  <2> QED
    BY <1>2, <2>1, <2>2, <2>3
<1>3. m \in U
  <2> HIDE DEF U
  <2> QED
    BY <1>0, <1>1, <1>2, Climb
<1> QED
  BY <1>0, <1>3

(* No ".", and ".." at most in front of a relative path. *)
Clean(abs, w) ==
    /\ w \in Seq(AllNames)
    /\ \A k \in 1..Len(w) :
          w[k] # "." /\ (w[k] = ".." => ~abs /\ \A j \in 1..k : w[j] = "..")

LEMMA EnteredClean ==
    ASSUME NEW abs \in BOOLEAN, NEW w, Clean(abs, w), NEW n \in AllNames
    PROVE  Clean(abs, Entered(abs, w, n))
<1>0. w \in Seq(AllNames) /\ Len(w) \in Nat
  BY DEF Clean
<1>1. CASE n = "."
  BY <1>1 DEF Entered
<1>2. CASE n = ".." /\ w = <<>>
  <2>1. Entered(abs, w, n) = IF abs THEN <<>> ELSE <<n>>
    BY <1>2 DEF Entered
  <2>2. Clean(abs, <<>>)
    BY DEF Clean
  <2>3. ~abs => Clean(abs, <<n>>)
    BY <1>2 DEF Clean
  <2> QED
    BY <2>1, <2>2, <2>3
<1>3. CASE n = ".." /\ w # <<>> /\ Last(w) # ".."
  <2>1. Entered(abs, w, n) = SubSeq(w, 1, Len(w) - 1)
    BY <1>3 DEF Entered, Front
  <2>2. Len(w) \in Nat \ {0}
    BY <1>0, <1>3
  <2>3. /\ SubSeq(w, 1, Len(w) - 1) \in Seq(AllNames) /\ Len(SubSeq(w, 1, Len(w) - 1)) = Len(w) - 1
        /\ \A k \in 1..Len(w)-1 : SubSeq(w, 1, Len(w) - 1)[k] = w[k]
    <3> DEFINE n1 == Len(w) - 1
               v == SubSeq(w, 1, n1)
    <3>1. n1 \in Nat /\ \A k \in 1..n1 : w[k] \in AllNames
      BY <1>0, <2>2
    <3> HIDE DEF n1
    <3>2. /\ v \in Seq(AllNames) /\ Len(v) = IF 1 <= n1 THEN n1 - 1 + 1 ELSE 0
          /\ \A k \in 1..n1-1+1 : v[k] = w[1 + k - 1]
      BY <3>1, SubSeqProperties
    <3>3. Len(v) = n1 /\ \A k \in 1..n1 : v[k] = w[k]
      BY <3>1, <3>2
    <3> QED
      BY <3>2, <3>3 DEF n1
  <2>4. \A k \in 1..Len(w)-1 : k \in 1..Len(w) /\ \A j \in 1..k : j \in 1..Len(w)-1
    BY <2>2
  <2> QED
    BY <2>1, <2>3, <2>4 DEF Clean
<1>4. CASE n # "." /\ (n = ".." => w # <<>> /\ Last(w) = "..")
  <2>1. Entered(abs, w, n) = Append(w, n)
    BY <1>4 DEF Entered
  <2>2. /\ Append(w, n) \in Seq(AllNames) /\ Len(Append(w, n)) = Len(w) + 1
        /\ Append(w, n)[Len(w) + 1] = n /\ \A k \in 1..Len(w) : Append(w, n)[k] = w[k]
    BY <1>0
  <2>3. \A k \in 1..Len(w)+1 : (k \in 1..Len(w) /\ \A j \in 1..k : j \in 1..Len(w)) \/ k = Len(w) + 1
    BY <1>0
  <2>4. ASSUME n = ".."
        PROVE  ~abs /\ \A j \in 1..Len(w)+1 : Append(w, n)[j] = ".."
    <3>1. w[Len(w)] = ".." /\ Len(w) \in 1..Len(w)
      BY <1>0, <1>4, <2>4 DEF Last
    <3> QED
      BY <2>2, <2>3, <2>4, <3>1 DEF Clean
  <2> QED
    BY <1>4, <2>1, <2>2, <2>3, <2>4 DEF Clean
<1> QED
  BY <1>1, <1>2, <1>3, <1>4

LEMMA WalkClean ==
    ASSUME NEW abs \in BOOLEAN, NEW s \in Seq(AllNames)
    PROVE  Clean(abs, Walk(abs, s))
<1> DEFINE T == {u \in Seq(AllNames) : Clean(abs, Walk(abs, u))}
<1>1. <<>> \in T
  <2>1. <<>> \in Seq(AllNames) /\ Clean(abs, <<>>)
    BY DEF Clean
  <2> QED
    BY <2>1, WalkNothing
<1>2. ASSUME NEW u \in Seq(AllNames), NEW n \in AllNames, u \in T
      PROVE  Append(u, n) \in T
  <2>1. Clean(abs, Entered(abs, Walk(abs, u), n))
    BY <1>2, EnteredClean
  <2>2. Append(u, n) \in Seq(AllNames)
    OBVIOUS
  <2> QED
    BY <2>1, <2>2, WalkOn
<1>3. s \in T
  <2> HIDE DEF T
  <2> QED
    BY <1>1, <1>2, ByPrefixes
<1> QED
  BY <1>3

LEMMA CleanStays ==
    ASSUME NEW abs \in BOOLEAN, NEW s, Clean(abs, s)
    PROVE  Walk(abs, s) = s
<1> DEFINE T == {u \in Seq(AllNames) : Clean(abs, u) => Walk(abs, u) = u}
<1>1. <<>> \in T
  <2>1. <<>> \in Seq(AllNames) /\ Walk(abs, <<>>) = <<>>
    BY WalkNothing
  <2> QED
    BY <2>1
<1>2. ASSUME NEW u \in Seq(AllNames), NEW n \in AllNames, u \in T
      PROVE  Append(u, n) \in T
  <2> SUFFICES ASSUME Clean(abs, Append(u, n))
               PROVE  Walk(abs, Append(u, n)) = Append(u, n)
    <3>1. Append(u, n) \in Seq(AllNames)
      OBVIOUS
    <3> QED
      BY <3>1
  <2> DEFINE r == Append(u, n)
  <2>1. /\ Len(u) \in Nat /\ Len(r) = Len(u) + 1
        /\ r[Len(u) + 1] = n /\ \A k \in 1..Len(u) : r[k] = u[k]
    OBVIOUS
  <2> HIDE DEF r
  <2>2. \A k \in 1..Len(u) : k \in 1..Len(u)+1 /\ \A j \in 1..k : j \in 1..Len(u)
    BY <2>1
  <2>3. Len(u) + 1 \in 1..Len(u)+1 /\ (Len(u) # 0 => Len(u) \in 1..Len(u) /\ Len(u) \in 1..Len(u)+1)
    BY <2>1
  <2>4. Clean(abs, u)
    BY <2>1, <2>2 DEF Clean, r
  <2>5. Walk(abs, r) = Entered(abs, u, n)
    BY <1>2, <2>4, WalkOn DEF r
  <2>6. n # "." /\ (n = ".." => ~abs /\ \A j \in 1..Len(u)+1 : r[j] = "..")
    BY <2>1, <2>3 DEF Clean, r
  <2>7. n = ".." /\ u # <<>> => Last(u) = ".."
    BY <2>1, <2>3, <2>6 DEF Last
  <2>8. u = <<>> => Append(u, n) = <<n>>
    OBVIOUS
  <2> QED
    BY <2>5, <2>6, <2>7, <2>8 DEF Entered, r
<1>3. s \in T
  <2> HIDE DEF T
  <2> QED
    BY <1>1, <1>2, ByPrefixes DEF Clean
<1> QED
  BY <1>3

(* A path may be made normal before the directory it is in is known. *)
LEMMA WalkLater ==
    ASSUME NEW b \in Seq(AllNames), NEW s \in Seq(AllNames)
    PROVE  Walk(TRUE, b \o Walk(FALSE, s)) = Walk(TRUE, b \o s)
<1> DEFINE T == {u \in Seq(AllNames) : Walk(TRUE, b \o Walk(FALSE, u)) = Walk(TRUE, b \o u)}
<1>1. <<>> \in T
  <2>1. <<>> \in Seq(AllNames) /\ Walk(FALSE, <<>>) = <<>>
    BY WalkNothing, EmptySeq, Zenon
  <2>2. \A u \in Seq(AllNames) : Walk(FALSE, u) = u => u \in T
    OBVIOUS
  <2> HIDE DEF T
  <2> QED
    BY <2>1, <2>2, Zenon
<1>2. ASSUME NEW u \in Seq(AllNames), NEW n \in AllNames, u \in T
      PROVE  Append(u, n) \in T
  <2> DEFINE w == Walk(FALSE, u)
  <2>1. w \in Seq(AllNames) /\ Clean(FALSE, w) /\ Walk(FALSE, Append(u, n)) = Entered(FALSE, w, n)
    BY WalkNames, WalkClean, WalkOn
  <2> HIDE DEF w
  <2>2. b \o Append(u, n) = Append(b \o u, n) /\ b \o u \in Seq(AllNames) /\ Append(u, n) \in Seq(AllNames)
    OBVIOUS
  <2>3. Walk(TRUE, b \o Append(u, n)) = Entered(TRUE, Walk(TRUE, b \o w), n)
    BY <1>2, <2>2, WalkOn DEF w
  <2> SUFFICES Walk(TRUE, b \o Entered(FALSE, w, n)) = Entered(TRUE, Walk(TRUE, b \o w), n)
    BY <2>1, <2>2, <2>3
  <2>4. ASSUME Entered(FALSE, w, n) = Append(w, n)
        PROVE  Walk(TRUE, b \o Entered(FALSE, w, n)) = Entered(TRUE, Walk(TRUE, b \o w), n)
    <3>1. b \o Append(w, n) = Append(b \o w, n) /\ b \o w \in Seq(AllNames)
      BY <2>1
    <3>2. Walk(TRUE, Append(b \o w, n)) = Entered(TRUE, Walk(TRUE, b \o w), n)
      BY <3>1, WalkOn
    <3> QED
      BY <2>4, <3>1, <3>2
  <2>5. CASE n = "."
    BY <2>5 DEF Entered
  <2>6. CASE n = ".." /\ w # <<>> /\ Last(w) # ".."
    <3> DEFINE v == SubSeq(w, 1, Len(w) - 1)
               x == w[Len(w)]
    <3>1. Len(w) \in Nat \ {0} /\ Len(w) \in 1..Len(w)
      BY <2>1, <2>6
    <3>2. v \in Seq(AllNames) /\ x \in AllNames /\ w = Append(v, x)
      BY <2>1, <3>1
    <3>3. x # ".." /\ x # "."
      BY <2>1, <2>6, <3>1 DEF Last, Clean
    <3>4. Entered(FALSE, w, n) = v
      BY <2>6 DEF Entered, Front
    <3> HIDE DEF v, x
    <3>5. b \o w = Append(b \o v, x) /\ b \o v \in Seq(AllNames)
      BY <3>2
    <3> DEFINE y == Walk(TRUE, b \o v)
    <3>6. y \in Seq(AllNames) /\ Walk(TRUE, b \o w) = Entered(TRUE, y, x)
      BY <3>2, <3>5, WalkOn, WalkNames, ZenonT(40)
    <3> HIDE DEF y
    <3>7. Entered(TRUE, y, x) = Append(y, x)
      BY <3>3 DEF Entered
    <3>8. Append(y, x) # <<>> /\ Last(Append(y, x)) = x /\ Front(Append(y, x)) = y
      <4> DEFINE r == Append(y, x)
      <4>1. r # <<>> /\ Len(r) = Len(y) + 1 /\ r[Len(y) + 1] = x /\ Len(y) \in Nat
        BY <3>2, <3>6, AppendProperties, LenProperties
      <4>2. SubSeq(r, 1, Len(y)) = y
        BY <3>2, <3>6
      <4> HIDE DEF r
      <4>3. Last(r) = x /\ Front(r) = SubSeq(r, 1, Len(y))
        BY <4>1 DEF Last, Front
      <4> QED
        BY <4>1, <4>2, <4>3 DEF r
    <3>9. Entered(TRUE, Append(y, x), n) = y
      BY <2>6, <3>3, <3>8 DEF Entered
    <3> QED
      BY <3>4, <3>6, <3>7, <3>9 DEF y
  <2>7. CASE n = ".." /\ w = <<>>
    <3>1. Append(w, n) = <<n>>
      BY <2>7
    <3> QED
      BY <2>4, <2>7, <3>1 DEF Entered
  <2>8. CASE n = ".." /\ w # <<>> /\ Last(w) = ".."
    BY <2>4, <2>8 DEF Entered
  <2>9. CASE n # "." /\ n # ".."
    BY <2>4, <2>9 DEF Entered
  <2> QED
    BY <2>5, <2>6, <2>7, <2>8, <2>9
<1>3. s \in T
  <2> HIDE DEF T
  <2> QED
    BY <1>1, <1>2, ByPrefixes
<1> QED
  BY <1>3

IsNormal(p) == p \in AllPaths /\ Clean(p.abs, p.names)

LEMMA PathIs ==
    ASSUME NEW p \in AllPaths
    PROVE  /\ p.abs \in BOOLEAN /\ p.names \in Seq(AllNames)
           /\ p = [abs |-> p.abs, names |-> p.names]
  BY DEF AllPaths

LEMMA PathsEqual ==
    ASSUME NEW p \in AllPaths, NEW q \in AllPaths, p.abs = q.abs, p.names = q.names
    PROVE  p = q
  BY PathIs

LEMMA NormalIs ==
    ASSUME NEW p \in AllPaths
    PROVE  /\ Normal(p) = [abs |-> p.abs, names |-> Walk(p.abs, p.names)]
           /\ Normal(p).abs = p.abs /\ Normal(p).names = Walk(p.abs, p.names)
           /\ IsNormal(Normal(p))
<1>1. p.abs \in BOOLEAN /\ p.names \in Seq(AllNames) /\ p = [abs |-> p.abs, names |-> p.names]
  BY PathIs
<1>2. Normal(p).names = Walk(p.abs, p.names)
  BY <1>1 DEF Walk
<1>3. Normal(p) = [abs |-> p.abs, names |-> Normal(p).names]
  BY DEF Normal
<1>4. Clean(p.abs, Walk(p.abs, p.names)) /\ Walk(p.abs, p.names) \in Seq(AllNames)
  BY <1>1, WalkClean, WalkNames
<1>5. Normal(p) = [abs |-> p.abs, names |-> Walk(p.abs, p.names)]
  BY <1>2, <1>3
<1>6. Normal(p) \in AllPaths /\ Normal(p).abs = p.abs
  BY <1>1, <1>4, <1>5 DEF AllPaths
<1> QED
  BY <1>2, <1>4, <1>5, <1>6 DEF IsNormal

LEMMA NormalStays ==
    ASSUME NEW p, IsNormal(p)
    PROVE  Normal(p) = p
<1>1. p \in AllPaths /\ Clean(p.abs, p.names)
  BY DEF IsNormal
<1>2. p.abs \in BOOLEAN /\ p = [abs |-> p.abs, names |-> p.names]
  BY <1>1, PathIs
<1>3. Walk(p.abs, p.names) = p.names
  BY <1>1, <1>2, CleanStays
<1> QED
  BY <1>1, <1>2, <1>3, NormalIs

LEMMA NoPathIsNormal == IsNormal(NoPath)
<1>1. NoPath \in AllPaths /\ NoPath.abs = FALSE /\ NoPath.names = <<>>
  BY DEF NoPath, AllPaths
<1> QED
  BY <1>1 DEF IsNormal, Clean

LEMMA AbsoluteIs ==
    ASSUME NEW s \in Seq(AllNames)
    PROVE  /\ Absolute(s) \in AllPaths /\ Absolute(s).abs = TRUE /\ Absolute(s).names = s
           /\ Normal(Absolute(s)) = Absolute(Walk(TRUE, s))
           /\ IsNormal(Normal(Absolute(s))) /\ Normal(Absolute(s)).abs = TRUE
<1>1. Absolute(s) \in AllPaths /\ Absolute(s).abs = TRUE /\ Absolute(s).names = s
  BY DEF Absolute, AllPaths
<1> QED
  BY <1>1, NormalIs DEF Absolute

(* Prefixes. *)
LEMMA PrefixIs ==
    ASSUME NEW S, NEW s \in Seq(S), NEW t \in Seq(S)
    PROVE  IsPrefix(s, t) <=> Len(s) <= Len(t) /\ \A k \in 1..Len(s) : s[k] = t[k]
<1> SUFFICES ASSUME Len(s) <= Len(t)
             PROVE  SubSeq(s, 1, Len(s)) = SubSeq(t, 1, Len(s)) <=> \A k \in 1..Len(s) : s[k] = t[k]
  BY DEF IsPrefix
<1> DEFINE n == Len(s)
           v == SubSeq(t, 1, n)
<1>1. SubSeq(s, 1, n) = s
  BY SubSeqFull
<1>2. n \in Nat /\ \A k \in 1..n : t[k] \in S
  BY LenProperties
<1> HIDE DEF n
<1>3. v \in Seq(S) /\ Len(v) = (IF 1 <= n THEN n - 1 + 1 ELSE 0) /\ \A k \in 1..n-1+1 : v[k] = t[1 + k - 1]
  BY <1>2, SubSeqProperties
<1>4. Len(v) = n /\ \A k \in 1..n : v[k] = t[k]
  BY <1>2, <1>3
<1> HIDE DEF v
<1>5. (\A k \in 1..n : s[k] = v[k]) => s = v
  BY <1>3, <1>4, SeqEqual DEF n
<1>6. s = v <=> \A k \in 1..n : s[k] = t[k]
  BY <1>4, <1>5
<1> QED
  BY <1>1, <1>6 DEF n, v

Begins(p, q) ==
    p.abs = q.abs /\ Len(q.names) <= Len(p.names)
    /\ \A k \in 1..Len(q.names) : p.names[k] = q.names[k]

LEMMA PrefixBegins ==
    ASSUME NEW p \in AllPaths, NEW q \in AllPaths, HasPrefix(p, q)
    PROVE  Begins(p, q) /\ (Len(p.names) = Len(q.names) => p = q) /\ (q.names = <<>> => p = q)
<1>1. /\ Len(p.names) \in Nat /\ Len(q.names) \in Nat
      /\ p.names \in Seq(AllNames) /\ q.names \in Seq(AllNames)
  BY PathIs
<1>2. CASE p = q
  BY <1>1, <1>2 DEF Begins
<1>3. CASE p # q
  <2>1. q.names # <<>> /\ p.abs = q.abs /\ IsPrefix(q.names, p.names) /\ q.names # p.names
    BY <1>3 DEF HasPrefix, IsStrictPrefix
  <2>2. Begins(p, q)
    BY <1>1, <2>1, PrefixIs DEF Begins
  <2>3. Len(p.names) # Len(q.names)
    BY <1>1, <2>1, <2>2, SeqEqual DEF Begins
  <2> QED
    BY <2>1, <2>2, <2>3
<1> QED
  BY <1>2, <1>3

LEMMA BeginsPrefix ==
    ASSUME NEW p \in AllPaths, NEW q \in AllPaths, Begins(p, q), q.names # <<>> \/ p = q
    PROVE  HasPrefix(p, q)
<1>1. p.names \in Seq(AllNames) /\ q.names \in Seq(AllNames)
  BY PathIs
<1>2. IsPrefix(q.names, p.names)
  BY <1>1, PrefixIs DEF Begins
<1>3. p.names = q.names => p = q
  BY PathsEqual DEF Begins
<1> QED
  BY <1>2, <1>3 DEF HasPrefix, IsStrictPrefix, Begins

Around(p) == {m \in Mappings : HasPrefix(p, m.observed)}
First(p) == CHOOSE m \in Around(p) : \A n \in Around(p) : ~MoreSpecific(n, m)
Inner(p) == CHOOSE m \in Around(p) : \A n \in Around(p) : HasPrefix(m.observed, n.observed)

LEMMA AroundPath ==
    ASSUME NEW p \in AllPaths, NEW m \in Around(p)
    PROVE  /\ m \in Mappings /\ m.observed \in AllPaths /\ Begins(p, m.observed)
           /\ Len(m.observed.names) \in Nat /\ Len(m.observed.names) <= Len(p.names)
           /\ p.abs = TRUE
<1>1. m \in Mappings /\ HasPrefix(p, m.observed) /\ m.observed \in AllPaths /\ m.observed.abs
  BY ReadingAssumption DEF Around
<1>2. m.observed.abs = TRUE /\ Len(m.observed.names) \in Nat
  BY <1>1, PathIs
<1>3. Begins(p, m.observed)
  BY <1>1, PrefixBegins
<1> QED
  BY <1>1, <1>2, <1>3 DEF Begins

LEMMA FirstIsThere ==
    ASSUME NEW p \in AllPaths, Around(p) # {}
    PROVE  First(p) \in Around(p) /\ \A n \in Around(p) : ~MoreSpecific(n, First(p))
<1> DEFINE left(m) == Len(p.names) - Len(m.observed.names)
           T == {left(m) : m \in Around(p)}
<1>0. Len(p.names) \in Nat
  BY PathIs
<1>1. T \subseteq Nat /\ T # {}
  <2>1. ASSUME NEW m \in Around(p)
        PROVE  left(m) \in Nat
    <3>1. Len(m.observed.names) \in Nat /\ Len(m.observed.names) <= Len(p.names)
      BY AroundPath
    <3> QED
      BY <1>0, <3>1
  <2> QED
    BY <2>1
<1>2. PICK d \in T : \A x \in T : d <= x
  <2> HIDE DEF T
  <2> QED
    BY <1>1, Least
<1>3. PICK m \in Around(p) : d = left(m)
  BY <1>2
<1>4. \A n \in Around(p) : ~MoreSpecific(n, m)
  <2> SUFFICES ASSUME NEW n \in Around(p), Len(n.observed.names) > Len(m.observed.names)
               PROVE  FALSE
    BY DEF MoreSpecific
  <2>1. left(n) \in T
    BY Zenon
  <2>2. Len(n.observed.names) \in Nat /\ Len(m.observed.names) \in Nat
    BY AroundPath
  <2>3. d <= left(n)
    BY <1>2, <2>1, Zenon
  <2> QED
    BY <1>0, <1>3, <2>2, <2>3
<1> HIDE DEF T
<1> QED
  BY <1>4, Zenon DEF First

(* The longest prefix is that of the innermost directory. *)
LEMMA FirstIsInner ==
    ASSUME OneMappingEach, NEW p \in AllPaths, Around(p) # {}
    PROVE  First(p) = Inner(p)
<1> DEFINE f == First(p)
<1>1. f \in Around(p) /\ \A n \in Around(p) : ~MoreSpecific(n, f)
  BY FirstIsThere
<1> HIDE DEF f
<1>2. \A n \in Around(p) : HasPrefix(f.observed, n.observed)
  <2> SUFFICES ASSUME NEW n \in Around(p)
               PROVE  HasPrefix(f.observed, n.observed)
    OBVIOUS
  <2>1. /\ f.observed \in AllPaths /\ Begins(p, f.observed) /\ Len(f.observed.names) \in Nat
        /\ n.observed \in AllPaths /\ Begins(p, n.observed) /\ Len(n.observed.names) \in Nat
    BY <1>1, AroundPath
  <2>2. Len(n.observed.names) <= Len(f.observed.names)
    BY <1>1, <2>1 DEF MoreSpecific
  <2>3. Begins(f.observed, n.observed)
    BY <2>1, <2>2 DEF Begins
  <2>4. ASSUME n.observed.names = <<>>
        PROVE  f.observed = n.observed
    <3>1. p = n.observed
      BY <2>1, <2>4, PrefixBegins DEF Around
    <3>2. Len(n.observed.names) = 0
      BY <2>4
    <3>3. Len(f.observed.names) = Len(p.names)
      BY <2>1, <2>2, <3>1, <3>2 DEF Begins
    <3> QED
      BY <1>1, <2>1, <3>1, <3>3, PrefixBegins DEF Around
  <2> QED
    BY <2>1, <2>3, <2>4, BeginsPrefix
<1> DEFINE i == Inner(p)
<1>3. i \in Around(p) /\ \A n \in Around(p) : HasPrefix(i.observed, n.observed)
  BY <1>1, <1>2, Zenon DEF Inner
<1> HIDE DEF i
<1>4. HasPrefix(f.observed, i.observed) /\ HasPrefix(i.observed, f.observed)
  BY <1>1, <1>2, <1>3
<1>5. /\ f.observed \in AllPaths /\ Len(f.observed.names) \in Nat /\ f \in Mappings
      /\ i.observed \in AllPaths /\ Len(i.observed.names) \in Nat /\ i \in Mappings
  BY <1>1, <1>3, AroundPath
<1>6. Len(f.observed.names) = Len(i.observed.names)
  BY <1>4, <1>5, PrefixBegins DEF Begins
<1>7. f.observed = i.observed
  BY <1>4, <1>5, <1>6, PrefixBegins
<1> QED
  BY <1>5, <1>7 DEF OneMappingEach, f, i

Rest(p, m) == SubSeq(p.names, Len(m.observed.names) + 1, Len(p.names))

LEMMA RestIsNames ==
    ASSUME NEW p \in AllPaths, NEW m \in Around(p)
    PROVE  Rest(p, m) \in Seq(AllNames)
<1> DEFINE a == Len(m.observed.names) + 1
           b == Len(p.names)
<1>1. a \in Int /\ b \in Int /\ \A k \in a..b : p.names[k] \in AllNames
  <2>1. p.names \in Seq(AllNames) /\ Len(m.observed.names) \in Nat
    BY PathIs, AroundPath
  <2> QED
    BY <2>1
<1> HIDE DEF a, b
<1>2. SubSeq(p.names, a, b) \in Seq(AllNames)
  BY <1>1, SubSeqProperties
<1> QED
  BY <1>2 DEF Rest, a, b

LEMMA LocalIsNormal ==
    ASSUME NEW m \in Mappings
    PROVE  m.local \in AllPaths /\ m.local.abs /\ IsNormal(m.local)
<1>1. m.local \in AllPaths /\ m.local.abs /\ Normal(m.local) = m.local
  BY ReadingAssumption
<1> QED
  BY <1>1, NormalIs

LEMMA RemapIs ==
    ASSUME NEW path \in AllPaths, path # NoPath
    PROVE  Remap(path) =
              IF Around(Normal(path)) = {} THEN Normal(path)
              ELSE IF Rest(Normal(path), First(Normal(path))) = <<>> THEN First(Normal(path)).local
              ELSE Normal(Absolute(First(Normal(path)).local.names
                                   \o Rest(Normal(path), First(Normal(path)))))
<1> DEFINE p == Normal(path)
<1>1. Remap(path) = IF path = NoPath \/ Around(p) = {} THEN p
                    ELSE IF Rest(p, First(p)) = <<>> THEN First(p).local
                    ELSE Normal(Absolute(First(p).local.names \o Rest(p, First(p))))
  BY DEF Remap, Around, First, Rest
<1> HIDE DEF p
<1>2. Remap(path) = IF Around(p) = {} THEN p
                    ELSE IF Rest(p, First(p)) = <<>> THEN First(p).local
                    ELSE Normal(Absolute(First(p).local.names \o Rest(p, First(p))))
  BY <1>1
<1> QED
  BY <1>2 DEF p

LEMMA RemapAbsolute ==
    ASSUME NEW path \in AllPaths, path.abs = TRUE
    PROVE  IsNormal(Remap(path)) /\ Remap(path).abs = TRUE
<1> DEFINE p == Normal(path)
           f == First(p)
<1>0. path # NoPath /\ p \in AllPaths /\ p.abs = TRUE /\ IsNormal(p)
  BY NormalIs DEF NoPath, IsNormal
<1> HIDE DEF p
<1>1. Remap(path) = IF Around(p) = {} THEN p
                    ELSE IF Rest(p, f) = <<>> THEN f.local
                    ELSE Normal(Absolute(f.local.names \o Rest(p, f)))
  BY <1>0, RemapIs DEF p
<1>2. CASE Around(p) = {}
  BY <1>0, <1>1, <1>2
<1>3. CASE Around(p) # {}
  <2>1. f \in Around(p) /\ f \in Mappings
    BY <1>0, <1>3, FirstIsThere, AroundPath
  <2> HIDE DEF f
  <2>2. f.local.abs /\ IsNormal(f.local) /\ f.local \in AllPaths
    BY <2>1, LocalIsNormal
  <2>3. f.local.names \in Seq(AllNames) /\ Rest(p, f) \in Seq(AllNames) /\ f.local.abs = TRUE
    BY <1>0, <2>1, <2>2, RestIsNames, PathIs
  <2>4. f.local.names \o Rest(p, f) \in Seq(AllNames)
    BY <2>3
  <2>5. IsNormal(Normal(Absolute(f.local.names \o Rest(p, f))))
        /\ Normal(Absolute(f.local.names \o Rest(p, f))).abs = TRUE
    BY <2>4, AbsoluteIs
  <2> QED
    BY <1>1, <1>3, <2>2, <2>3, <2>5
<1> QED
  BY <1>2, <1>3

LEMMA RemapRelative ==
    ASSUME NEW path \in AllPaths, path.abs = FALSE
    PROVE  Remap(path) = Normal(path) /\ IsNormal(Remap(path)) /\ Remap(path).abs = FALSE
<1>1. Normal(path) \in AllPaths /\ Normal(path).abs = FALSE /\ IsNormal(Normal(path))
  BY NormalIs DEF IsNormal
<1>2. Around(Normal(path)) = {}
  BY <1>1, AroundPath
<1>3. Remap(path) = Normal(path)
  BY <1>2, RemapIs DEF Remap
<1> QED
  BY <1>1, <1>3

-----------------------------------------------------------------------------
(* Lines of the trace. *)

IsLine(l) ==
    /\ l.path \in AllPaths /\ l.cwd \in Seq(AllNames)
    /\ l.is \in {"openat", "creat", "execve"} /\ l.flags \in {"O_CREAT", "other", "cut"}

LEMMA LinesAre ==
    ASSUME NEW t \in Traces
    PROVE  /\ Len(t) \in Nat /\ DOMAIN t = 1..Len(t)
           /\ \A l \in ToSet(t) : IsLine(l)
           /\ \A k \in 1..Len(t) : t[k] \in ToSet(t)
           /\ \A l \in ToSet(t) : \E k \in 1..Len(t) : l = t[k]
<1>1. t \in Seq(ToSet(t))
  BY ReadingAssumption
<1>2. Len(t) \in Nat /\ DOMAIN t = 1..Len(t)
  BY <1>1
<1>3. \A l \in ToSet(t) : IsLine(l)
  BY ReadingAssumption DEF IsLine
<1> QED
  BY <1>2, <1>3 DEF ToSet

(* Where the path of a line leads, before any mapping. *)
Spot(l) == IF l.path.abs THEN Normal(l.path) ELSE Normal(Absolute(l.cwd \o l.path.names))

LEMMA SpotIs ==
    ASSUME NEW l, IsLine(l)
    PROVE  Spot(l) \in AllPaths /\ Spot(l).abs = TRUE /\ IsNormal(Spot(l))
<1>1. l.path \in AllPaths /\ l.path.abs \in BOOLEAN /\ l.path.names \in Seq(AllNames)
  BY PathIs DEF IsLine
<1>2. l.cwd \o l.path.names \in Seq(AllNames)
  BY <1>1 DEF IsLine
<1>3. CASE l.path.abs = TRUE
  <2>1. Spot(l) = Normal(l.path)
    BY <1>3 DEF Spot
  <2> QED
    BY <1>1, <1>3, <2>1, NormalIs DEF IsNormal
<1>4. CASE l.path.abs = FALSE
  <2>1. Spot(l) = Normal(Absolute(l.cwd \o l.path.names))
    BY <1>4 DEF Spot
  <2> QED
    BY <1>2, <2>1, AbsoluteIs DEF IsNormal
<1> QED
  BY <1>1, <1>3, <1>4

LEMMA NamedIs ==
    ASSUME NEW l
    PROVE  Named(l) = IF Around(Spot(l)) = {} THEN Spot(l)
                      ELSE Normal(Absolute(Inner(Spot(l)).local.names \o Rest(Spot(l), Inner(Spot(l)))))
  BY DEF Named, Spot, Around, Inner, Rest

LEMMA NamedIsPath ==
    ASSUME OneMappingEach, NEW l, IsLine(l)
    PROVE  Named(l) \in AllPaths /\ Named(l).abs = TRUE /\ IsNormal(Named(l)) /\ Named(l) # NoPath
<1> DEFINE p == Spot(l)
           i == Inner(p)
<1>1. p \in AllPaths /\ p.abs = TRUE /\ IsNormal(p)
  BY SpotIs
<1>2. Named(l) = IF Around(p) = {} THEN p ELSE Normal(Absolute(i.local.names \o Rest(p, i)))
  BY NamedIs
<1> HIDE DEF p
<1>3. ASSUME Around(p) # {}
      PROVE  Named(l) \in AllPaths /\ Named(l).abs = TRUE /\ IsNormal(Named(l))
  <2>1. i \in Around(p) /\ i \in Mappings
    BY <1>1, <1>3, FirstIsInner, FirstIsThere, AroundPath
  <2> HIDE DEF i
  <2>2. i.local.names \in Seq(AllNames) /\ Rest(p, i) \in Seq(AllNames)
    BY <1>1, <2>1, LocalIsNormal, RestIsNames, PathIs
  <2>3. i.local.names \o Rest(p, i) \in Seq(AllNames)
    BY <2>2
  <2> QED
    BY <1>2, <1>3, <2>3, AbsoluteIs DEF IsNormal
<1>4. NoPath.abs = FALSE
  BY DEF NoPath
<1> QED
  BY <1>1, <1>2, <1>3, <1>4

(* An absolute path is mapped to the file it names. *)
LEMMA HereIsNamed ==
    ASSUME OneMappingEach, NEW l, IsLine(l), l.path.abs = TRUE
    PROVE  Remap(l.path) = Named(l)
<1> DEFINE p == Spot(l)
           i == Inner(p)
<1>1. p \in AllPaths /\ p.abs = TRUE /\ IsNormal(p) /\ p = Normal(l.path)
  BY SpotIs DEF Spot
<1>2. Named(l) = IF Around(p) = {} THEN p ELSE Normal(Absolute(i.local.names \o Rest(p, i)))
  BY NamedIs
<1>3. l.path \in AllPaths /\ l.path # NoPath
  BY DEF NoPath, IsLine
<1>4. Remap(l.path) = IF Around(p) = {} THEN p
                      ELSE IF Rest(p, First(p)) = <<>> THEN First(p).local
                      ELSE Normal(Absolute(First(p).local.names \o Rest(p, First(p))))
  BY <1>1, <1>3, RemapIs
<1> HIDE DEF p
<1>5. CASE Around(p) # {}
  <2>1. First(p) = i /\ i \in Mappings
    BY <1>1, <1>5, FirstIsInner, FirstIsThere, AroundPath
  <2> HIDE DEF i
  <2>2. i.local \in AllPaths /\ i.local.abs = TRUE /\ IsNormal(i.local)
    <3>1. i.local \in AllPaths /\ i.local.abs /\ IsNormal(i.local)
      BY <2>1, LocalIsNormal
    <3> QED
      BY <3>1, PathIs
  <2>3. i.local.names \in Seq(AllNames) /\ Absolute(i.local.names) = i.local
    BY <2>2, PathIs DEF Absolute
  <2>4. ASSUME Rest(p, i) = <<>>
        PROVE  Normal(Absolute(i.local.names \o Rest(p, i))) = i.local
    <3>1. i.local.names \o Rest(p, i) = i.local.names
      BY <2>3, <2>4, ConcatEmptySeq
    <3> QED
      BY <2>2, <2>3, <3>1, NormalStays
  <2> QED
    BY <1>2, <1>4, <1>5, <2>1, <2>4
<1> QED
  BY <1>2, <1>4, <1>5

LEMMA FileIs ==
    ASSUME NEW p \in AllPaths
    PROVE  /\ File(p) \in AllPaths /\ File(p).abs = TRUE /\ File(File(p)) = File(p)
           /\ p.abs = TRUE => File(p) = p
           /\ p.abs = FALSE => File(p) = Normal(Absolute(BuildPath \o p.names))
<1>1. p.abs \in BOOLEAN /\ p.names \in Seq(AllNames) /\ BuildPath \in Seq(AllNames)
  BY PathIs, ReadingAssumption
<1>2. p.abs = TRUE => File(p) = p
  BY DEF File
<1>3. p.abs = FALSE => File(p) = Normal(Absolute(BuildPath \o p.names))
  BY DEF File
<1>4. BuildPath \o p.names \in Seq(AllNames)
  BY <1>1
<1>5. File(p) \in AllPaths /\ File(p).abs = TRUE
  BY <1>1, <1>2, <1>3, <1>4, AbsoluteIs DEF IsNormal
<1>6. File(File(p)) = File(p)
  BY <1>5 DEF File
<1> QED
  BY <1>2, <1>3, <1>5, <1>6

(* A relative path that stays in the directory it is looked up in. *)
Inside(p) == IsNormal(p) /\ p.abs = FALSE /\ p # NoPath /\ ".." \notin ToSet(p.names)

LEMMA InsideFile ==
    ASSUME NEW p, Inside(p)
    PROVE  /\ File(p) = Absolute(BuildPath \o p.names)
           /\ p.names # <<>> /\ BuildPath \o p.names \in Seq(AllNames)
<1> DEFINE b == BuildPath
           w == b \o p.names
<1>1. /\ p \in AllPaths /\ p.names \in Seq(AllNames) /\ p.abs = FALSE /\ Clean(FALSE, p.names)
      /\ p = [abs |-> p.abs, names |-> p.names]
  BY PathIs DEF Inside, IsNormal
<1>2. p.names # <<>>
  BY <1>1 DEF Inside, NoPath
<1>3. b \in Seq(AllNames) /\ Clean(TRUE, b)
  <2>1. b \in Seq(AllNames) /\ Normal(Absolute(b)) = Absolute(b)
    BY ReadingAssumption
  <2>2. IsNormal(Absolute(b)) /\ Absolute(b).abs = TRUE /\ Absolute(b).names = b
    BY <2>1, AbsoluteIs
  <2> QED
    BY <2>1, <2>2 DEF IsNormal
<1>4. /\ w \in Seq(AllNames) /\ Len(w) = Len(b) + Len(p.names)
      /\ \A k \in 1..Len(w) : w[k] = IF k <= Len(b) THEN b[k] ELSE p.names[k - Len(b)]
      /\ Len(b) \in Nat /\ Len(p.names) \in Nat
  BY <1>1, <1>3, ConcatProperties, LenProperties
<1>5. \A k \in 1..Len(p.names) : p.names[k] # "." /\ p.names[k] # ".."
  BY <1>1 DEF Clean, Inside, ToSet
<1>6. \A k \in 1..Len(b) : b[k] # "." /\ b[k] # ".."
  BY <1>3 DEF Clean
<1>7. \A k \in 1..Len(w) : w[k] # "." /\ w[k] # ".."
  <2> SUFFICES ASSUME NEW k \in 1..Len(w)
               PROVE  w[k] # "." /\ w[k] # ".."
    OBVIOUS
  <2>1. (k <= Len(b) => k \in 1..Len(b)) /\ (~(k <= Len(b)) => k - Len(b) \in 1..Len(p.names))
    BY <1>4
  <2> HIDE DEF w, b
  <2> QED
    BY <1>4, <1>5, <1>6, <2>1
<1> HIDE DEF w, b
<1>8. Clean(TRUE, w)
  BY <1>4, <1>7 DEF Clean
<1>9. Normal(Absolute(w)) = Absolute(w)
  BY <1>4, <1>8, AbsoluteIs, CleanStays
<1> QED
  BY <1>1, <1>2, <1>4, <1>9, FileIs DEF w, b

LEMMA InsideNames ==
    ASSUME NEW p, Inside(p)
    PROVE  /\ File(p) \in AllPaths /\ File(p).names \in Seq(AllNames) /\ p.names \in Seq(AllNames)
           /\ Len(BuildPath) \in Nat \ {0} /\ Len(p.names) \in Nat \ {0}
           /\ Len(File(p).names) = Len(BuildPath) + Len(p.names)
           /\ \A k \in 1..Len(BuildPath) : File(p).names[k] = BuildPath[k]
           /\ \A k \in 1..Len(p.names) : File(p).names[Len(BuildPath) + k] = p.names[k]
<1> DEFINE b == BuildPath
           w == b \o p.names
<1>1. b \in Seq(AllNames) /\ b # <<>> /\ p.names \in Seq(AllNames) /\ p \in AllPaths
  BY ReadingAssumption, PathIs DEF Inside, IsNormal
<1>2. File(p) = Absolute(w) /\ p.names # <<>> /\ w \in Seq(AllNames)
  BY InsideFile
<1>3. File(p).names = w /\ File(p) \in AllPaths
  BY <1>2, AbsoluteIs
<1>4. /\ Len(w) = Len(b) + Len(p.names)
      /\ \A k \in 1..Len(b)+Len(p.names) : w[k] = IF k <= Len(b) THEN b[k] ELSE p.names[k - Len(b)]
      /\ Len(b) \in Nat \ {0} /\ Len(p.names) \in Nat \ {0}
  BY <1>1, <1>2, ConcatProperties, EmptySeq
<1> HIDE DEF w, b
<1>5. \A k \in 1..Len(b) : w[k] = b[k]
  BY <1>4
<1>6. \A k \in 1..Len(p.names) : w[Len(b) + k] = p.names[k]
  <2> SUFFICES ASSUME NEW k \in 1..Len(p.names)
               PROVE  w[Len(b) + k] = p.names[k]
    OBVIOUS
  <2>1. Len(b) + k \in 1..Len(b)+Len(p.names) /\ ~(Len(b) + k <= Len(b)) /\ Len(b) + k - Len(b) = k
    BY <1>4
  <2> QED
    BY <1>4, <2>1
<1> QED
  BY <1>1, <1>2, <1>3, <1>4, <1>5, <1>6 DEF b

(* What is ignored and shown. *)

LEMMA BuildPathIs ==
    BuildPath \in Seq(AllNames) /\ Len(BuildPath) \in Nat \ {0}
  BY ReadingAssumption, EmptySeq

(* Of files the patterns mean what they look for. *)
LEMMA TemporaryFile ==
    ASSUME PatternsFit, NEW f \in AllPaths, f \in DOMAIN FilesAtEnd
    PROVE  IgnoredArtifact(f) <=> IsTemporary(f)
<1>1. f.names \in Seq(AllNames) /\ BuildPath \in Seq(AllNames) /\ 1 \in 1..Len(BuildPath)
  BY PathIs, BuildPathIs
<1>2. InBuild(f) => f.names[1] = BuildPath[1]
  BY <1>1, PrefixIs DEF InBuild
<1>3. InSystemDir(f) <=> InSystemDir(f) /\ ~InBuild(f)
  BY <1>2 DEF InSystemDir, PatternsFit
<1>4. IgnoredFile(f) <=> InSystemDir(f)
  BY DEF PatternsFit
<1> QED
  BY <1>3, <1>4 DEF IgnoredArtifact, IsTemporary

LEMMA KindInside ==
    ASSUME NEW p, Inside(p)
    PROVE  KindOf(p) = KindOf(File(p))
<1>1. p # NoPath /\ File(p) # NoPath
  <2>1. File(p).abs = TRUE /\ NoPath.abs = FALSE
    BY InsideNames, FileIs DEF Inside, IsNormal, NoPath
  <2> QED
    BY <2>1 DEF Inside
<1>2. Last(p.names) = Last(File(p).names)
  <2>1. Len(p.names) \in 1..Len(p.names) /\ Len(File(p).names) = Len(BuildPath) + Len(p.names)
    BY InsideNames
  <2> QED
    BY <2>1, InsideNames DEF Last
<1> QED
  BY <1>1, <1>2 DEF KindOf

LEMMA TemporaryInside ==
    ASSUME PatternsFit, NEW p, Inside(p), File(p) \in DOMAIN FilesAtEnd
    PROVE  IgnoredArtifact(p) <=> IsTemporary(File(p))
<1> DEFINE f == File(p)
           b == Len(BuildPath)
           n == Len(p.names)
<1>1. /\ f \in AllPaths /\ f.abs = TRUE /\ f.names \in Seq(AllNames)
      /\ b \in Nat \ {0} /\ n \in Nat \ {0} /\ Len(f.names) = b + n
      /\ \A k \in 1..b : f.names[k] = BuildPath[k]
      /\ \A k \in 1..n : f.names[b + k] = p.names[k]
      /\ p.names \in Seq(AllNames)
  BY InsideNames, FileIs DEF Inside, IsNormal
<1>2. IgnoredArtifact(f) <=> IsTemporary(f)
  BY <1>1, TemporaryFile
<1>3. KindOf(p) = KindOf(f)
  BY KindInside
<1>4. ~IgnoredFile(f)
  <2>1. f.names[1] = BuildPath[1] /\ 1 \in 1..b
    BY <1>1
  <2> QED
    BY <2>1 DEF PatternsFit, InSystemDir
<1> HIDE DEF f
<1>5. ToSet(BuildPath) = {BuildPath[k] : k \in 1..b} /\ ToSet(p.names) = {p.names[k] : k \in 1..n}
      /\ ToSet(f.names) = {f.names[k] : k \in 1..b+n}
  <2>1. DOMAIN BuildPath = 1..b /\ DOMAIN p.names = 1..n /\ DOMAIN f.names = 1..b+n
    BY <1>1, BuildPathIs, LenProperties
  <2> QED
    BY <2>1 DEF ToSet
<1> HIDE DEF b, n
<1>6. \A k \in 1..b+n : k \in 1..b \/ (k - b \in 1..n /\ k = b + (k - b))
  BY <1>1
<1>7. \A k \in 1..n : b + k \in 1..b+n
  BY <1>1
<1>8. \A k \in 1..b : k \in 1..b+n
  BY <1>1
<1>9. ToSet(f.names) = ToSet(BuildPath) \cup ToSet(p.names)
  <2>1. ASSUME NEW k \in 1..b+n
        PROVE  f.names[k] \in ToSet(BuildPath) \cup ToSet(p.names)
    <3>1. CASE k \in 1..b
      BY <1>1, <1>5, <3>1
    <3>2. CASE k - b \in 1..n /\ k = b + (k - b)
      BY <1>1, <1>5, <3>2
    <3> QED
      BY <1>6, <3>1, <3>2
  <2>2. \A x \in ToSet(BuildPath) : x \in ToSet(f.names)
    BY <1>1, <1>5, <1>8
  <2>3. \A x \in ToSet(p.names) : x \in ToSet(f.names)
    BY <1>1, <1>5, <1>7
  <2> QED
    BY <1>5, <2>1, <2>2, <2>3
<1>10. HasDirIn(p, CMakeDirs) <=> HasDirIn(f, CMakeDirs)
  <2>1. ASSUME NEW k \in 1..n-1, p.names[k] \in CMakeDirs
        PROVE  HasDirIn(f, CMakeDirs)
    <3>1. b + k \in 1..b+n-1 /\ f.names[b + k] = p.names[k]
      BY <1>1
    <3> QED
      BY <1>1, <2>1, <3>1 DEF HasDirIn
  <2>2. ASSUME NEW k \in 1..b+n-1, f.names[k] \in CMakeDirs
        PROVE  HasDirIn(p, CMakeDirs)
    <3>1. k \notin 1..b
      BY <1>1, <1>5, <2>2 DEF PatternsFit
    <3>2. k - b \in 1..n-1 /\ k - b \in 1..n /\ k = b + (k - b)
      BY <1>1, <3>1
    <3>3. p.names[k - b] \in CMakeDirs
      BY <1>1, <2>2, <3>2
    <3> QED
      BY <3>2, <3>3 DEF HasDirIn, n
  <2>3. HasDirIn(p, CMakeDirs) <=> \E k \in 1..n-1 : p.names[k] \in CMakeDirs
    BY DEF HasDirIn, n
  <2>4. HasDirIn(f, CMakeDirs) <=> \E k \in 1..b+n-1 : f.names[k] \in CMakeDirs
    BY <1>1 DEF HasDirIn
  <2> QED
    BY <2>1, <2>2, <2>3, <2>4
<1>11. ToSet(p.names) \cap TempNames = {} <=> ToSet(f.names) \cap TempNames = {}
  BY <1>9 DEF PatternsFit
<1>12. ~IgnoredFile(p)
  <2> SUFFICES ASSUME IgnoredFile(p)
               PROVE  IgnoredFile(f)
    BY <1>4
  <2>1. CASE ToSet(p.names) \cap IgnoredNames # {}
    BY <1>9, <2>1 DEF IgnoredFile
  <2>2. ASSUME NEW k \in 1..n-1, p.names[k] \in IgnoredDirs
        PROVE  IgnoredFile(f)
    <3>1. b + k \in 1..Len(f.names)-1 /\ f.names[b + k] = p.names[k]
      BY <1>1
    <3>2. AfterSlash(f, b + k)
      BY <1>1 DEF AfterSlash
    <3> QED
      BY <2>2, <3>1, <3>2 DEF IgnoredFile
  <2> QED
    BY <2>1, <2>2 DEF IgnoredFile, n
<1> QED
  BY <1>2, <1>3, <1>4, <1>10, <1>11, <1>12 DEF IgnoredArtifact, f

(* Different files are shown differently. *)
LEMMA DisplayApart ==
    ASSUME NEW p \in AllPaths, NEW q \in AllPaths, Display(p) = Display(q)
    PROVE  File(p) = File(q)
<1> DEFINE b == Len(BuildPath)
           f == File(p).names
           g == File(q).names
           fRest == SubSeq(f, b + 1, Len(f))
           gRest == SubSeq(g, b + 1, Len(g))
           fShown == [abs |-> FALSE, names |-> fRest]
           gShown == [abs |-> FALSE, names |-> gRest]
<1>1. /\ File(p) \in AllPaths /\ File(q) \in AllPaths /\ File(p).abs = TRUE /\ File(q).abs = TRUE
      /\ f \in Seq(AllNames) /\ g \in Seq(AllNames) /\ b \in Nat /\ BuildPath \in Seq(AllNames)
  BY FileIs, PathIs, BuildPathIs
<1>2. /\ Display(p) = IF IsPrefix(BuildPath, f) THEN fShown ELSE Absolute(f)
      /\ Display(q) = IF IsPrefix(BuildPath, g) THEN gShown ELSE Absolute(g)
  BY DEF Display
<1>0. fShown.abs = FALSE /\ fShown.names = fRest /\ gShown.abs = FALSE /\ gShown.names = gRest
  OBVIOUS
<1> SUFFICES f = g
  BY <1>1, PathsEqual
<1> HIDE DEF f, g, fRest, gRest, fShown, gShown
<1>3. Absolute(f).abs = TRUE /\ Absolute(g).abs = TRUE /\ Absolute(f).names = f /\ Absolute(g).names = g
  BY DEF Absolute
<1>4. CASE ~IsPrefix(BuildPath, f) \/ ~IsPrefix(BuildPath, g)
  BY <1>0, <1>2, <1>3, <1>4
<1>5. CASE IsPrefix(BuildPath, f) /\ IsPrefix(BuildPath, g)
  <2>1. fRest = gRest
    BY <1>0, <1>2, <1>5
  <2>2. /\ b <= Len(f) /\ \A k \in 1..b : BuildPath[k] = f[k]
        /\ b <= Len(g) /\ \A k \in 1..b : BuildPath[k] = g[k]
    BY <1>1, <1>5, PrefixIs DEF b
  <2> HIDE DEF b
  <2>3. Len(f) \in Nat /\ Len(g) \in Nat
    BY <1>1
  <2>4. Len(fRest) = Len(f) - b /\ \A k \in 1..Len(f)-b : fRest[k] = f[b + k]
    <3>1. \A k \in b+1..Len(f) : f[k] \in AllNames
      BY <1>1, <2>3
    <3>2. /\ Len(fRest) = IF b + 1 <= Len(f) THEN Len(f) - (b + 1) + 1 ELSE 0
          /\ \A k \in 1..Len(f)-(b+1)+1 : fRest[k] = f[b + 1 + k - 1]
      BY <1>1, <2>3, <3>1, SubSeqProperties DEF fRest
    <3> QED
      BY <1>1, <2>2, <2>3, <3>2
  <2>5. Len(gRest) = Len(g) - b /\ \A k \in 1..Len(g)-b : gRest[k] = g[b + k]
    <3>1. \A k \in b+1..Len(g) : g[k] \in AllNames
      BY <1>1, <2>3
    <3>2. /\ Len(gRest) = IF b + 1 <= Len(g) THEN Len(g) - (b + 1) + 1 ELSE 0
          /\ \A k \in 1..Len(g)-(b+1)+1 : gRest[k] = g[b + 1 + k - 1]
      BY <1>1, <2>3, <3>1, SubSeqProperties DEF gRest
    <3> QED
      BY <1>1, <2>2, <2>3, <3>2
  <2>6. Len(f) = Len(g)
    BY <1>1, <2>1, <2>3, <2>4, <2>5
  <2>7. ASSUME NEW k \in 1..Len(f)
        PROVE  f[k] = g[k]
    <3>1. CASE k \in 1..b
      BY <2>2, <3>1
    <3>2. CASE k \notin 1..b
      <4>1. k - b \in 1..Len(f)-b /\ k = b + (k - b)
        BY <1>1, <2>3, <3>2
      <4> QED
        BY <2>1, <2>4, <2>5, <2>6, <4>1
    <3> QED
      BY <3>1, <3>2
  <2> QED
    BY <1>1, <2>6, <2>7, SeqEqual
<1> QED
  BY <1>4, <1>5

LEMMA DisplayOfFile ==
    ASSUME NEW p \in AllPaths
    PROVE  Display(File(p)) = Display(p)
  BY FileIs DEF Display

-----------------------------------------------------------------------------
(* Paths that are kept are normal. *)

LEMMA ElementsOfAppend ==
    ASSUME NEW s, s \in Seq(ToSet(s)), NEW x
    PROVE  /\ Append(s, x) \in Seq(ToSet(Append(s, x))) /\ Len(Append(s, x)) = Len(s) + 1
           /\ ToSet(Append(s, x)) = ToSet(s) \cup {x}
<1> DEFINE S == ToSet(s) \cup {x}
           r == Append(s, x)
<1>1. s \in Seq(S) /\ x \in S
  <2>1. ToSet(s) \subseteq S
    OBVIOUS
  <2> QED
    BY <2>1, SeqMonotonic
<1>2. /\ r \in Seq(S) /\ Len(r) = Len(s) + 1 /\ Len(s) \in Nat
      /\ \A k \in 1..Len(s) : r[k] = s[k]
      /\ r[Len(s) + 1] = x /\ DOMAIN r = 1..Len(r) /\ DOMAIN s = 1..Len(s)
  <2> HIDE DEF S
  <2> QED
    BY <1>1, AppendProperties, LenProperties
<1> HIDE DEF r
<1>3. ToSet(r) = S
  <2>1. \A y \in ToSet(s) : y \in ToSet(r)
    BY <1>2 DEF ToSet
  <2>2. x \in ToSet(r)
    BY <1>2 DEF ToSet
  <2>3. \A k \in 1..Len(r) : r[k] \in S
    BY <1>2
  <2> QED
    BY <1>2, <2>1, <2>2, <2>3 DEF ToSet
<1> QED
  BY <1>2, <1>3 DEF r

KeptInv ==
    /\ trace \in Traces
    /\ DOMAIN fs \subseteq DOMAIN FilesAtEnd
    /\ pass \in DOMAIN After \cup {"process", "done"}
    /\ at \in 1..(Len(trace) + 1)
    /\ \A p \in Collected : IsNormal(p)
    /\ artifacts \in Seq(ToSet(artifacts))
    /\ \A a \in ToSet(artifacts) :
          a.type \in {"shared_library", "static_library", "executable"}

LEMMA Passes == DOMAIN After = {"libs", "headers", "execs", "created"}
  BY DEF After

LEMMA KeptInit == TRInit => KeptInv
<1> SUFFICES ASSUME TRInit
             PROVE  KeptInv
  OBVIOUS
<1>1. Len(trace) \in Nat /\ ToSet(artifacts) = {} /\ artifacts \in Seq(ToSet(artifacts))
  BY LinesAre DEF TRInit, ToSet
<1>2. Collected = {NoPath}
  BY DEF TRInit, Collected
<1> QED
  BY <1>1, <1>2, NoPathIsNormal, Passes DEF TRInit, KeptInv

LEMMA HereIs ==
    ASSUME trace \in Traces, at \in 1..(Len(trace) + 1), ~EndOfTrace
    PROVE  /\ at \in 1..Len(trace) /\ at + 1 \in 1..(Len(trace) + 1)
           /\ Line \in ToSet(trace) /\ IsLine(Line) /\ IsNormal(Here)
<1>1. at \in 1..Len(trace) /\ at + 1 \in 1..(Len(trace) + 1)
  BY LinesAre DEF EndOfTrace
<1>2. Line \in ToSet(trace) /\ IsLine(Line)
  BY <1>1, LinesAre DEF Line
<1>3. Line.path \in AllPaths /\ Line.path.abs \in BOOLEAN
  BY <1>2, PathIs DEF IsLine
<1> QED
  BY <1>1, <1>2, <1>3, RemapAbsolute, RemapRelative DEF Here

LEMMA KeptStep == KeptInv /\ [TRNext]_trVars => KeptInv'
<1> SUFFICES ASSUME KeptInv, [TRNext]_trVars
             PROVE  KeptInv'
  OBVIOUS
<1> USE DEF KeptInv
<1>1. CASE ReadLib
  <2>1. /\ at' \in 1..(Len(trace) + 1) /\ IsNormal(Here) /\ libs' \subseteq libs \cup {Here}
        /\ UNCHANGED <<trace, fs, pass, headers, execs, files, created, current, artifacts>>
    BY <1>1, HereIs DEF ReadLib, Reading
  <2> QED
    BY <2>1 DEF Collected
<1>2. CASE ReadHeader
  <2>1. /\ at' \in 1..(Len(trace) + 1) /\ IsNormal(Here) /\ headers' \subseteq headers \cup {Here}
        /\ UNCHANGED <<trace, fs, pass, libs, execs, files, created, current, artifacts>>
    BY <1>2, HereIs DEF ReadHeader, Reading
  <2> QED
    BY <2>1 DEF Collected
<1>3. CASE ReadExecutable
  <2>1. /\ at' \in 1..(Len(trace) + 1) /\ IsNormal(Here) /\ execs' \subseteq execs \cup {Here}
        /\ UNCHANGED <<trace, fs, pass, libs, headers, files, created, current, artifacts>>
    BY <1>3, HereIs DEF ReadExecutable, Reading
  <2> QED
    BY <2>1 DEF Collected
<1>4. CASE ReadCreated
  <2>1. /\ at' \in 1..(Len(trace) + 1) /\ IsNormal(Here) /\ created' \subseteq created \cup {Here}
        /\ UNCHANGED <<trace, fs, pass, libs, headers, execs, files, current, artifacts>>
    BY <1>4, HereIs DEF ReadCreated, Reading
  <2> QED
    BY <2>1 DEF Collected
<1>5. CASE NextPass
  <2>1. pass' \in {"headers", "execs", "created", "process"}
    BY <1>5, Passes DEF NextPass, After
  <2>2. at' \in 1..(Len(trace) + 1)
    BY <1>5, LinesAre DEF NextPass
  <2>3. /\ files' \subseteq Collected
        /\ UNCHANGED <<trace, fs, libs, headers, execs, created, current, artifacts>>
    BY <1>5 DEF NextPass, Collected
  <2> QED
    BY <2>1, <2>2, <2>3, Passes DEF Collected
<1>6. CASE CheckCreated
  <2>1. /\ created' \subseteq created /\ current' \in created \cup {NoPath}
        /\ UNCHANGED <<trace, fs, pass, at, libs, headers, execs, files, artifacts>>
    BY <1>6 DEF CheckCreated
  <2> QED
    BY <2>1, NoPathIsNormal DEF Collected
<1>7. CASE AddArtifact
  <2> DEFINE a == [path |-> Display(current), hash |-> Hash(current), type |-> ArtifactType(current)]
  <2>1. /\ artifacts' = Append(artifacts, a) /\ current' = NoPath
        /\ UNCHANGED <<trace, fs, pass, at, libs, headers, execs, files, created>>
    BY <1>7 DEF AddArtifact
  <2>2. a.type \in {"shared_library", "static_library", "executable"}
    BY DEF ArtifactType
  <2> HIDE DEF a
  <2>3. artifacts' \in Seq(ToSet(artifacts')) /\ ToSet(artifacts') = ToSet(artifacts) \cup {a}
    BY <2>1, ElementsOfAppend
  <2> QED
    BY <2>1, <2>2, <2>3, NoPathIsNormal DEF Collected
<1>8. CASE Finish
  <2>1. /\ pass' = "done"
        /\ UNCHANGED <<trace, fs, at, libs, headers, execs, files, created, current, artifacts>>
    BY <1>8 DEF Finish
  <2> QED
    BY <2>1 DEF Collected
<1>9. CASE Vanish
  <2>1. /\ DOMAIN fs' \subseteq DOMAIN fs
        /\ UNCHANGED <<trace, pass, at, libs, headers, execs, files, created, current, artifacts>>
    BY <1>9 DEF Vanish
  <2> QED
    BY <2>1 DEF Collected
<1>10. CASE UNCHANGED trVars
  BY <1>10 DEF trVars, Collected
<1> QED
  BY <1>1, <1>2, <1>3, <1>4, <1>5, <1>6, <1>7, <1>8, <1>9, <1>10 DEF TRNext

LEMMA KeptInductive == TRSpec => []KeptInv
  BY KeptInit, KeptStep, PTL DEF TRSpec

(* The variables of the reading of a trace stay in their types, and every  *)
(* path that is kept is normal, whatever paths the trace and the mappings   *)
(* have.                                                                   *)
THEOREM ReadingTypes == TRSpec => []TRTypeOK
<1>1. KeptInv => TRTypeOK
  <2> SUFFICES ASSUME KeptInv
               PROVE  TRTypeOK
    OBVIOUS
  <2>1. ASSUME NEW p \in Collected
        PROVE  Normal(p) = p /\ "." \notin ToSet(p.names) /\ (p.abs => ".." \notin ToSet(p.names))
    <3>1. IsNormal(p) /\ p \in AllPaths /\ Clean(p.abs, p.names)
      BY <2>1 DEF KeptInv, IsNormal
    <3>2. DOMAIN p.names = 1..Len(p.names)
      BY <3>1 DEF Clean
    <3> QED
      BY <3>1, <3>2, NormalStays DEF Clean, ToSet
  <2> QED
    BY <2>1 DEF KeptInv, TRTypeOK
<1> QED
  BY <1>1, KeptInductive, PTL

-----------------------------------------------------------------------------
(* Files only go away, and only those that may. *)

FsInv ==
    /\ DOMAIN fs \subseteq DOMAIN FilesAtEnd
    /\ \A f \in DOMAIN fs : fs[f] = FilesAtEnd[f]
    /\ DOMAIN FilesAtEnd \ Volatile \subseteq DOMAIN fs

LEMMA FsInit == TRInit => FsInv
  BY DEF TRInit, FsInv

LEMMA FsStep == FsInv /\ [TRNext]_trVars => FsInv'
<1> SUFFICES ASSUME FsInv, [TRNext]_trVars
             PROVE  FsInv'
  OBVIOUS
<1>1. CASE Vanish
  <2>1. PICK f \in Volatile : fs' = [q \in DOMAIN fs \ {f} |-> fs[q]]
    BY <1>1 DEF Vanish
  <2> QED
    BY <2>1 DEF FsInv
<1>2. CASE fs' = fs
  BY <1>2 DEF FsInv
<1>3. Vanish \/ fs' = fs
  BY DEF TRNext, trVars, ReadLib, ReadHeader, ReadExecutable, ReadCreated, NextPass, CheckCreated,
         AddArtifact, Finish
<1> QED
  BY <1>1, <1>2, <1>3

-----------------------------------------------------------------------------
(* Dependencies. *)

LibLine(l) ==
    /\ l.path # NoPath /\ l.is = "openat" /\ IsLib(Named(l)) /\ Named(l) \notin LoaderFiles
    /\ IsOutside(Named(l))
HeaderLine(l) ==
    l.path # NoPath /\ l.is = "openat" /\ KindOf(Named(l)) = "header" /\ IsOutside(Named(l))
ExecLine(l) ==
    /\ l.path # NoPath /\ l.is = "execve" /\ Named(l) \notin IgnoredExecs
    /\ IsOutside(Named(l))

LEMMA UsedOutsideIs ==
    UsedOutside = {Named(l) : l \in {x \in ToSet(trace) : LibLine(x) \/ HeaderLine(x) \/ ExecLine(x)}}
<1>1. \A l : l.path # NoPath /\ Uses(l) /\ IsOutside(Named(l)) <=> LibLine(l) \/ HeaderLine(l) \/ ExecLine(l)
  BY DEF Uses, LibLine, HeaderLine, ExecLine
<1> QED
  BY <1>1 DEF UsedOutside

LEMMA NothingThere == ~Exists(NoPath) /\ Remap(NoPath) = NoPath
  BY NoPathIsNormal, NormalStays DEF Exists, Remap

(* What a pass takes of a line is the file it names, if it is one of its    *)
(* files and still there.                                                  *)
LEMMA OpenedFile ==
    ASSUME OneMappingEach, RelativePathsAreHere, NEW t \in Traces, NEW l \in ToSet(t),
           l.is = "openat", l.path # NoPath
    PROVE  /\ Remap(l.path) = Named(l) /\ Remap(l.path).abs = TRUE /\ File(Remap(l.path)) = Named(l)
           /\ Remap(l.path) # NoPath
<1>1. IsLine(l) /\ l.path.abs \in BOOLEAN
  BY LinesAre, PathIs DEF IsLine
<1>2. l.path.abs = TRUE
  BY <1>1 DEF RelativePathsAreHere
<1>3. Remap(l.path) = Named(l) /\ Named(l) \in AllPaths /\ Named(l).abs = TRUE /\ Named(l) # NoPath
  BY <1>1, <1>2, HereIsNamed, NamedIsPath
<1> QED
  BY <1>3, FileIs

LEMMA LibTaken ==
    ASSUME OneMappingEach, PatternsFit, RelativePathsAreHere, FsInv, NEW t \in Traces, NEW l \in ToSet(t)
    PROVE  /\ l.is = "openat" /\ IsLib(Remap(l.path)) /\ Exists(Remap(l.path)) /\ ~IgnoredLib(Remap(l.path))
                <=> LibLine(l) /\ Named(l) \in DOMAIN fs
           /\ LibLine(l) => Remap(l.path) = Named(l)
<1>1. CASE l.path = NoPath \/ l.is # "openat"
  BY <1>1, NothingThere DEF LibLine
<1>2. CASE l.path # NoPath /\ l.is = "openat"
  <2> DEFINE f == Named(l)
  <2>1. Remap(l.path) = f /\ File(f) = f /\ f # NoPath
    BY <1>2, OpenedFile
  <2> HIDE DEF f
  <2>2. Exists(f) <=> f \in DOMAIN fs
    BY <2>1 DEF Exists
  <2>3. f \in DOMAIN fs => f \in DOMAIN FilesAtEnd
    BY DEF FsInv
  <2>4. f \in DOMAIN FilesAtEnd => (IgnoredLib(f) <=> f \in LoaderFiles \/ InBuild(f) \/ InSystemDir(f))
    BY DEF IgnoredLib, PatternsFit
  <2> QED
    BY <1>2, <2>1, <2>2, <2>3, <2>4 DEF LibLine, IsOutside, f
<1> QED
  BY <1>1, <1>2

LEMMA HeaderTaken ==
    ASSUME OneMappingEach, PatternsFit, RelativePathsAreHere, FsInv, NEW t \in Traces, NEW l \in ToSet(t)
    PROVE  /\ l.is = "openat" /\ KindOf(Remap(l.path)) = "header" /\ Exists(Remap(l.path))
             /\ ~IgnoredHeader(Remap(l.path))
                <=> HeaderLine(l) /\ Named(l) \in DOMAIN fs
           /\ HeaderLine(l) => Remap(l.path) = Named(l)
<1>1. CASE l.path = NoPath \/ l.is # "openat"
  BY <1>1, NothingThere DEF HeaderLine
<1>2. CASE l.path # NoPath /\ l.is = "openat"
  <2> DEFINE f == Named(l)
  <2>1. Remap(l.path) = f /\ File(f) = f /\ f # NoPath /\ f.abs = TRUE
    BY <1>2, OpenedFile
  <2> HIDE DEF f
  <2>2. Exists(f) <=> f \in DOMAIN fs
    BY <2>1 DEF Exists
  <2>3. f \in DOMAIN fs => f \in DOMAIN FilesAtEnd
    BY DEF FsInv
  <2>4. f \in DOMAIN FilesAtEnd => (IgnoredHeader(f) <=> InBuild(f) \/ InSystemDir(f))
    BY <2>1 DEF IgnoredHeader, PatternsFit
  <2> QED
    BY <1>2, <2>1, <2>2, <2>3, <2>4 DEF HeaderLine, IsOutside, f
<1> QED
  BY <1>1, <1>2

LEMMA ExecTaken ==
    ASSUME OneMappingEach, PatternsFit, RelativePathsAreHere, FsInv, NEW t \in Traces, NEW l \in ToSet(t)
    PROVE  /\ l.is = "execve" /\ Exists(Remap(l.path)) /\ ~IgnoredExecutable(Remap(l.path))
                <=> ExecLine(l) /\ Named(l) \in DOMAIN fs
           /\ ExecLine(l) => Remap(l.path) = Named(l)
<1>1. CASE l.path = NoPath \/ l.is # "execve"
  BY <1>1, NothingThere DEF ExecLine
<1>2. CASE l.path # NoPath /\ l.is = "execve"
  <2> DEFINE f == Named(l)
  <2>1. IsLine(l) /\ l.path \in AllPaths /\ l.path.abs \in BOOLEAN
    BY LinesAre, PathIs DEF IsLine
  <2>2. CASE l.path.abs = TRUE
    <3>1. Remap(l.path) = f /\ f \in AllPaths /\ f.abs = TRUE /\ f # NoPath
      BY <2>1, <2>2, HereIsNamed, NamedIsPath
    <3> HIDE DEF f
    <3>2. Exists(f) <=> f \in DOMAIN fs
      BY <3>1, FileIs DEF Exists
    <3>3. f \in DOMAIN fs => f \in DOMAIN FilesAtEnd
      BY DEF FsInv
    <3>4. f \in DOMAIN FilesAtEnd
             => (IgnoredExecutable(f) <=> f \in IgnoredExecs \/ InBuild(f) \/ InSystemDir(f))
      BY <3>1 DEF IgnoredExecutable, PatternsFit
    <3> QED
      BY <1>2, <3>1, <3>2, <3>3, <3>4 DEF ExecLine, IsOutside, f
  <2>3. CASE l.path.abs = FALSE
    <3>1. Remap(l.path).abs = FALSE
      BY <2>1, <2>3, RemapRelative
    <3>2. IgnoredExecutable(Remap(l.path))
      BY <3>1 DEF IgnoredExecutable
    <3>3. ~IsOutside(Named(l))
      BY <1>2, <2>3 DEF RelativePathsAreHere
    <3> QED
      BY <3>2, <3>3 DEF ExecLine
  <2> QED
    BY <2>1, <2>2, <2>3
<1> QED
  BY <1>1, <1>2

PassNo == [libs |-> 1, headers |-> 2, execs |-> 3, created |-> 4, process |-> 5, done |-> 6]

(* Line k has been read by the pass with that number. *)
Read(n, k) == PassNo[pass] > n \/ (PassNo[pass] = n /\ k < at)

DependInv ==
    /\ \A p \in libs : \E l \in ToSet(trace) : LibLine(l) /\ p = Named(l)
    /\ \A p \in headers : \E l \in ToSet(trace) : HeaderLine(l) /\ p = Named(l)
    /\ \A p \in execs : \E l \in ToSet(trace) : ExecLine(l) /\ p = Named(l)
    /\ \A k \in 1..Len(trace) :
          /\ Read(1, k) /\ LibLine(trace[k]) /\ Named(trace[k]) \notin Volatile => Named(trace[k]) \in libs
          /\ Read(2, k) /\ HeaderLine(trace[k]) /\ Named(trace[k]) \notin Volatile => Named(trace[k]) \in headers
          /\ Read(3, k) /\ ExecLine(trace[k]) /\ Named(trace[k]) \notin Volatile => Named(trace[k]) \in execs
    /\ PassNo[pass] > 3 => files = libs \cup headers \cup execs

LEMMA PassNumbers ==
    /\ PassNo["libs"] = 1 /\ PassNo["headers"] = 2 /\ PassNo["execs"] = 3
    /\ PassNo["created"] = 4 /\ PassNo["process"] = 5 /\ PassNo["done"] = 6
    /\ After["libs"] = "headers" /\ After["headers"] = "execs" /\ After["execs"] = "created"
    /\ After["created"] = "process"
  BY DEF PassNo, After

(* A line that is read has been read next, and no other. *)
LEMMA ReadNext ==
    ASSUME KeptInv, KeptInv', pass' = pass, at' = at + 1, NEW n \in 1..4, NEW k \in 1..Len(trace)
    PROVE  Read(n, k)' <=> Read(n, k) \/ (PassNo[pass] = n /\ k = at)
<1>1. at \in Nat /\ k \in Nat
  BY LinesAre DEF KeptInv
<1>2. PassNo[pass] \in Nat
  BY Passes, PassNumbers DEF KeptInv
<1> QED
  BY <1>1, <1>2 DEF Read

(* At the end of the trace a pass has read every line. *)
LEMMA ReadAll ==
    ASSUME KeptInv, EndOfTrace, pass \in DOMAIN After, pass' = After[pass], at' = 1,
           NEW n \in 1..4, NEW k \in 1..Len(trace)
    PROVE  Read(n, k)' <=> Read(n, k)
<1>1. at \in Nat /\ k < at /\ k \in Nat /\ k >= 1
  BY LinesAre DEF KeptInv, EndOfTrace
<1>2. PassNo[pass] \in Nat /\ PassNo[pass'] = PassNo[pass] + 1
  BY Passes, PassNumbers
<1>3. Read(n, k)' <=> PassNo[pass'] > n \/ (PassNo[pass'] = n /\ k < at')
  BY DEF Read
<1> QED
  BY <1>1, <1>2, <1>3 DEF Read

LEMMA DependInit == TRInit => DependInv
<1> SUFFICES ASSUME TRInit
             PROVE  DependInv
  OBVIOUS
<1>1. Len(trace) \in Nat
  BY LinesAre DEF TRInit
<1>2. \A k \in 1..Len(trace) : ~Read(1, k) /\ ~Read(2, k) /\ ~Read(3, k)
  BY <1>1, PassNumbers DEF TRInit, Read
<1> QED
  BY <1>2, PassNumbers DEF TRInit, DependInv

LEMMA DependStep ==
    ASSUME OneMappingEach, PatternsFit, RelativePathsAreHere,
           KeptInv, KeptInv', FsInv, DependInv, [TRNext]_trVars
    PROVE  DependInv'
<1>1. CASE ReadLib
  <2> DEFINE l == Line
             C == l.is = "openat" /\ IsLib(Here) /\ Exists(Here) /\ ~IgnoredLib(Here)
  <2>1. /\ pass = "libs" /\ pass' = pass /\ at' = at + 1 /\ ~EndOfTrace
        /\ libs' = IF C THEN libs \cup {Here} ELSE libs
        /\ UNCHANGED <<trace, headers, execs, files>>
    BY <1>1 DEF ReadLib, Reading
  <2>2. l \in ToSet(trace) /\ at \in 1..Len(trace) /\ l = trace[at] /\ trace \in Traces
    BY <2>1, HereIs DEF KeptInv, Line
  <2>3. Here = Remap(l.path)
    BY DEF Here
  <2> HIDE DEF l
  <2>4. (C <=> LibLine(l) /\ Named(l) \in DOMAIN fs) /\ (LibLine(l) => Here = Named(l))
    BY <2>2, <2>3, LibTaken
  <2> HIDE DEF C
  <2>5. \A p \in libs' : \E x \in ToSet(trace) : LibLine(x) /\ p = Named(x)
    BY <2>1, <2>2, <2>4 DEF DependInv
  <2>6. ASSUME NEW k \in 1..Len(trace), Read(1, k)', LibLine(trace[k]), Named(trace[k]) \notin Volatile
        PROVE  Named(trace[k]) \in libs'
    <3>1. Read(1, k) \/ k = at
      BY <2>1, <2>6, ReadNext
    <3>2. CASE Read(1, k)
      BY <2>1, <2>6, <3>2 DEF DependInv
    <3>3. CASE k = at
      BY <2>1, <2>2, <2>4, <2>6, <3>3 DEF FsInv, LibLine, IsOutside
    <3> QED
      BY <3>1, <3>2, <3>3
  <2>7. \A k \in 1..Len(trace) : (Read(2, k)' <=> Read(2, k)) /\ (Read(3, k)' <=> Read(3, k))
    BY <2>1, ReadNext, PassNumbers
  <2> QED
    BY <2>1, <2>5, <2>6, <2>7, PassNumbers DEF DependInv
<1>2. CASE ReadHeader
  <2> DEFINE l == Line
             C == l.is = "openat" /\ KindOf(Here) = "header" /\ Exists(Here) /\ ~IgnoredHeader(Here)
  <2>1. /\ pass = "headers" /\ pass' = pass /\ at' = at + 1 /\ ~EndOfTrace
        /\ headers' = IF C THEN headers \cup {Here} ELSE headers
        /\ UNCHANGED <<trace, libs, execs, files>>
    BY <1>2 DEF ReadHeader, Reading
  <2>2. l \in ToSet(trace) /\ at \in 1..Len(trace) /\ l = trace[at] /\ trace \in Traces
    BY <2>1, HereIs DEF KeptInv, Line
  <2>3. Here = Remap(l.path)
    BY DEF Here
  <2> HIDE DEF l
  <2>4. (C <=> HeaderLine(l) /\ Named(l) \in DOMAIN fs) /\ (HeaderLine(l) => Here = Named(l))
    BY <2>2, <2>3, HeaderTaken
  <2> HIDE DEF C
  <2>5. \A p \in headers' : \E x \in ToSet(trace) : HeaderLine(x) /\ p = Named(x)
    BY <2>1, <2>2, <2>4 DEF DependInv
  <2>6. ASSUME NEW k \in 1..Len(trace), Read(2, k)', HeaderLine(trace[k]), Named(trace[k]) \notin Volatile
        PROVE  Named(trace[k]) \in headers'
    <3>1. Read(2, k) \/ k = at
      BY <2>1, <2>6, ReadNext
    <3>2. CASE Read(2, k)
      BY <2>1, <2>6, <3>2 DEF DependInv
    <3>3. CASE k = at
      BY <2>1, <2>2, <2>4, <2>6, <3>3 DEF FsInv, HeaderLine, IsOutside
    <3> QED
      BY <3>1, <3>2, <3>3
  <2>7. \A k \in 1..Len(trace) : (Read(1, k)' <=> Read(1, k)) /\ (Read(3, k)' <=> Read(3, k))
    BY <2>1, ReadNext, PassNumbers
  <2> QED
    BY <2>1, <2>5, <2>6, <2>7, PassNumbers DEF DependInv
<1>3. CASE ReadExecutable
  <2> DEFINE l == Line
             C == l.is = "execve" /\ Exists(Here) /\ ~IgnoredExecutable(Here)
  <2>1. /\ pass = "execs" /\ pass' = pass /\ at' = at + 1 /\ ~EndOfTrace
        /\ execs' = IF C THEN execs \cup {Here} ELSE execs
        /\ UNCHANGED <<trace, libs, headers, files>>
    BY <1>3 DEF ReadExecutable, Reading
  <2>2. l \in ToSet(trace) /\ at \in 1..Len(trace) /\ l = trace[at] /\ trace \in Traces
    BY <2>1, HereIs DEF KeptInv, Line
  <2>3. Here = Remap(l.path)
    BY DEF Here
  <2> HIDE DEF l
  <2>4. (C <=> ExecLine(l) /\ Named(l) \in DOMAIN fs) /\ (ExecLine(l) => Here = Named(l))
    BY <2>2, <2>3, ExecTaken
  <2> HIDE DEF C
  <2>5. \A p \in execs' : \E x \in ToSet(trace) : ExecLine(x) /\ p = Named(x)
    BY <2>1, <2>2, <2>4 DEF DependInv
  <2>6. ASSUME NEW k \in 1..Len(trace), Read(3, k)', ExecLine(trace[k]), Named(trace[k]) \notin Volatile
        PROVE  Named(trace[k]) \in execs'
    <3>1. Read(3, k) \/ k = at
      BY <2>1, <2>6, ReadNext
    <3>2. CASE Read(3, k)
      BY <2>1, <2>6, <3>2 DEF DependInv
    <3>3. CASE k = at
      BY <2>1, <2>2, <2>4, <2>6, <3>3 DEF FsInv, ExecLine, IsOutside
    <3> QED
      BY <3>1, <3>2, <3>3
  <2>7. \A k \in 1..Len(trace) : (Read(1, k)' <=> Read(1, k)) /\ (Read(2, k)' <=> Read(2, k))
    BY <2>1, ReadNext, PassNumbers
  <2> QED
    BY <2>1, <2>5, <2>6, <2>7, PassNumbers DEF DependInv
<1>4. CASE ReadCreated
  <2>1. /\ pass = "created" /\ pass' = pass /\ at' = at + 1
        /\ UNCHANGED <<trace, libs, headers, execs, files>>
    BY <1>4 DEF ReadCreated, Reading
  <2>2. \A k \in 1..Len(trace) : \A n \in 1..3 : Read(n, k)' <=> Read(n, k)
    BY <2>1, ReadNext, PassNumbers
  <2> QED
    BY <2>1, <2>2 DEF DependInv
<1>5. CASE NextPass
  <2>1. /\ EndOfTrace /\ pass \in DOMAIN After /\ pass' = After[pass] /\ at' = 1
        /\ files' = IF pass = "execs" THEN libs \cup headers \cup execs ELSE files
        /\ UNCHANGED <<trace, libs, headers, execs>>
    BY <1>5 DEF NextPass
  <2>2. \A k \in 1..Len(trace) : \A n \in 1..3 : Read(n, k)' <=> Read(n, k)
    BY <2>1, ReadAll
  <2>3. PassNo[pass'] > 3 => files' = libs \cup headers \cup execs
    BY <2>1, Passes, PassNumbers DEF DependInv
  <2> QED
    BY <2>1, <2>2, <2>3 DEF DependInv
<1>6. CASE Finish
  <2>1. /\ pass = "process" /\ pass' = "done" /\ UNCHANGED <<trace, at, libs, headers, execs, files>>
    BY <1>6 DEF Finish
  <2>2. \A k \in 1..Len(trace) : \A n \in 1..3 : Read(n, k)' <=> Read(n, k)
    BY <2>1, PassNumbers DEF Read
  <2> QED
    BY <2>1, <2>2, PassNumbers DEF DependInv
<1>7. CASE UNCHANGED <<trace, pass, at, libs, headers, execs, files>>
  BY <1>7 DEF DependInv, Read
<1>8. CheckCreated \/ AddArtifact \/ Vanish \/ UNCHANGED trVars
         => UNCHANGED <<trace, pass, at, libs, headers, execs, files>>
  BY DEF CheckCreated, AddArtifact, Vanish, trVars
<1> QED
  BY <1>1, <1>2, <1>3, <1>4, <1>5, <1>6, <1>7, <1>8 DEF TRNext

(* The files handed to the pool are those from outside that the build used, *)
(* but for those that went away.                                           *)
THEOREM DependenciesAreUses ==
    ASSUME OneMappingEach, PatternsFit, RelativePathsAreHere
    PROVE  TRSpec => []DependenciesAreUsesOutside
<1>1. KeptInv /\ DependInv => DependenciesAreUsesOutside
  <2> SUFFICES ASSUME KeptInv, DependInv, pass \in {"created", "process", "done"}
               PROVE  files \subseteq UsedOutside /\ UsedOutside \ Volatile \subseteq files
    BY DEF DependenciesAreUsesOutside
  <2>1. files = libs \cup headers \cup execs
    BY PassNumbers DEF DependInv
  <2>2. files \subseteq UsedOutside
    BY <2>1, UsedOutsideIs DEF DependInv
  <2>3. ASSUME NEW f \in UsedOutside \ Volatile
        PROVE  f \in files
    <3>1. PICK l \in ToSet(trace) : f = Named(l) /\ (LibLine(l) \/ HeaderLine(l) \/ ExecLine(l))
      BY <2>3, UsedOutsideIs
    <3>2. PICK k \in 1..Len(trace) : l = trace[k]
      BY LinesAre DEF KeptInv
    <3>3. Read(1, k) /\ Read(2, k) /\ Read(3, k)
      BY PassNumbers DEF Read
    <3> QED
      BY <2>1, <2>3, <3>1, <3>2, <3>3 DEF DependInv
  <2> QED
    BY <2>2, <2>3
<1>2. KeptInv /\ FsInv /\ DependInv /\ KeptInv' /\ [TRNext]_trVars => DependInv'
  BY DependStep
<1> QED
  BY <1>1, <1>2, DependInit, FsInit, FsStep, KeptInductive, PTL DEF TRSpec

-----------------------------------------------------------------------------
(* Artifacts. *)

Creates(l) == l.path # NoPath /\ (MustCreate(l) \/ MayCreate(l))

(* What is kept of a line that may create a file is a path of that file,    *)
(* by which it is judged like the file.                                     *)
LEMMA CreatedFile ==
    ASSUME OneMappingEach, PatternsFit, RelativePathsAreHere,
           NEW t \in Traces, NEW l \in ToSet(t), Creates(l)
    PROVE  /\ Remap(l.path) \in AllPaths /\ Remap(l.path) # NoPath /\ Remap(l.path).abs = l.path.abs
           /\ File(Remap(l.path)) = Named(l)
           /\ KindOf(Remap(l.path)) = KindOf(Named(l))
           /\ Named(l) \in DOMAIN FilesAtEnd => (IgnoredArtifact(Remap(l.path)) <=> IsTemporary(Named(l)))
           /\ l.path.abs = FALSE => Inside(Remap(l.path))
<1> DEFINE p == Remap(l.path)
<1>1. IsLine(l) /\ l.path \in AllPaths /\ l.path.abs \in BOOLEAN /\ l.path.names \in Seq(AllNames)
  BY LinesAre, PathIs DEF IsLine
<1>2. CASE l.path.abs = TRUE
  <2>1. p = Named(l) /\ p \in AllPaths /\ p.abs = TRUE /\ p # NoPath
    BY <1>1, <1>2, HereIsNamed, NamedIsPath
  <2>2. File(p) = p
    BY <2>1, FileIs
  <2>3. p \in DOMAIN FilesAtEnd => (IgnoredArtifact(p) <=> IsTemporary(p))
    BY <2>1, TemporaryFile
  <2> HIDE DEF p
  <2> QED
    BY <1>2, <2>1, <2>2, <2>3 DEF p
<1>3. CASE l.path.abs = FALSE
  <2>1. l.is # "openat" /\ l.path # NoPath
    BY <1>3 DEF RelativePathsAreHere, Creates
  <2>2. l.is = "creat"
    BY <2>1 DEF Creates, MustCreate, MayCreate
  <2>3. /\ l.cwd = BuildPath
        /\ Normal(l.path) # NoPath /\ ".." \notin ToSet(Normal(l.path).names)
        /\ \A m \in Mappings : ~HasPrefix(File(l.path), m.observed)
    BY <1>3, <2>1, <2>2 DEF RelativePathsAreHere
  <2>4. p = Normal(l.path) /\ IsNormal(p) /\ p.abs = FALSE /\ p \in AllPaths
    BY <1>1, <1>3, RemapRelative DEF IsNormal
  <2>5. Inside(p)
    BY <2>3, <2>4 DEF Inside
  <2>6. File(l.path) = Spot(l)
    BY <1>1, <1>3, <2>3, FileIs DEF Spot
  <2>7. Named(l) = File(l.path)
    <3>1. Around(Spot(l)) = {}
      BY <2>3, <2>6 DEF Around
    <3> QED
      BY <2>6, <3>1, NamedIs
  <2>8. File(p) = File(l.path)
    <3> DEFINE b == BuildPath
    <3>1. b \in Seq(AllNames) /\ b \o l.path.names \in Seq(AllNames)
      BY <1>1, BuildPathIs
    <3>2. p.names = Walk(FALSE, l.path.names) /\ p.names \in Seq(AllNames)
      BY <1>1, <1>3, <2>4, NormalIs, PathIs
    <3>3. File(p) = Normal(Absolute(b \o p.names)) /\ File(l.path) = Normal(Absolute(b \o l.path.names))
      BY <1>1, <1>3, <2>4, FileIs
    <3> HIDE DEF b, p
    <3>4. Walk(TRUE, b \o p.names) = Walk(TRUE, b \o l.path.names)
      <4>1. Walk(TRUE, b \o Walk(FALSE, l.path.names)) = Walk(TRUE, b \o l.path.names)
        BY <1>1, <3>1, WalkLater
      <4> QED
        BY <3>2, <4>1
    <3>5. b \o p.names \in Seq(AllNames)
      BY <3>1, <3>2, ConcatProperties
    <3>6. /\ Normal(Absolute(b \o p.names)) = Absolute(Walk(TRUE, b \o p.names))
          /\ Normal(Absolute(b \o l.path.names)) = Absolute(Walk(TRUE, b \o l.path.names))
      BY <3>1, <3>5, AbsoluteIs
    <3> QED
      BY <3>3, <3>4, <3>6
  <2> HIDE DEF p
  <2>9. KindOf(p) = KindOf(File(p)) /\ p # NoPath
        /\ (File(p) \in DOMAIN FilesAtEnd => (IgnoredArtifact(p) <=> IsTemporary(File(p))))
    BY <2>5, KindInside, TemporaryInside DEF Inside
  <2> QED
    BY <1>3, <2>4, <2>5, <2>7, <2>8, <2>9 DEF p
<1> QED
  BY <1>1, <1>2, <1>3

(* Each file that is created is kept under one path. *)
LEMMA OnePathEach ==
    ASSUME OneMappingEach, PatternsFit, RelativePathsAreHere, OneSpelling,
           NEW t \in Traces, NEW k \in ToSet(t), NEW l \in ToSet(t), Creates(k), Creates(l),
           File(Remap(k.path)) = File(Remap(l.path))
    PROVE  Remap(k.path) = Remap(l.path)
<1> DEFINE p == Remap(k.path)
           q == Remap(l.path)
<1>1. /\ p \in AllPaths /\ p.abs = k.path.abs /\ File(p) = Named(k) /\ (k.path.abs = FALSE => Inside(p))
      /\ q \in AllPaths /\ q.abs = l.path.abs /\ File(q) = Named(l) /\ (l.path.abs = FALSE => Inside(q))
  BY CreatedFile
<1>2. File(p) = File(q)
  OBVIOUS
<1> SUFFICES p = q
  OBVIOUS
<1> HIDE DEF p, q
<1>3. k.path.abs = l.path.abs
  <2>1. k \in {x \in ToSet(t) : MustCreate(x) \/ MayCreate(x)} /\ k.path # NoPath
    BY DEF Creates
  <2>2. l \in {x \in ToSet(t) : MustCreate(x) \/ MayCreate(x)} /\ l.path # NoPath
    BY DEF Creates
  <2>3. Named(k) = Named(l)
    BY <1>1, <1>2
  <2> QED
    BY <2>1, <2>2, <2>3 DEF OneSpelling
<1>4. CASE p.abs = TRUE
  <2>1. q.abs = TRUE
    BY <1>1, <1>3, <1>4, Zenon
  <2>2. File(p) = p /\ File(q) = q
    BY <1>1, <1>4, <2>1, FileIs
  <2> QED
    BY <1>2, <2>2
<1>5. CASE p.abs = FALSE
  <2>1. Inside(p) /\ Inside(q)
    BY <1>1, <1>3, <1>5
  <2>2. /\ File(p) = Absolute(BuildPath \o p.names) /\ BuildPath \o p.names \in Seq(AllNames)
        /\ File(q) = Absolute(BuildPath \o q.names) /\ BuildPath \o q.names \in Seq(AllNames)
    BY <2>1, InsideFile
  <2> DEFINE r == BuildPath \o p.names
             s == BuildPath \o q.names
  <2>3. r = s
    <3>1. Absolute(r).names = r /\ Absolute(s).names = s
      BY <2>2, AbsoluteIs
    <3>2. Absolute(r) = Absolute(s)
      BY <1>2, <2>2
    <3> QED
      BY <3>1, <3>2
  <2>4. BuildPath \in Seq(AllNames) /\ p.names \in Seq(AllNames) /\ q.names \in Seq(AllNames)
    BY <1>1, PathIs, BuildPathIs
  <2>5. p.names = q.names
    BY <2>3, <2>4, ConcatSimplifications
  <2>6. p.abs = q.abs
    BY <1>1, <1>3, Zenon
  <2> QED
    BY <1>1, <2>5, <2>6, PathsEqual, Zenon
<1>6. p.abs \in BOOLEAN
  BY <1>1, PathIs
<1> QED
  BY <1>4, <1>5, <1>6

(* p is what was kept of a line that may have created it. *)
Candidate(p) == \E l \in ToSet(trace) : Creates(l) /\ p = Remap(l.path)

LEMMA CandidateIs ==
    ASSUME OneMappingEach, PatternsFit, RelativePathsAreHere, KeptInv, FsInv,
           NEW p, Candidate(p)
    PROVE  /\ p \in AllPaths /\ p # NoPath
           /\ IsArtifact(p) <=> IsProduct(File(p)) /\ File(p) \in DOMAIN fs
<1>1. PICK l \in ToSet(trace) : Creates(l) /\ p = Remap(l.path)
  BY DEF Candidate
<1> DEFINE f == File(p)
<1>2. /\ p \in AllPaths /\ p # NoPath /\ f = Named(l) /\ KindOf(p) = KindOf(f)
      /\ f \in DOMAIN FilesAtEnd => (IgnoredArtifact(p) <=> IsTemporary(f))
  BY <1>1, CreatedFile DEF KeptInv
<1>3. Exists(p) <=> f \in DOMAIN fs
  BY <1>2 DEF Exists
<1> HIDE DEF f
<1>4. f \in DOMAIN fs => f \in DOMAIN FilesAtEnd /\ fs[f] = FilesAtEnd[f]
  BY DEF FsInv
<1>5. IsArtifact(p) <=> IsProduct(f) /\ f \in DOMAIN fs
  BY <1>2, <1>3, <1>4 DEF IsArtifact, IsProduct, f
<1> QED
  BY <1>2, <1>5 DEF f

LEMMA CandidatesApart ==
    ASSUME OneMappingEach, PatternsFit, RelativePathsAreHere, OneSpelling, KeptInv,
           NEW p, Candidate(p), NEW q, Candidate(q), Display(p) = Display(q)
    PROVE  p = q
<1>1. PICK k \in ToSet(trace) : Creates(k) /\ p = Remap(k.path)
  BY DEF Candidate
<1>2. PICK l \in ToSet(trace) : Creates(l) /\ q = Remap(l.path)
  BY DEF Candidate
<1>3. p \in AllPaths /\ q \in AllPaths
  BY <1>1, <1>2, CreatedFile DEF KeptInv
<1>4. File(p) = File(q)
  BY <1>3, DisplayApart
<1> QED
  BY <1>1, <1>2, <1>4, OnePathEach DEF KeptInv

Shown == {a.path : a \in ToSet(artifacts)}

(* a records p, with its hash unless it went away. *)
Records(a, p) ==
    /\ Candidate(p) /\ IsProduct(File(p)) /\ a.path = Display(p)
    /\ a.hash = FilesAtEnd[File(p)].content \/ (File(p) \in Volatile /\ a.hash = "")

(* What is left of a line whose file has to be an artifact. *)
Seen(l) == Remap(l.path) \in created \/ Remap(l.path) = current \/ Display(Remap(l.path)) \in Shown

MadeLine(l) == Creates(l) /\ MustCreate(l) /\ IsProduct(Named(l)) /\ Named(l) \notin Volatile

ArtifactInv ==
    /\ \A p \in created : Candidate(p)
    /\ current # NoPath => Candidate(current) /\ IsProduct(File(current)) /\ current \notin created
    /\ \A k \in 1..Len(trace) : Read(4, k) /\ MadeLine(trace[k]) => Seen(trace[k])
    /\ \A a \in ToSet(artifacts) :
          \E p : Records(a, p) /\ p \notin created /\ p # current
    /\ IsFiniteSet(Shown) /\ Cardinality(Shown) = Len(artifacts)
    /\ PassNo[pass] < 5 => artifacts = <<>> /\ current = NoPath
    /\ pass = "done" => created = {} /\ current = NoPath

LEMMA ArtifactInit == TRInit => ArtifactInv
<1> SUFFICES ASSUME TRInit
             PROVE  ArtifactInv
  OBVIOUS
<1>1. Len(trace) \in Nat /\ ToSet(artifacts) = {} /\ Len(artifacts) = 0
  BY LinesAre DEF TRInit, ToSet
<1>2. \A k \in 1..Len(trace) : ~Read(4, k)
  BY <1>1, PassNumbers DEF TRInit, Read
<1>3. Shown = {}
  BY <1>1 DEF Shown
<1> QED
  BY <1>1, <1>2, <1>3, FS_EmptySet, PassNumbers DEF TRInit, ArtifactInv


(* What a step that leaves these alone cannot disturb. *)
LEMMA ArtifactsStay ==
    ASSUME ArtifactInv, UNCHANGED <<trace, created, current, artifacts>>,
           \A k \in 1..Len(trace) : Read(4, k)' <=> Read(4, k),
           PassNo[pass'] < 5 => PassNo[pass] < 5,
           pass' = "done" => created = {} /\ current = NoPath
    PROVE  ArtifactInv'
<1>1. \A p : Candidate(p)' <=> Candidate(p)
  BY DEF Candidate
<1>2. \A a, p : Records(a, p)' <=> Records(a, p)
  BY <1>1 DEF Records
<1>3. Shown' = Shown
  BY DEF Shown
<1>4. \A l : Seen(l)' <=> Seen(l)
  BY <1>3 DEF Seen
<1> QED
  BY <1>1, <1>2, <1>3, <1>4 DEF ArtifactInv

(* The line that is read stands for the file it may have created. *)
LEMMA CreatedRead ==
    ASSUME OneMappingEach, PatternsFit, RelativePathsAreHere,
           KeptInv, KeptInv', FsInv, ArtifactInv, ReadCreated
    PROVE  ArtifactInv'
<1> DEFINE l == Line
<1>1. /\ pass = "created" /\ pass' = pass /\ at' = at + 1 /\ ~EndOfTrace
      /\ UNCHANGED <<trace, current, artifacts>>
      /\ \/ /\ MustCreate(l) \/ MayCreate(l)
            /\ created' = IF Exists(Here) THEN created \cup {Here} ELSE created
         \/ ~MustCreate(l) /\ created' = created
  BY DEF ReadCreated, Reading
<1>2. l \in ToSet(trace) /\ at \in 1..Len(trace) /\ l = trace[at] /\ trace \in Traces /\ Here = Remap(l.path)
  BY <1>1, HereIs DEF KeptInv, Line, Here
<1> HIDE DEF l
<1>3. created \subseteq created' /\ created' \subseteq created \cup {Here}
  BY <1>1
<1>4. \A p : Candidate(p)' <=> Candidate(p)
  BY <1>1 DEF Candidate
<1>5. \A p \in created' : Candidate(p)'
  <2>1. CASE created' = created
    BY <1>4, <2>1 DEF ArtifactInv
  <2>2. CASE created' # created
    <3>1. (MustCreate(l) \/ MayCreate(l)) /\ Exists(Here)
      BY <1>1, <2>2
    <3>2. l.path # NoPath
      BY <1>2, <3>1, NothingThere
    <3>3. Candidate(Here)
      BY <1>2, <3>1, <3>2 DEF Candidate, Creates
    <3> QED
      BY <1>3, <1>4, <3>3 DEF ArtifactInv
  <2> QED
    BY <2>1, <2>2
<1>6. artifacts = <<>> /\ current = NoPath
  BY <1>1, PassNumbers DEF ArtifactInv
<1>7. ToSet(artifacts) = {}
  BY <1>6 DEF ToSet
<1>8. Shown' = Shown
  BY <1>1 DEF Shown
<1>9. ASSUME NEW k \in 1..Len(trace), Read(4, k)', MadeLine(trace[k])
      PROVE  Seen(trace[k])'
  <2>1. Read(4, k) \/ k = at
    BY <1>1, <1>9, ReadNext, PassNumbers
  <2>2. CASE Read(4, k)
    <3>1. Seen(trace[k])
      BY <1>9, <2>2 DEF ArtifactInv
    <3> QED
      BY <1>1, <1>3, <1>8, <3>1 DEF Seen
  <2>3. CASE k = at
    <3>1. MadeLine(l)
      BY <1>2, <1>9, <2>3
    <3>2. File(Remap(l.path)) = Named(l) /\ Remap(l.path) # NoPath
      BY <1>2, <3>1, CreatedFile DEF MadeLine
    <3>3. Exists(Here)
      BY <1>2, <3>1, <3>2 DEF MadeLine, IsProduct, FsInv, Exists
    <3>4. Remap(l.path) \in created'
      BY <1>1, <1>2, <3>1, <3>3 DEF MadeLine
    <3> QED
      BY <1>1, <1>2, <2>3, <3>4 DEF Seen
  <2> QED
    BY <2>1, <2>2, <2>3
<1>10. pass' # "done" /\ trace' = trace /\ artifacts' = artifacts /\ current' = NoPath
  BY <1>1, <1>6
<1> QED
  BY <1>5, <1>6, <1>7, <1>8, <1>9, <1>10 DEF ArtifactInv

LEMMA CreatedChecked ==
    ASSUME OneMappingEach, PatternsFit, RelativePathsAreHere, KeptInv, FsInv, ArtifactInv, CheckCreated
    PROVE  ArtifactInv'
<1>1. PICK p \in created : /\ created' = created \ {p}
                           /\ current' = IF IsArtifact(p) THEN p ELSE NoPath
  BY DEF CheckCreated
<1>2. /\ pass = "process" /\ pass' = pass /\ current = NoPath
      /\ UNCHANGED <<trace, at, artifacts>>
  BY DEF CheckCreated
<1>3. Candidate(p)
  BY DEF ArtifactInv
<1>4. /\ p \in AllPaths /\ p # NoPath
      /\ IsArtifact(p) <=> IsProduct(File(p)) /\ File(p) \in DOMAIN fs
  BY <1>3, CandidateIs
<1>5. \A q : Candidate(q)' <=> Candidate(q)
  BY <1>2 DEF Candidate
<1>6. \A a, q : Records(a, q)' <=> Records(a, q)
  BY <1>5 DEF Records
<1>7. Shown' = Shown
  BY <1>2 DEF Shown
<1>8. ASSUME NEW k \in 1..Len(trace), Read(4, k), MadeLine(trace[k])
      PROVE  Seen(trace[k])'
  <2> DEFINE l == trace[k]
             r == Remap(l.path)
  <2>1. r \in created \/ r = current \/ Display(r) \in Shown
    BY <1>8 DEF ArtifactInv, Seen
  <2>2. l \in ToSet(trace) /\ trace \in Traces /\ MadeLine(l)
    BY <1>8, LinesAre DEF KeptInv
  <2> HIDE DEF l
  <2>3. File(r) = Named(l) /\ r # NoPath
    BY <2>2, CreatedFile DEF MadeLine
  <2> HIDE DEF r
  <2>4. r = p => IsArtifact(p)
    BY <1>4, <2>2, <2>3 DEF MadeLine, IsProduct, FsInv
  <2>5. r \in created' \/ r = current' \/ Display(r) \in Shown'
    BY <1>1, <1>2, <1>7, <2>1, <2>3, <2>4
  <2> QED
    BY <1>2, <2>5 DEF Seen, r, l
<1>9. \A k \in 1..Len(trace') : Read(4, k)' /\ MadeLine(trace'[k]) => Seen(trace[k])'
  BY <1>2, <1>8 DEF Read
<1>10. current' # NoPath => Candidate(current') /\ IsProduct(File(current')) /\ current' \notin created'
  BY <1>1, <1>3, <1>4
<1>11. \A a \in ToSet(artifacts) :
          \E q : Records(a, q) /\ q \notin created' /\ q # current'
  <2>1. ASSUME NEW a \in ToSet(artifacts)
        PROVE  \E q : Records(a, q) /\ q \notin created' /\ q # current'
    <3>1. PICK q : Records(a, q) /\ q \notin created /\ q # current
      BY <2>1 DEF ArtifactInv
    <3>2. q # NoPath /\ q # p
      BY <1>2, <3>1
    <3> QED
      BY <1>1, <3>1, <3>2
  <2> QED
    BY <2>1
<1>12. \A q \in created' : Candidate(q)
  BY <1>1 DEF ArtifactInv
<1>13. (current # NoPath => Candidate(current))'
  BY <1>2, <1>10 DEF Candidate
<1>14. ~(PassNo[pass'] < 5) /\ pass' # "done"
  BY <1>2, PassNumbers
<1> QED
  BY <1>2, <1>5, <1>6, <1>7, <1>9, <1>10, <1>11, <1>12, <1>13, <1>14 DEF ArtifactInv

LEMMA ArtifactAdded ==
    ASSUME OneMappingEach, PatternsFit, RelativePathsAreHere, OneSpelling,
           KeptInv, FsInv, ArtifactInv, AddArtifact
    PROVE  ArtifactInv'
<1>0. PICK b, c :
         /\ c = current
         /\ b = [path |-> Display(current), hash |-> Hash(current), type |-> ArtifactType(current)]
  OBVIOUS
<1>1. /\ pass = "process" /\ pass' = pass /\ c = current /\ c # NoPath /\ current' = NoPath
      /\ artifacts' = Append(artifacts, b)
      /\ UNCHANGED <<trace, at, created>>
  BY <1>0 DEF AddArtifact
<1>2. b.path = Display(c) /\ b.hash = Hash(c)
  BY <1>0
<1>3. /\ Candidate(c) /\ IsProduct(File(c)) /\ c \notin created
  BY <1>1 DEF ArtifactInv
<1>4. Len(artifacts) \in Nat /\ Len(artifacts') = Len(artifacts) + 1
      /\ ToSet(artifacts') = ToSet(artifacts) \cup {b}
  BY <1>1, ElementsOfAppend, LenProperties DEF KeptInv
<1>5. Shown' = Shown \cup {b.path}
  BY <1>4 DEF Shown
<1>6. \A p : Candidate(p)' <=> Candidate(p)
  BY <1>1 DEF Candidate
<1>7. \A a, p : Records(a, p)' <=> Records(a, p)
  BY <1>6 DEF Records
<1>8. Records(b, c)
  <2> DEFINE f == File(c)
  <2>1. f \in DOMAIN FilesAtEnd
    BY <1>3 DEF IsProduct
  <2>2. Hash(c) = IF f \in DOMAIN fs THEN fs[f].content ELSE ""
    BY <1>1 DEF Hash, Exists
  <2> HIDE DEF f
  <2>3. b.hash = FilesAtEnd[f].content \/ (f \in Volatile /\ b.hash = "")
    BY <1>2, <2>1, <2>2 DEF FsInv
  <2> QED
    BY <1>2, <1>3, <2>3 DEF Records, f
<1>9. \A a \in ToSet(artifacts') : \E p : Records(a, p)' /\ p \notin created' /\ p # current'
  <2>1. ASSUME NEW a \in ToSet(artifacts)
        PROVE  \E p : Records(a, p)' /\ p \notin created' /\ p # current'
    <3>1. PICK p : Records(a, p) /\ p \notin created /\ p # current
      BY <2>1 DEF ArtifactInv
    <3>2. p # NoPath
      BY <3>1, CandidateIs DEF Records
    <3> QED
      BY <1>1, <1>7, <3>1, <3>2
  <2>2. Records(b, c)' /\ c \notin created' /\ c # current'
    BY <1>1, <1>3, <1>7, <1>8
  <2> QED
    BY <1>4, <2>1, <2>2
<1>10. b.path \notin Shown
  <2> SUFFICES ASSUME NEW a \in ToSet(artifacts), a.path = b.path
               PROVE  FALSE
    BY DEF Shown
  <2>1. PICK p : Records(a, p) /\ p # c
    BY <1>1 DEF ArtifactInv
  <2>2. Candidate(p) /\ Display(p) = Display(c)
    BY <1>2, <2>1 DEF Records
  <2> QED
    BY <1>3, <2>1, <2>2, CandidatesApart
<1>11. IsFiniteSet(Shown') /\ Cardinality(Shown') = Len(artifacts')
  <2>1. IsFiniteSet(Shown) /\ Cardinality(Shown) = Len(artifacts)
    BY DEF ArtifactInv
  <2> QED
    BY <1>4, <1>5, <1>10, <2>1, FS_AddElement
<1>12. \A k \in 1..Len(trace') : Read(4, k)' /\ MadeLine(trace'[k]) => Seen(trace[k])'
  <2>1. \A l : Seen(l) => Seen(l)'
    BY <1>1, <1>2, <1>5 DEF Seen
  <2> QED
    BY <1>1, <2>1 DEF Read, ArtifactInv
<1>13. ~(PassNo[pass'] < 5) /\ pass' # "done"
  BY <1>1, PassNumbers
<1> QED
  BY <1>1, <1>6, <1>9, <1>11, <1>12, <1>13 DEF ArtifactInv

LEMMA ArtifactStep ==
    ASSUME OneMappingEach, PatternsFit, RelativePathsAreHere, OneSpelling,
           KeptInv, KeptInv', FsInv, ArtifactInv, [TRNext]_trVars
    PROVE  ArtifactInv'
<1>1. CASE ReadLib \/ ReadHeader \/ ReadExecutable
  <2>1. /\ pass \in {"libs", "headers", "execs"} /\ pass' = pass /\ at' = at + 1
        /\ UNCHANGED <<trace, created, current, artifacts>>
    BY <1>1 DEF ReadLib, ReadHeader, ReadExecutable, Reading
  <2>2. \A k \in 1..Len(trace) : Read(4, k)' <=> Read(4, k)
    BY <2>1, ReadNext, PassNumbers
  <2> QED
    BY <2>1, <2>2, ArtifactsStay
<1>2. CASE ReadCreated
  BY <1>2, CreatedRead
<1>3. CASE NextPass
  <2>1. /\ EndOfTrace /\ pass \in DOMAIN After /\ pass' = After[pass] /\ at' = 1
        /\ UNCHANGED <<trace, created, current, artifacts>>
    BY <1>3 DEF NextPass
  <2>2. \A k \in 1..Len(trace) : Read(4, k)' <=> Read(4, k)
    BY <2>1, ReadAll
  <2>3. PassNo[pass] < 5 /\ pass' # "done"
    BY <2>1, Passes, PassNumbers
  <2> QED
    BY <2>1, <2>2, <2>3, ArtifactsStay
<1>4. CASE CheckCreated
  BY <1>4, CreatedChecked
<1>5. CASE AddArtifact
  BY <1>5, ArtifactAdded
<1>6. CASE Finish
  <2>1. /\ pass = "process" /\ pass' = "done" /\ created = {} /\ current = NoPath
        /\ UNCHANGED <<trace, at, created, current, artifacts>>
    BY <1>6 DEF Finish
  <2>2. \A k \in 1..Len(trace) : Read(4, k)' <=> Read(4, k)
    BY <2>1, PassNumbers DEF Read
  <2>3. ~(PassNo[pass'] < 5)
    BY <2>1, PassNumbers
  <2> QED
    BY <2>1, <2>2, <2>3, ArtifactsStay
<1>7. CASE UNCHANGED <<trace, pass, at, created, current, artifacts>>
  <2>1. \A k \in 1..Len(trace) : Read(4, k)' <=> Read(4, k)
    BY <1>7 DEF Read
  <2>2. pass' = "done" => created = {} /\ current = NoPath
    BY <1>7 DEF ArtifactInv
  <2> QED
    BY <1>7, <2>1, <2>2, ArtifactsStay
<1>8. Vanish \/ UNCHANGED trVars => UNCHANGED <<trace, pass, at, created, current, artifacts>>
  BY DEF Vanish, trVars
<1> QED
  BY <1>1, <1>2, <1>3, <1>4, <1>5, <1>6, <1>7, <1>8 DEF TRNext

LEMMA ProductsAre ==
    \A f : /\ f \in ProductsOf(MustCreate) <=>
                 \E l \in ToSet(trace) :
                    l.path # NoPath /\ MustCreate(l) /\ f = Named(l) /\ IsProduct(f)
           /\ f \in ProductsOf(LAMBDA l : l.flags = "cut") <=>
                 \E l \in ToSet(trace) :
                    l.path # NoPath /\ l.flags = "cut" /\ f = Named(l) /\ IsProduct(f)
  BY DEF ProductsOf

(* The artifacts are what the build created, each once, with the hash of    *)
(* the file, but for files that went away and for lines that were cut.     *)
THEOREM ArtifactsAreMade ==
    ASSUME OneMappingEach, PatternsFit, RelativePathsAreHere, OneSpelling
    PROVE  TRSpec => []ArtifactsAreWhatWasMade
<1>1. KeptInv /\ FsInv /\ ArtifactInv => ArtifactsAreWhatWasMade
  <2> SUFFICES ASSUME KeptInv, FsInv, ArtifactInv, pass = "done"
               PROVE  ArtifactsAreWhatWasMade
    BY DEF ArtifactsAreWhatWasMade
  <2> DEFINE made == ProductsOf(MustCreate)
             cut == ProductsOf(LAMBDA l : l.flags = "cut")
  <2>1. \A f : f \in made <=>
                 \E l \in ToSet(trace) :
                    l.path # NoPath /\ MustCreate(l) /\ f = Named(l) /\ IsProduct(f)
    BY ProductsAre
  <2>2. \A f : f \in cut <=>
                 \E l \in ToSet(trace) :
                    l.path # NoPath /\ l.flags = "cut" /\ f = Named(l) /\ IsProduct(f)
    BY ProductsAre
  <2> HIDE DEF made, cut
  <2>3. ASSUME NEW f \in made \ Volatile
        PROVE  Display(f) \in Shown
    <3>1. PICK l \in ToSet(trace) : l.path # NoPath /\ MustCreate(l) /\ f = Named(l) /\ IsProduct(f)
      BY <2>1, <2>3
    <3>2. MadeLine(l)
      BY <2>3, <3>1 DEF MadeLine, Creates
    <3>3. PICK k \in 1..Len(trace) : l = trace[k]
      BY LinesAre DEF KeptInv
    <3>4. Read(4, k)
      BY PassNumbers DEF Read
    <3>5. Seen(l)
      BY <3>2, <3>3, <3>4 DEF ArtifactInv
    <3>6. /\ Remap(l.path) \in AllPaths /\ Remap(l.path) # NoPath /\ File(Remap(l.path)) = f
      BY <3>1, <3>2, CreatedFile DEF KeptInv, MadeLine
    <3>7. Display(Remap(l.path)) \in Shown
      BY <3>5, <3>6 DEF Seen, ArtifactInv
    <3> QED
      BY <3>6, <3>7, DisplayOfFile
  <2>4. ASSUME NEW a \in ToSet(artifacts)
        PROVE  \E f \in made \cup cut :
                  /\ f \in DOMAIN FilesAtEnd /\ Display(f) = a.path
                  /\ a.hash = FilesAtEnd[f].content \/ (f \in Volatile /\ a.hash = "")
    <3>1. PICK p : Records(a, p)
      BY <2>4 DEF ArtifactInv
    <3>2. PICK l \in ToSet(trace) : Creates(l) /\ p = Remap(l.path)
      BY <3>1 DEF Records, Candidate
    <3> DEFINE f == File(p)
    <3>3. p \in AllPaths /\ f = Named(l)
      BY <3>2, CreatedFile DEF KeptInv
    <3>4. Display(f) = a.path
      BY <3>1, <3>3, DisplayOfFile DEF Records
    <3>5. /\ IsProduct(f)
          /\ a.hash = FilesAtEnd[f].content \/ (f \in Volatile /\ a.hash = "")
      BY <3>1 DEF Records
    <3> HIDE DEF f
    <3>6. l.path # NoPath /\ (MustCreate(l) \/ l.flags = "cut")
      BY <3>2 DEF Creates, MustCreate, MayCreate
    <3>7. f \in made \cup cut
      BY <2>1, <2>2, <3>3, <3>5, <3>6
    <3> QED
      BY <3>4, <3>5, <3>7 DEF IsProduct
  <2>5. Shown \subseteq {Display(f) : f \in made} \cup {Display(f) : f \in cut}
    BY <2>4 DEF Shown
  <2>6. {Display(f) : f \in made \ Volatile} \subseteq Shown
    BY <2>3
  <2>7. Cardinality(Shown) = Len(artifacts)
    BY DEF ArtifactInv
  <2>8. \A a \in ToSet(artifacts) :
           \E f \in DOMAIN FilesAtEnd :
              /\ Display(f) = a.path
              /\ a.hash = FilesAtEnd[f].content \/ (f \in Volatile /\ a.hash = "")
    BY <2>4
  <2> QED
    BY <2>5, <2>6, <2>7, <2>8 DEF ArtifactsAreWhatWasMade, Shown, made, cut
<1>2. KeptInv /\ FsInv /\ ArtifactInv /\ KeptInv' /\ [TRNext]_trVars => ArtifactInv'
  BY ArtifactStep
<1> QED
  BY <1>1, <1>2, ArtifactInit, FsInit, FsStep, KeptInductive, PTL DEF TRSpec
=============================================================================
