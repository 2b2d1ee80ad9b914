\* Two builds, two bundles, one edit or removed tree, one kill or full disk.
CONSTANTS
    Files = {1, 2}
    Custom = {1}
    Contents = {0, 1}
    Original <- MCOriginal
    Absent = Absent
    Foreign = Foreign
    UserZips = {1}
    Clients = {"b1", "b2"}
    Bundlers = {"q1", "q2"}
    RecordOf <- MCRecordOf
    ArchiveOf <- MCArchiveOf
    Kind <- MCKind
    Trees = {"t1", "t2"}
    SecondOf <- MCSecondOf
    Placements <- MCPlacements
    Uses <- MCUses
    Makes <- MCMakes
    Cloned <- MCCloned
    MaxEdits = 1
    MaxKills = 1
SPECIFICATION Spec
INVARIANTS
    TypeOK
    NothingLeftBehind
    BundleHoldsItsRecord
    StoredUnderItsHash
    RecordsAreWhole
    UploadedUnlessFaulty
