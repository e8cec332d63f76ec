\* Snapshots and a volume restored from one, by two goroutines of one process.
SPECIFICATION Spec
CONSTANTS
    GiB = 2
    MaxInt32 = 4
    FsIds <- OneFs
    VolIds <- TwoVols
    SnapIds <- TwoSnaps
    RootVolume <- MCRootVolume
    ParentFs = "fs-1"
    Names <- MCNames
    Params <- MCParams
    Preexisting <- FsAndVol
    NoInput = NoInput
    MayFail = FALSE
    MaxUpdates = 0
    MaxPolls = 0
    MaxDisturbances = 1
    c1 = c1
    c2 = c2
    p1 = p1
    p2 = p2
    Procs <- OneReplica
    Calls <- TwoCalls
    ProcOf <- AllOnOne
    Requests <- SnapshotRequests
    NoRequest = NoRequest
INVARIANTS
    InFlightExact
    MutualExclusion
    OneResourcePerName
    CreateAnswerSound
    DeleteAnswerSound
PROPERTIES
    ImplementsKeyedLock
SYMMETRY SymmetricCalls
