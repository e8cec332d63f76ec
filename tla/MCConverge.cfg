\* Every request the sidecars keep sending succeeds in the end.
SPECIFICATION ConvergeSpec
CONSTANTS
    GiB = 2
    MaxInt32 = 4
    FsIds <- ThreeFs
    VolIds <- None
    SnapIds <- None
    RootVolume <- MCRootVolume
    ParentFs = "fs-1"
    Names <- MCNames
    Params <- MCParams
    Preexisting <- OnlyFs
    NoInput = NoInput
    MayFail = FALSE
    MaxUpdates = 1
    MaxPolls = 0
    MaxDisturbances = 1
    c1 = c1
    c2 = c2
    p1 = p1
    p2 = p2
    Procs <- OneReplica
    Calls <- TwoCalls
    ProcOf <- AllOnOne
    Requests <- MixedRequests
    NoRequest = NoRequest
PROPERTIES
    RequestsConverge
