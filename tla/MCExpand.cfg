\* Storage updates of one file system by two replicas.
SPECIFICATION Spec
CONSTANTS
    GiB = 2
    MaxInt32 = 4
    FsIds <- OneFs
    VolIds <- None
    SnapIds <- None
    RootVolume <- MCRootVolume
    ParentFs = "fs-1"
    Names <- MCNames
    Params <- MCParams
    Preexisting <- OnlyFs
    NoInput = NoInput
    MayFail = TRUE
    MaxUpdates = 3
    MaxPolls = 1
    MaxDisturbances = 2
    c1 = c1
    c2 = c2
    p1 = p1
    p2 = p2
    Procs <- TwoReplicas
    Calls <- TwoCalls
    ProcOf <- OneEach
    Requests <- ExpandRequests
    NoRequest = NoRequest
INVARIANTS
    ExpandAnswerSound
PROPERTIES
    ResizeErrorsAreReal
SYMMETRY SymmetricReplicas
