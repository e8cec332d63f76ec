\* File systems: creation, conflicting creation and deletion by two replicas.
SPECIFICATION Spec
CONSTANTS
    GiB = 2
    MaxInt32 = 4
    FsIds <- ThreeFs
    VolIds <- None
    SnapIds <- None
    RootVolume <- MCRootVolume
    ParentFs = "fs-1"
    Names <- MCNames
    Params <- MCParams
    Preexisting <- EarlierFs
    NoInput = NoInput
    MayFail = TRUE
    MaxUpdates = 0
    MaxPolls = 1
    MaxDisturbances = 2
    c1 = c1
    c2 = c2
    p1 = p1
    p2 = p2
    Procs <- TwoReplicas
    Calls <- TwoCalls
    ProcOf <- OneEach
    Requests <- FileSystemRequests
    NoRequest = NoRequest
INVARIANTS
    TypeOK
    OneResourcePerName
    CreateAnswerSound
    DeleteAnswerSound
SYMMETRY SymmetricReplicas
