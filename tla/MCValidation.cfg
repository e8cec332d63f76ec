\* Every request the checks tell apart, one at a time, against an FSx that may never
\* finish what it was asked to do.
SPECIFICATION AnswerSpec
CONSTANTS
    GiB = 2
    MaxInt32 = 4
    FsIds <- TwoFs
    VolIds <- TwoVols
    SnapIds <- OneSnap
    RootVolume <- MCRootVolume
    ParentFs = "fs-1"
    Names <- MCNames
    Params <- MCParams
    Preexisting <- FsAndVol
    NoInput = NoInput
    MayFail = FALSE
    MaxUpdates = 1
    MaxPolls = 1
    MaxDisturbances = 0
    c1 = c1
    c2 = c2
    p1 = p1
    p2 = p2
    Procs <- OneReplica
    Calls <- OneCall
    ProcOf <- Single
    Requests <- ValidatedRequests
    NoRequest = NoRequest
INVARIANTS
    NoFlawedResource
PROPERTIES
    EveryCallAnswered
