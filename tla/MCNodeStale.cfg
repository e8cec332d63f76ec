\* A mount that does not answer is unpublished.
SPECIFICATION Spec
CONSTANTS
    c1 = c1
    c2 = c2
    Calls <- TwoCalls
    Requests <- ValidRequests
    NoRequest = NoRequest
    Targets <- OneTarget
    MayGoStale <- OneTarget
    MaxDisturbances = 1
INVARIANTS
    TargetNotMounted
