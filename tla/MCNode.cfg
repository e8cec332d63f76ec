\* Repeated and concurrent requests for two target paths, stale mounts, crashes.
SPECIFICATION Spec
CONSTANTS
    c1 = c1
    c2 = c2
    Calls <- TwoCalls
    Requests <- AllRequests
    NoRequest = NoRequest
    Targets <- TwoTargets
    MayGoStale <- OneTarget
    MaxDisturbances = 3
INVARIANTS
    TypeOK
    InFlightExact
    RemoveAllSeesNoMount
    NoStackedMounts
    PublishedIsMounted
    UnpublishedIsUnmounted
PROPERTIES
    AbortedForSamePathOnly
    ImplementsKeyedLock
SYMMETRY SymmetricCalls
