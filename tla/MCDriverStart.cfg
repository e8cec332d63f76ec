\* Deployments that work and that do not, through failures and restarts.
SPECIFICATION FairSpec
CONSTANTS
    Configurations <- MCConfigurations
    Taints <- MCTaints
    NotReadyTaints <- NotReady
    InstanceId = "i-1"
    InstanceRegion = "us-east-1"
    NoMetadata = NoMetadata
    MaxFaults = 2
    MaxEdits = 2
INVARIANTS
    TypeOK
    ServesAsDeployed
PROPERTIES
    OnlyNotReadyTaintRemoved
    EventuallyServing
    TaintEventuallyRemoved
\* A driver that serves waits for requests.
CHECK_DEADLOCK FALSE
