\* The taint of a node whose driver never serves.
SPECIFICATION FairSpec
CONSTANTS
    Configurations <- UnservedNode
    Taints <- MCTaints
    NotReadyTaints <- NotReady
    InstanceId = "i-1"
    InstanceRegion = "us-east-1"
    NoMetadata = NoMetadata
    MaxFaults = 0
    MaxEdits = 0
PROPERTIES
    RemovalMeansStarted
