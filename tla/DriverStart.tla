---------------------------- MODULE DriverStart -----------------------------
(***************************************************************************)
(* The start of the driver's process on a node, from its flags to its gRPC *)
(* server, and the goroutine that removes the not-ready taint meanwhile.   *)
(* The process may fail or be killed at any point and is started again; its *)
(* socket stays behind, and so may a patch that it has sent.  Other clients *)
(* of the Kubernetes API edit the taints of the node at any time.           *)
(***************************************************************************)
EXTENDS Naturals, FiniteSets

CONSTANTS
    Configurations, \* deployments: flags, environment and metadata sources
    Taints,         \* the taints a node may have, a key and an effect each
    NotReadyTaints, \* those with the key AgentNotReadyNodeTaintKey
    InstanceId,     \* the instance the process runs on
    InstanceRegion, \* and its region
    NoMetadata,
    MaxFaults,      \* bound: failing requests, listeners and processes
    MaxEdits        \* bound: edits of the taints by others

VARIABLES
    conf,       \* the deployment
    phase,      \* how far the main goroutine is
    built,      \* the services that NewDriver made
    services,   \* the services registered with the gRPC server
    region,     \* the region of the controller's cloud
    metadata,   \* the metadata of the node service
    socket,     \* the file at the path of the endpoint
    remover,    \* how far tryRemoveNotReadyTaintUntilSucceed is
    seen,       \* the taints its last Get returned
    taints,     \* the taints of the node
    late,       \* patches that processes now gone had sent
    faults, edits

process == <<phase, built, services, region, metadata, remover, seen>>
cluster == <<taints, late>>
vars == <<conf, process, socket, cluster, faults, edits>>

Modes == {"controller", "node", "all"}
NoRegion == ""

\* Some configurations name no mode or endpoint the driver knows, leave out an
\* environment variable, or reach a metadata source that knows less than asked.
Configuration ==
    [mode : Modes \cup {"unknown"}, version : BOOLEAN,
     endpoint : {"tcp", "unix", "other"}, region : {NoRegion, InstanceRegion},
     nodeName : BOOLEAN, client : BOOLEAN, imds : BOOLEAN,
     document : SUBSET {"instanceId", "instanceType", "region", "availabilityZone"},
     provider : {"none", "other", "instance"}]

ASSUME ConfigurationsAssumption == Configurations \subseteq Configuration
ASSUME TaintsAssumption == NotReadyTaints \subseteq Taints
ASSUME RegionAssumption == InstanceRegion # NoRegion
ASSUME BoundsAssumption == MaxFaults \in Nat /\ MaxEdits \in Nat

Metadata == [instanceId : {InstanceId}, region : {NoRegion, InstanceRegion}]

Patches == [test : SUBSET (SUBSET Taints), replace : SUBSET Taints]

TypeOK ==
    /\ conf \in Configurations
    /\ phase \in {"down", "options", "new", "controller", "node", "service",
                  "endpoint", "listen", "serving"}
    /\ built \subseteq {"controller", "node"}
    /\ services \subseteq {"identity", "controller", "node"}
    /\ region \in {NoRegion, InstanceRegion}
    /\ metadata \in Metadata \cup {NoMetadata}
    /\ socket \in {"none", "bound", "stale", "directory"}
    /\ remover \in {"off", "get", "patch", "sleep", "done"}
    /\ seen \subseteq Taints
    /\ taints \subseteq Taints
    /\ late \subseteq Patches
    /\ faults \in 0 .. MaxFaults
    /\ edits \in 0 .. MaxEdits

Init ==
    /\ conf \in Configurations
    /\ phase = "down" /\ built = {} /\ services = {}
    /\ region = NoRegion /\ metadata = NoMetadata
    /\ socket \in {"none", "stale", "directory"}
    /\ remover = "off" /\ seen = {}
    /\ taints \in SUBSET Taints /\ late = {}
    /\ faults = 0 /\ edits = 0

\* A fault is counted; a step without one is not.
Fault == faults < MaxFaults /\ faults' = faults + 1
Counted(faulty) == IF faulty THEN Fault ELSE UNCHANGED faults

-----------------------------------------------------------------------------
(* The patch that removes the taint.                                       *)

taintsToKeep(node) == node \ NotReadyTaints

\* Mutant: the patch does not test the taints it replaces.
UntestedPatch(node) == [test |-> SUBSET Taints, replace |-> taintsToKeep(node)]

\* The patch applies to a node whose taints pass its test.
patchRemoveTaints(node) == [test |-> {node}, replace |-> taintsToKeep(node)]

\* The Kubernetes API carries out a patch as a whole or not at all.
Applies(patch) == taints \in patch.test
Patched(patch) == IF Applies(patch) THEN patch.replace ELSE taints

-----------------------------------------------------------------------------
(* The main goroutine.                                                     *)

\* The process ends, with a status, by a panic or killed.  A listener that is
\* not closed leaves its socket, and a patch that is on its way may arrive.
Down ==
    /\ phase' = "down" /\ built' = {} /\ services' = {}
    /\ region' = NoRegion /\ metadata' = NoMetadata
    /\ remover' = "off" /\ seen' = {}
    /\ IF remover = "patch"
       THEN late' \in {late, late \cup {patchRemoveTaints(seen)}}
       ELSE UNCHANGED late
    /\ UNCHANGED <<conf, taints, edits>>

Exit == Down /\ UNCHANGED socket
Abandoned == IF socket = "bound" THEN "stale" ELSE socket

\* The kubelet starts the container again.
Start ==
    /\ phase = "down"
    /\ phase' = "options"
    /\ UNCHANGED <<conf, built, services, region, metadata, socket, remover, seen,
                   cluster, faults, edits>>

\* The process is killed, or panics where it could not make its AWS client.
Crash ==
    /\ phase # "down"
    /\ Fault
    /\ Down
    /\ socket' = Abandoned

GoTo(next) ==
    /\ phase' = next
    /\ UNCHANGED <<conf, cluster, edits, services>>

\* GetOptions ends the process for --version.  It looks at the mode before it
\* parses the flags, sees the default, and so refuses no mode.
GetOptions ==
    /\ phase = "options"
    /\ UNCHANGED faults
    /\ IF conf.version
       THEN Exit
       ELSE GoTo("new") /\ UNCHANGED <<built, region, metadata, socket, remover, seen>>

\* NewDriver switches on the mode, which main has from the flag.
NewDriver ==
    /\ phase = "new"
    /\ UNCHANGED faults
    /\ IF conf.mode \notin Modes
       THEN Exit
       ELSE /\ GoTo(IF conf.mode = "node" THEN "node" ELSE "controller")
            /\ UNCHANGED <<built, region, metadata, socket, remover, seen>>

\* Mutant: a document without a region will do.
IMDSInstanceInfoAnyRegion(document, regionFromSession) ==
    IF {"instanceId", "instanceType", "availabilityZone"} \subseteq document
    THEN [instanceId |-> InstanceId,
          region |-> IF "region" \in document THEN InstanceRegion
                                              ELSE regionFromSession]
    ELSE NoMetadata

\* What is read from the instance identity document, and from AWS_REGION if it has
\* no region.
IMDSInstanceInfo(document, regionFromSession) ==
    IF /\ {"instanceId", "instanceType", "availabilityZone"} \subseteq document
       /\ "region" \in document \/ regionFromSession # NoRegion
    THEN [instanceId |-> InstanceId,
          region |-> IF "region" \in document THEN InstanceRegion
                                              ELSE regionFromSession]
    ELSE NoMetadata

\* Mutant: the provider id is taken as it is.
KubernetesAPIInstanceInfoUnparsed(provider) ==
    IF conf.nodeName
    THEN [instanceId |-> IF provider = "instance" THEN InstanceId ELSE provider,
          region |-> NoRegion]
    ELSE NoMetadata

\* What is read from the node object, which has no region.
KubernetesAPIInstanceInfo(provider) ==
    IF conf.nodeName /\ provider = "instance"
    THEN [instanceId |-> InstanceId, region |-> NoRegion]
    ELSE NoMetadata

\* IMDS, if it answers at all, decides.  Its document, or the node object, cannot
\* always be had.
NewMetadataService(answer) ==
    IF answer.imds THEN IMDSInstanceInfo(answer.document, conf.region)
    ELSE IF conf.client THEN KubernetesAPIInstanceInfo(answer.provider)
    ELSE NoMetadata

\* What the sources answer: as they are deployed, or with a failure.
Deployed ==
    [imds |-> conf.imds, document |-> conf.document, provider |-> conf.provider]
Answers ==
    [imds : {conf.imds, FALSE}, document : {conf.document, {}},
     provider : {conf.provider, "none"}]

ControllerBuilt(reg) ==
    /\ region' = reg
    /\ built' = built \cup {"controller"}
    /\ GoTo(IF conf.mode = "all" THEN "node" ELSE "endpoint")
    /\ UNCHANGED <<metadata, socket, remover, seen>>

ControllerMetadata(md) ==
    IF md = NoMetadata THEN Exit ELSE ControllerBuilt(md.region)

newControllerService ==
    /\ phase = "controller"
    /\ IF conf.region # NoRegion
       THEN ControllerBuilt(conf.region) /\ UNCHANGED faults
       ELSE \E answer \in Answers :
                /\ Counted(answer # Deployed)
                /\ ControllerMetadata(NewMetadataService(answer))

\* With the metadata and a mounter in hand, the goroutine that removes the taint is
\* started: it runs while the rest of the start goes on.
NodeMetadata(md) ==
    IF md = NoMetadata
    THEN Exit
    ELSE /\ metadata' = md
         /\ remover' = "get"
         /\ GoTo("service")
         /\ UNCHANGED <<built, region, socket, seen>>

newNodeService ==
    /\ phase = "node"
    /\ \E answer \in Answers :
        /\ Counted(answer # Deployed)
        /\ NodeMetadata(NewMetadataService(answer))

\* newNodeService returns the service.
NodeBuilt ==
    /\ phase = "service"
    /\ built' = built \cup {"node"}
    /\ GoTo("endpoint")
    /\ UNCHANGED <<region, metadata, socket, remover, seen, faults>>

\* Mutant: the socket that is there stays.
ParseEndpointOnly ==
    /\ phase = "endpoint"
    /\ UNCHANGED faults
    /\ IF conf.endpoint = "other"
       THEN Exit
       ELSE /\ GoTo("listen")
            /\ UNCHANGED <<built, region, metadata, socket, remover, seen>>

\* ParseEndpoint removes what is at the path of the socket, if it can: not a
\* directory that holds something.
ParseEndpoint ==
    /\ phase = "endpoint"
    /\ UNCHANGED faults
    /\ IF conf.endpoint = "other" \/ (conf.endpoint = "unix" /\ socket = "directory")
       THEN Exit
       ELSE /\ GoTo("listen")
            /\ socket' = IF conf.endpoint = "unix" THEN "none" ELSE socket
            /\ UNCHANGED <<built, region, metadata, remover, seen>>

\* The services that Run registers, and serves from then on.
Registered == {"identity"} \cup IF conf.mode = "all" THEN {"controller", "node"}
                                                    ELSE {conf.mode}

\* A socket that is there already is in use to net.Listen.
CanListen == conf.endpoint = "unix" => socket = "none"
Serve ==
    /\ phase = "listen"
    /\ CanListen
    /\ phase' = "serving"
    /\ services' = Registered
    /\ socket' = IF conf.endpoint = "unix" THEN "bound" ELSE socket
    /\ UNCHANGED <<conf, built, region, metadata, remover, seen, cluster, faults,
                   edits>>

\* Listen fails: Run returns its error and main ends.
ListenFails ==
    /\ phase = "listen"
    /\ Counted(CanListen)
    /\ Exit

\* Serve returns an error, and closes its listener, which removes the socket.
ServeFails ==
    /\ phase = "serving"
    /\ Fault
    /\ Down
    /\ socket' = IF socket = "bound" THEN "none" ELSE socket

Main == GetOptions \/ NewDriver \/ newControllerService \/ newNodeService
        \/ NodeBuilt \/ ParseEndpoint \/ Serve \/ (ListenFails /\ ~CanListen)

-----------------------------------------------------------------------------
(* The goroutine that removes the taint.                                   *)

Remove(next) ==
    /\ remover' = next
    /\ UNCHANGED <<conf, phase, built, services, region, metadata, socket, edits>>

\* Mutant: an error ends the loop.
AfterFailureGiveUp == "done"

\* tryRemoveNotReadyTaintUntilSucceed after an error.
AfterFailure == "sleep"

\* removeNotReadyTaint as far as its Get and what follows from it.
Get ==
    /\ remover = "get"
    /\ UNCHANGED <<cluster, faults>>
    /\ IF conf.nodeName /\ conf.client /\ taintsToKeep(taints) # taints
       THEN Remove("patch") /\ seen' = taints
       ELSE Remove("done") /\ seen' = {}

\* Get returns an error.
GetFails ==
    /\ remover = "get" /\ conf.nodeName /\ conf.client
    /\ Fault
    /\ Remove(AfterFailure)
    /\ UNCHANGED <<seen, cluster>>

\* The patch is applied, or is refused by its test.
Patch ==
    /\ remover = "patch"
    /\ taints' = Patched(patchRemoveTaints(seen))
    /\ Remove(IF Applies(patchRemoveTaints(seen)) THEN "done" ELSE AfterFailure)
    /\ seen' = {}
    /\ UNCHANGED <<late, faults>>

\* The patch fails, or its answer is lost, or it is late.
PatchFails ==
    /\ remover = "patch"
    /\ Fault
    /\ \/ UNCHANGED cluster
       \/ taints' = Patched(patchRemoveTaints(seen)) /\ UNCHANGED late
       \/ late' = late \cup {patchRemoveTaints(seen)} /\ UNCHANGED taints
    /\ Remove(AfterFailure)
    /\ seen' = {}

Retry ==
    /\ remover = "sleep"
    /\ Remove("get")
    /\ UNCHANGED <<seen, cluster, faults>>

Remover == Get \/ Patch \/ Retry

-----------------------------------------------------------------------------
(* The Kubernetes API and its other clients.                               *)

\* The patch of a process that is gone arrives.
LatePatch ==
    \E patch \in late :
        /\ taints' = Patched(patch)
        /\ late' = late \ {patch}
        /\ UNCHANGED <<conf, process, socket, faults, edits>>

\* Another client changes the taints.
Edit ==
    /\ edits < MaxEdits
    /\ edits' = edits + 1
    /\ taints' \in SUBSET Taints \ {taints}
    /\ UNCHANGED <<conf, process, socket, late, faults>>

Next ==
    \/ Start \/ GetOptions \/ NewDriver \/ newControllerService \/ newNodeService
    \/ NodeBuilt \/ ParseEndpoint \/ Serve \/ ListenFails \/ ServeFails \/ Crash
    \/ Get \/ GetFails \/ Patch \/ PatchFails \/ Retry
    \/ LatePatch \/ Edit

Spec == Init /\ [][Next]_vars

\* The kubelet restarts the container and both goroutines run on.
Fairness == WF_vars(Start) /\ WF_vars(Main) /\ WF_vars(Remover)

FairSpec == Spec /\ Fairness

-----------------------------------------------------------------------------
(* Properties.                                                             *)

\* Whoever else edits the taints while removeNotReadyTaint is between its Get and
\* its Patch, and however late a patch is: the driver takes nothing off the node
\* but the not-ready taint, and puts nothing back.
OnlyNotReadyTaintRemoved ==
    [][edits' = edits => taints' \in {taints, taints \ NotReadyTaints}]_vars

\* The comment on the goroutine of newNodeService: the taint is removed "to indicate
\* driver startup success", "at the last possible moment to prevent race conditions
\* or false positive removals".  A process that takes it off is serving.
RemovalMeansStarted ==
    [][Patch /\ taints' # taints => phase = "serving"]_vars

\* NewDriver and Run switch on the mode separately: the services that are served
\* are the ones that were made, the node service with the id of its instance, and
\* the controller with a region unless AWS_REGION has none and IMDS is out of reach
\* or has ever failed to answer.
ServesAsDeployed ==
    phase = "serving" =>
        /\ services = built \cup {"identity"}
        /\ built # {}
        /\ conf.endpoint = "unix" => socket = "bound"
        /\ "node" \in built => metadata \in Metadata
        /\ "controller" \in built /\ region = NoRegion =>
               conf.region = NoRegion /\ (~conf.imds \/ faults > 0)

\* A deployment whose metadata can be had from the sources it reaches.
MetadataKnown ==
    IF conf.imds
    THEN /\ {"instanceId", "instanceType", "availabilityZone"} \subseteq conf.document
         /\ "region" \in conf.document \/ conf.region # NoRegion
    ELSE conf.client /\ conf.nodeName /\ conf.provider = "instance"
WellDeployed ==
    /\ conf.mode \in Modes /\ ~conf.version
    /\ conf.endpoint = "tcp" \/ (conf.endpoint = "unix" /\ socket # "directory")
    /\ MetadataKnown \/ (conf.mode = "controller" /\ conf.region # NoRegion)

\* However often the process fails or is killed, and whatever socket it leaves to
\* the next one: a sound deployment serves in the end and goes on serving.
EventuallyServing == WellDeployed => <>[](phase = "serving")

\* The retries of tryRemoveNotReadyTaintUntilSucceed "ensur[e] the taint will
\* eventually be removed": unless its process ends, a goroutine that can reach the
\* Kubernetes API and knows its node finds the node without the taint.
TaintEventuallyRemoved ==
    (remover = "get" /\ conf.client /\ conf.nodeName)
        ~> (taints \cap NotReadyTaints = {} \/ phase = "down")

=============================================================================
