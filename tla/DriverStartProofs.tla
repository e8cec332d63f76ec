------------------------- MODULE DriverStartProofs --------------------------
(***************************************************************************)
(* Proofs about DriverStart, for every set of deployments and of taints    *)
(* and for every number of failures and edits.                             *)
(***************************************************************************)
EXTENDS DriverStart, TLAPS

Running == {"endpoint", "listen", "serving"}

\* What NewDriver makes for a mode.
Wanted == IF conf.mode = "all" THEN {"controller", "node"} ELSE {conf.mode}

\* How far the services are made in each phase.
BuiltInOrder ==
    /\ phase \in {"down", "options", "new", "controller"} => built = {}
    /\ phase = "controller" => conf.mode \in {"controller", "all"}
    /\ phase = "node" =>
          \/ conf.mode = "node" /\ built = {}
          \/ conf.mode = "all" /\ built = {"controller"}
    /\ phase = "service" =>
          /\ \/ conf.mode = "node" /\ built = {}
             \/ conf.mode = "all" /\ built = {"controller"}
          /\ metadata \in Metadata /\ metadata # NoMetadata
    /\ phase \in Running => conf.mode \in Modes /\ built = Wanted
    /\ "node" \in built => metadata \in Metadata /\ metadata # NoMetadata

\* The goroutine lives only once newNodeService has started it.
RemoverRuns ==
    /\ remover # "off" => phase \in Running \cup {"service"}
    /\ remover # "patch" => seen = {}

\* A controller without a region had no source that knows it.
RegionSource ==
    "controller" \in built /\ region = NoRegion =>
        conf.region = NoRegion /\ (~conf.imds \/ faults > 0)

\* What is served.
Serving ==
    phase = "serving" =>
        /\ services = Registered
        /\ conf.endpoint = "unix" => socket = "bound"

\* Every patch under way was made by removeNotReadyTaint.
LatePatches == \A p \in late : \E node \in SUBSET Taints : p = patchRemoveTaints(node)

Inv ==
    /\ TypeOK
    /\ BuiltInOrder
    /\ RemoverRuns
    /\ RegionSource
    /\ Serving
    /\ LatePatches

-----------------------------------------------------------------------------

\* The patch of removeNotReadyTaint is one.
LEMMA PatchType ==
    ASSUME NEW node \in SUBSET Taints
    PROVE  patchRemoveTaints(node) \in Patches
BY DEF patchRemoveTaints, taintsToKeep, Patches

\* A patch leaves the taints as they are or takes the not-ready ones off.
LEMMA PatchEffect ==
    ASSUME NEW node \in SUBSET Taints
    PROVE  Patched(patchRemoveTaints(node)) \in {taints, taints \ NotReadyTaints}
BY DEF Patched, Applies, patchRemoveTaints, taintsToKeep

\* The fields of a deployment.
LEMMA ConfType ==
    ASSUME TypeOK
    PROVE  /\ conf.mode \in Modes \cup {"unknown"}
           /\ conf.endpoint \in {"tcp", "unix", "other"}
           /\ conf.region \in {NoRegion, InstanceRegion}
           /\ conf.imds \in BOOLEAN
           /\ conf.nodeName \in BOOLEAN
           /\ conf.client \in BOOLEAN
BY ConfigurationsAssumption DEF TypeOK, Configuration

\* What NewMetadataService returns; no region comes only from the node object.
LEMMA MetadataType ==
    ASSUME TypeOK, NEW answer \in Answers, NewMetadataService(answer) # NoMetadata
    PROVE  /\ NewMetadataService(answer) \in Metadata
           /\ NewMetadataService(answer).region \in {NoRegion, InstanceRegion}
           /\ NewMetadataService(answer).region = NoRegion => ~answer.imds
<1>1. conf.region \in {NoRegion, InstanceRegion}
  BY ConfType
<1>2. CASE answer.imds
  BY <1>1, <1>2, RegionAssumption DEF NewMetadataService, IMDSInstanceInfo, Metadata
<1>3. CASE ~answer.imds
  BY <1>3 DEF NewMetadataService, KubernetesAPIInstanceInfo, Metadata
<1> QED BY <1>2, <1>3

\* An attempt in which a reachable IMDS is silent is counted as a fault.
LEMMA CountedSilence ==
    ASSUME TypeOK, NEW answer \in Answers, Counted(answer # Deployed)
    PROVE  /\ faults' \in 0 .. MaxFaults
           /\ faults' >= faults
           /\ ~answer.imds => ~conf.imds \/ faults' > 0
<1>1. faults \in Nat /\ faults <= MaxFaults /\ MaxFaults \in Nat
  BY BoundsAssumption DEF TypeOK
<1>2. CASE answer = Deployed
  <2>1. faults' = faults
    BY <1>2 DEF Counted
  <2>2. answer.imds = conf.imds
    BY <1>2 DEF Deployed
  <2> QED BY <1>1, <2>1, <2>2
<1>3. CASE answer # Deployed
  BY <1>1, <1>3 DEF Counted, Fault
<1> QED BY <1>2, <1>3

-----------------------------------------------------------------------------

\* A process that ends keeps the invariant, whatever becomes of its socket.
LEMMA DownInv ==
    ASSUME Inv, Down, faults' \in 0 .. MaxFaults,
           socket' \in {"none", "bound", "stale", "directory"}
    PROVE  Inv'
<1>1. late' \subseteq Patches /\ LatePatches'
  <2>1. late' \subseteq late \cup {patchRemoveTaints(seen)}
    BY DEF Down
  <2>2. seen \in SUBSET Taints
    BY DEF Inv, TypeOK
  <2>3. patchRemoveTaints(seen) \in Patches
    BY <2>2, PatchType
  <2>4. late' \subseteq Patches
    BY <2>1, <2>3 DEF Inv, TypeOK
  <2>5. \A p \in late' : \E node \in SUBSET Taints : p = patchRemoveTaints(node)
    BY <2>1, <2>2 DEF Inv, LatePatches
  <2> QED BY <2>4, <2>5 DEF LatePatches, patchRemoveTaints, taintsToKeep
<1>2. TypeOK'
  BY <1>1 DEF Inv, TypeOK, Down
<1>3. BuiltInOrder' /\ RemoverRuns' /\ RegionSource' /\ Serving'
  BY DEF Down, BuiltInOrder, RemoverRuns, RegionSource, Serving, Running
<1> QED BY <1>1, <1>2, <1>3 DEF Inv

\* The same for a process that leaves the socket alone.
LEMMA ExitInv ==
    ASSUME Inv, Exit, faults' \in 0 .. MaxFaults
    PROVE  Inv'
BY DownInv DEF Exit, Inv, TypeOK

\* A fault is within its bound.
LEMMA FaultType ==
    ASSUME TypeOK, Fault
    PROVE  faults' \in 0 .. MaxFaults /\ faults' > 0
<1>1. faults \in Nat /\ MaxFaults \in Nat
  BY BoundsAssumption DEF TypeOK
<1> QED BY <1>1 DEF Fault

\* The controller service is made, with some region.
LEMMA ControllerBuiltInv ==
    ASSUME Inv, phase = "controller", NEW reg \in {NoRegion, InstanceRegion},
           ControllerBuilt(reg), faults' \in 0 .. MaxFaults,
           reg = NoRegion => conf.region = NoRegion /\ (~conf.imds \/ faults' > 0)
    PROVE  Inv'
<1>1. conf' = conf /\ late' = late /\ taints' = taints /\ services' = services
      /\ edits' = edits
  BY DEF ControllerBuilt, GoTo, cluster
<1>2. built = {} /\ conf.mode \in {"controller", "all"}
  BY DEF Inv, BuiltInOrder
<1>3. built' = {"controller"}
  BY <1>2 DEF ControllerBuilt
<1>4. phase' = IF conf.mode = "all" THEN "node" ELSE "endpoint"
  BY DEF ControllerBuilt, GoTo
<1>5. TypeOK'
  BY <1>1, <1>3, <1>4 DEF Inv, TypeOK, ControllerBuilt
<1>6. BuiltInOrder'
  BY <1>1, <1>2, <1>3, <1>4 DEF BuiltInOrder, Wanted, Running, Modes
<1>7. RemoverRuns'
  BY <1>2 DEF Inv, RemoverRuns, ControllerBuilt, Running
<1>8. RegionSource'
  BY <1>1 DEF RegionSource, ControllerBuilt
<1>9. Serving'
  BY <1>4 DEF Serving
<1>10. LatePatches'
  BY <1>1 DEF Inv, LatePatches, patchRemoveTaints, taintsToKeep
<1> QED BY <1>5, <1>6, <1>7, <1>8, <1>9, <1>10 DEF Inv

\* The goroutine of the node service is started.
LEMMA NodeMetadataInv ==
    ASSUME Inv, phase = "node", NEW md \in Metadata, md # NoMetadata,
           NodeMetadata(md), faults' \in 0 .. MaxFaults, faults' >= faults
    PROVE  Inv'
<1>1. /\ conf' = conf /\ late' = late /\ taints' = taints /\ services' = services
      /\ edits' = edits /\ region' = region /\ seen' = seen /\ socket' = socket
      /\ metadata' = md /\ remover' = "get" /\ phase' = "service"
      /\ built' = built
  BY DEF NodeMetadata, GoTo, cluster
<1>2. \/ conf.mode = "node" /\ built = {}
      \/ conf.mode = "all" /\ built = {"controller"}
  BY DEF Inv, BuiltInOrder
<1>3. TypeOK'
  BY <1>1 DEF Inv, TypeOK
<1>4. BuiltInOrder'
  BY <1>1, <1>2 DEF BuiltInOrder, Wanted, Running, Modes
<1>5. RemoverRuns'
  <2>1. remover # "patch"
    BY DEF Inv, RemoverRuns, Running
  <2> QED BY <1>1, <2>1 DEF Inv, RemoverRuns, Running
<1>6. RegionSource'
  <2>1. faults \in Nat /\ faults' \in Nat
    BY BoundsAssumption DEF Inv, TypeOK
  <2> QED BY <1>1, <2>1 DEF Inv, RegionSource
<1>7. Serving'
  BY <1>1 DEF Serving
<1>8. LatePatches'
  BY <1>1 DEF Inv, LatePatches, patchRemoveTaints, taintsToKeep
<1> QED BY <1>3, <1>4, <1>5, <1>6, <1>7, <1>8 DEF Inv

\* The node service is made.
LEMMA NodeBuiltInv ==
    ASSUME Inv, NodeBuilt
    PROVE  Inv'
<1>1. /\ conf' = conf /\ late' = late /\ taints' = taints /\ services' = services
      /\ edits' = edits /\ region' = region /\ seen' = seen /\ socket' = socket
      /\ metadata' = metadata /\ remover' = remover /\ phase = "service"
      /\ phase' = "endpoint" /\ faults' = faults
      /\ built' = built \cup {"node"}
  BY DEF NodeBuilt, GoTo, cluster
<1>2. \/ conf.mode = "node" /\ built = {}
      \/ conf.mode = "all" /\ built = {"controller"}
  BY <1>1 DEF Inv, BuiltInOrder
<1>3. TypeOK'
  BY <1>1 DEF Inv, TypeOK
<1>4. BuiltInOrder'
  BY <1>1, <1>2 DEF Inv, BuiltInOrder, Wanted, Running, Modes
<1>5. RemoverRuns'
  BY <1>1 DEF Inv, RemoverRuns, Running
<1>6. RegionSource'
  BY <1>1 DEF Inv, RegionSource
<1>7. Serving'
  BY <1>1 DEF Serving
<1>8. LatePatches'
  BY <1>1 DEF Inv, LatePatches, patchRemoveTaints, taintsToKeep
<1> QED BY <1>3, <1>4, <1>5, <1>6, <1>7, <1>8 DEF Inv

\* The steps of the main goroutine keep the invariant.
LEMMA MainInv ==
    ASSUME Inv,
           Start \/ GetOptions \/ NewDriver \/ newControllerService \/ newNodeService
           \/ NodeBuilt \/ ParseEndpoint \/ Serve \/ ListenFails \/ ServeFails \/ Crash
    PROVE  Inv'
<1>a. TypeOK /\ faults \in 0 .. MaxFaults
  BY DEF Inv, TypeOK
<1>b. remover = "off" \/ phase \in Running \cup {"service"}
  BY DEF Inv, RemoverRuns
<1>1. CASE Start
  <2>1. built = {} /\ remover = "off" /\ phase' = "options"
    BY <1>1, <1>b DEF Start, Inv, BuiltInOrder, Running
  <2>2. UNCHANGED <<conf, built, services, region, metadata, socket, remover, seen,
                    late, taints, faults, edits>>
    BY <1>1 DEF Start, cluster
  <2>3. TypeOK'
    BY <2>1, <2>2 DEF Inv, TypeOK
  <2>4. BuiltInOrder' /\ RemoverRuns' /\ RegionSource' /\ Serving'
    BY <2>1, <2>2 DEF Inv, BuiltInOrder, RemoverRuns, RegionSource, Serving, Running
  <2>5. LatePatches'
    BY <2>2 DEF Inv, LatePatches, patchRemoveTaints, taintsToKeep
  <2> QED BY <2>3, <2>4, <2>5 DEF Inv
<1>2. CASE NewDriver
  <2>1. CASE Exit
    BY <1>2, <1>a, <2>1, ExitInv DEF NewDriver
  <2>2. CASE ~Exit
    <3>1. /\ conf.mode \in Modes /\ built = {} /\ remover = "off"
          /\ phase' = IF conf.mode = "node" THEN "node" ELSE "controller"
      BY <1>2, <1>b, <2>2 DEF NewDriver, GoTo, Inv, BuiltInOrder, Running
    <3>2. UNCHANGED <<conf, built, services, region, metadata, socket, remover, seen,
                      late, taints, faults, edits>>
      BY <1>2, <2>2 DEF NewDriver, GoTo, cluster
    <3>3. TypeOK'
      BY <3>1, <3>2 DEF Inv, TypeOK
    <3>4. BuiltInOrder' /\ RemoverRuns' /\ RegionSource' /\ Serving'
      BY <3>1, <3>2 DEF Inv, BuiltInOrder, RemoverRuns, RegionSource, Serving,
                        Running, Modes
    <3>5. LatePatches'
      BY <3>2 DEF Inv, LatePatches, patchRemoveTaints, taintsToKeep
    <3> QED BY <3>3, <3>4, <3>5 DEF Inv
  <2> QED BY <2>1, <2>2
<1>3. CASE newControllerService
  <2>1. CASE conf.region # NoRegion
    <3>1. phase = "controller" /\ ControllerBuilt(conf.region) /\ faults' = faults
      BY <1>3, <2>1 DEF newControllerService
    <3>2. conf.region \in {NoRegion, InstanceRegion}
      BY <1>a, ConfType
    <3> QED BY <1>a, <2>1, <3>1, <3>2, ControllerBuiltInv
  <2>2. CASE conf.region = NoRegion
    <3>1. PICK answer \in Answers : /\ Counted(answer # Deployed)
                                    /\ ControllerMetadata(NewMetadataService(answer))
      BY <1>3, <2>2 DEF newControllerService
    <3>2. /\ faults' \in 0 .. MaxFaults
          /\ ~answer.imds => ~conf.imds \/ faults' > 0
      BY <1>a, <3>1, CountedSilence
    <3>3. CASE NewMetadataService(answer) = NoMetadata
      BY <3>1, <3>2, <3>3, ExitInv DEF ControllerMetadata
    <3>4. CASE NewMetadataService(answer) # NoMetadata
      <4>1. /\ NewMetadataService(answer).region \in {NoRegion, InstanceRegion}
            /\ NewMetadataService(answer).region = NoRegion => ~answer.imds
        BY <1>a, <3>4, MetadataType
      <4>2. phase = "controller" /\ ControllerBuilt(NewMetadataService(answer).region)
        BY <1>3, <3>1, <3>4 DEF newControllerService, ControllerMetadata
      <4> QED BY <2>2, <3>2, <4>1, <4>2, ControllerBuiltInv
    <3> QED BY <3>3, <3>4
  <2> QED BY <2>1, <2>2
<1>4. CASE newNodeService
  <2>1. PICK answer \in Answers : /\ Counted(answer # Deployed)
                                  /\ NodeMetadata(NewMetadataService(answer))
    BY <1>4 DEF newNodeService
  <2>2. faults' \in 0 .. MaxFaults /\ faults' >= faults /\ phase = "node"
    BY <1>4, <1>a, <2>1, CountedSilence DEF newNodeService
  <2>3. CASE NewMetadataService(answer) = NoMetadata
    BY <2>1, <2>2, <2>3, ExitInv DEF NodeMetadata
  <2>4. CASE NewMetadataService(answer) # NoMetadata
    <3>1. NewMetadataService(answer) \in Metadata
      BY <1>a, <2>4, MetadataType
    <3> QED BY <2>1, <2>2, <2>4, <3>1, NodeMetadataInv
  <2> QED BY <2>3, <2>4
<1>5. CASE ParseEndpoint
  <2>1. CASE Exit
    BY <1>5, <1>a, <2>1, ExitInv DEF ParseEndpoint
  <2>2. CASE ~Exit
    <3>1. phase = "endpoint" /\ phase' = "listen"
          /\ socket' \in {"none", "bound", "stale", "directory"}
      BY <1>5, <2>2 DEF ParseEndpoint, GoTo, Inv, TypeOK
    <3>2. UNCHANGED <<conf, built, services, region, metadata, remover, seen, late,
                      taints, faults, edits>>
      BY <1>5, <2>2 DEF ParseEndpoint, GoTo, cluster
    <3>3. TypeOK'
      BY <3>1, <3>2 DEF Inv, TypeOK
    <3>4. BuiltInOrder' /\ RemoverRuns' /\ RegionSource' /\ Serving'
      BY <3>1, <3>2 DEF Inv, BuiltInOrder, RemoverRuns, RegionSource, Serving,
                        Running, Wanted
    <3>5. LatePatches'
      BY <3>2 DEF Inv, LatePatches, patchRemoveTaints, taintsToKeep
    <3> QED BY <3>3, <3>4, <3>5 DEF Inv
  <2> QED BY <2>1, <2>2
<1>6. CASE Serve
  <2>1. /\ phase = "listen" /\ phase' = "serving" /\ services' = Registered
        /\ conf.mode \in Modes
        /\ socket' \in {"none", "bound", "stale", "directory"}
        /\ conf.endpoint = "unix" => socket' = "bound"
    BY <1>6 DEF Serve, Inv, TypeOK, BuiltInOrder, Running
  <2>2. UNCHANGED <<conf, built, region, metadata, remover, seen, late, taints,
                    faults, edits>>
    BY <1>6 DEF Serve, cluster
  <2>3. Registered' = Registered /\ Registered \subseteq {"identity", "controller", "node"}
    BY <2>1, <2>2 DEF Registered, Modes
  <2>4. TypeOK'
    BY <2>1, <2>2, <2>3 DEF Inv, TypeOK
  <2>5. BuiltInOrder' /\ RemoverRuns' /\ RegionSource'
    BY <2>1, <2>2 DEF Inv, BuiltInOrder, RemoverRuns, RegionSource, Running, Wanted
  <2>6. Serving'
    BY <2>1, <2>2, <2>3 DEF Serving
  <2>7. LatePatches'
    BY <2>2 DEF Inv, LatePatches, patchRemoveTaints, taintsToKeep
  <2> QED BY <2>4, <2>5, <2>6, <2>7 DEF Inv
<1>7. CASE ListenFails
  <2>1. faults' \in 0 .. MaxFaults
    BY <1>7, <1>a, FaultType DEF ListenFails, Counted
  <2> QED BY <1>7, <2>1, ExitInv DEF ListenFails
<1>8. CASE ServeFails
  <2>1. faults' \in 0 .. MaxFaults
    BY <1>8, <1>a, FaultType DEF ServeFails
  <2>2. socket' \in {"none", "bound", "stale", "directory"}
    BY <1>8, <1>a DEF ServeFails, TypeOK
  <2> QED BY <1>8, <2>1, <2>2, DownInv DEF ServeFails
<1>9. CASE Crash
  <2>1. faults' \in 0 .. MaxFaults
    BY <1>9, <1>a, FaultType DEF Crash
  <2>2. socket' \in {"none", "bound", "stale", "directory"}
    BY <1>9, <1>a DEF Crash, Abandoned, TypeOK
  <2> QED BY <1>9, <2>1, <2>2, DownInv DEF Crash
<1>10. CASE GetOptions
  <2>1. CASE Exit
    BY <1>10, <1>a, <2>1, ExitInv DEF GetOptions
  <2>2. CASE ~Exit
    <3>1. built = {} /\ remover = "off" /\ phase' = "new"
      BY <1>10, <1>b, <2>2 DEF GetOptions, GoTo, Inv, BuiltInOrder, Running
    <3>2. UNCHANGED <<conf, built, services, region, metadata, socket, remover, seen,
                      late, taints, faults, edits>>
      BY <1>10, <2>2 DEF GetOptions, GoTo, cluster
    <3>3. TypeOK'
      BY <3>1, <3>2 DEF Inv, TypeOK
    <3>4. BuiltInOrder' /\ RemoverRuns' /\ RegionSource' /\ Serving'
      BY <3>1, <3>2 DEF Inv, BuiltInOrder, RemoverRuns, RegionSource, Serving, Running
    <3>5. LatePatches'
      BY <3>2 DEF Inv, LatePatches, patchRemoveTaints, taintsToKeep
    <3> QED BY <3>3, <3>4, <3>5 DEF Inv
  <2> QED BY <2>1, <2>2
<1>11. CASE NodeBuilt
  BY <1>11, NodeBuiltInv
<1> QED BY <1>1, <1>2, <1>3, <1>4, <1>5, <1>6, <1>7, <1>8, <1>9, <1>10, <1>11

-----------------------------------------------------------------------------

\* The steps of the goroutine and of the cluster leave the process alone, except
\* for how far the goroutine is.
LEMMA SideStepInv ==
    ASSUME Inv,
           UNCHANGED <<conf, phase, built, services, region, metadata, socket>>,
           remover' # remover =>
               remover # "off" /\ remover' \in {"get", "patch", "sleep", "done"},
           seen' \subseteq Taints, remover' # "patch" => seen' = {},
           taints' \subseteq Taints,
           late' \subseteq Patches, LatePatches',
           faults' \in 0 .. MaxFaults, faults' >= faults, edits' \in 0 .. MaxEdits
    PROVE  Inv'
<1>1. TypeOK'
  BY DEF Inv, TypeOK
<1>2. BuiltInOrder'
  BY DEF Inv, BuiltInOrder, Wanted
<1>3. RemoverRuns'
  BY DEF Inv, RemoverRuns
<1>4. RegionSource'
  <2>1. faults \in Nat /\ faults' \in Nat
    BY BoundsAssumption DEF Inv, TypeOK
  <2> QED BY <2>1 DEF Inv, RegionSource
<1>5. Serving'
  BY DEF Inv, Serving, Registered
<1> QED BY <1>1, <1>2, <1>3, <1>4, <1>5 DEF Inv

\* Patches that are added were made by removeNotReadyTaint.
LEMMA LateInv ==
    ASSUME Inv, late' \subseteq late \cup {patchRemoveTaints(seen)}
    PROVE  late' \subseteq Patches /\ LatePatches'
<1>1. seen \in SUBSET Taints
  BY DEF Inv, TypeOK
<1>2. patchRemoveTaints(seen) \in Patches
  BY <1>1, PatchType
<1>3. late' \subseteq Patches
  BY <1>2 DEF Inv, TypeOK
<1>4. \A p \in late' : \E node \in SUBSET Taints : p = patchRemoveTaints(node)
  BY <1>1 DEF Inv, LatePatches
<1> QED BY <1>3, <1>4 DEF LatePatches, patchRemoveTaints, taintsToKeep

\* They keep the invariant.
LEMMA RemoverInv ==
    ASSUME Inv, Get \/ GetFails \/ Patch \/ PatchFails \/ Retry \/ LatePatch \/ Edit
    PROVE  Inv'
<1>a. /\ taints \subseteq Taints /\ seen \subseteq Taints /\ late \subseteq Patches
      /\ faults \in 0 .. MaxFaults /\ edits \in 0 .. MaxEdits
      /\ remover # "patch" => seen = {}
  BY DEF Inv, TypeOK, RemoverRuns
<1>b. faults >= faults /\ edits \in Nat /\ faults \in Nat /\ MaxEdits \in Nat
  BY <1>a, BoundsAssumption
<1>c. Patched(patchRemoveTaints(seen)) \subseteq Taints
  BY <1>a, PatchEffect
<1>d. Fault => faults' \in 0 .. MaxFaults /\ faults' >= faults
  BY <1>b, FaultType DEF Fault, Inv
<1>e. late' = late => late' \subseteq Patches /\ LatePatches'
  BY LateInv
<1>1. CASE Get
  BY <1>1, <1>a, <1>b, <1>e, SideStepInv DEF Get, Remove, cluster
<1>2. CASE GetFails
  BY <1>2, <1>a, <1>d, <1>e, SideStepInv DEF GetFails, Remove, AfterFailure, cluster
<1>3. CASE Patch
  BY <1>3, <1>a, <1>b, <1>c, <1>e, SideStepInv DEF Patch, Remove, AfterFailure
<1>4. CASE PatchFails
  <2>1. late' \subseteq late \cup {patchRemoveTaints(seen)}
    BY <1>4 DEF PatchFails, cluster
  <2>2. late' \subseteq Patches /\ LatePatches'
    BY <2>1, LateInv
  <2>3. taints' \subseteq Taints
    BY <1>4, <1>a, <1>c DEF PatchFails, cluster
  <2> QED BY <1>4, <1>a, <1>d, <2>2, <2>3, SideStepInv
          DEF PatchFails, Remove, AfterFailure
<1>5. CASE Retry
  BY <1>5, <1>a, <1>b, <1>e, SideStepInv DEF Retry, Remove, cluster
<1>6. CASE LatePatch
  <2>1. PICK p \in late : taints' = Patched(p) /\ late' = late \ {p}
    BY <1>6 DEF LatePatch
  <2>2. PICK node \in SUBSET Taints : p = patchRemoveTaints(node)
    BY <2>1 DEF Inv, LatePatches
  <2>3. taints' \subseteq Taints
    BY <1>a, <2>1, <2>2, PatchEffect
  <2>4. late' \subseteq Patches /\ LatePatches'
    BY <2>1, LateInv
  <2> QED BY <1>6, <1>a, <1>b, <2>3, <2>4, SideStepInv DEF LatePatch, process
<1>7. CASE Edit
  <2>1. edits' \in 0 .. MaxEdits
    BY <1>7, <1>b DEF Edit
  <2>2. taints' \subseteq Taints
    BY <1>7 DEF Edit
  <2> QED BY <1>7, <1>a, <1>b, <1>e, <2>1, <2>2, SideStepInv DEF Edit, process
<1> QED BY <1>1, <1>2, <1>3, <1>4, <1>5, <1>6, <1>7

\* Inv is inductive.
THEOREM Invariance == Spec => []Inv
<1>1. Init => Inv
  <2> SUFFICES ASSUME Init PROVE Inv
    OBVIOUS
  <2>1. TypeOK
    BY BoundsAssumption DEF Init, TypeOK
  <2>2. BuiltInOrder /\ RemoverRuns /\ RegionSource /\ Serving /\ LatePatches
    BY DEF Init, BuiltInOrder, RemoverRuns, RegionSource, Serving, LatePatches, Running
  <2> QED BY <2>1, <2>2 DEF Inv
<1>2. Inv /\ [Next]_vars => Inv'
  <2> SUFFICES ASSUME Inv, [Next]_vars PROVE Inv'
    OBVIOUS
  <2>1. CASE Next
    BY <2>1, MainInv, RemoverInv DEF Next
  <2>2. CASE UNCHANGED vars
    <3>1. faults >= faults /\ edits \in 0 .. MaxEdits /\ faults \in 0 .. MaxFaults
      BY BoundsAssumption DEF Inv, TypeOK
    <3>2. late' \subseteq Patches /\ LatePatches'
      BY <2>2, LateInv DEF vars, cluster
    <3>3. seen \subseteq Taints /\ taints \subseteq Taints /\ (remover # "patch" => seen = {})
      BY DEF Inv, TypeOK, RemoverRuns
    <3> QED BY <2>2, <3>1, <3>2, <3>3, SideStepInv DEF vars, process, cluster
  <2> QED BY <2>1, <2>2
<1> QED BY <1>1, <1>2, PTL DEF Spec

\* Every variable of the start-up keeps its type, for every deployment.
THEOREM TypeCorrect == Spec => []TypeOK
<1>1. Inv => TypeOK
  BY DEF Inv
<1> QED BY <1>1, Invariance, PTL

\* What is served is what the deployment asks for and what was made for it.
THEOREM ServedAsDeployed == Spec => []ServesAsDeployed
<1>1. Inv => ServesAsDeployed
  BY DEF Inv, BuiltInOrder, RegionSource, Serving, ServesAsDeployed, Registered,
         Wanted, Running, Modes
<1> QED BY <1>1, Invariance, PTL

\* The driver never takes a taint of someone else off the node, and never puts one
\* back, whatever happens between its Get and its Patch.
THEOREM OtherTaintsKept == Spec => OnlyNotReadyTaintRemoved
<1>1. Inv /\ [Next]_vars
        => [edits' = edits => taints' \in {taints, taints \ NotReadyTaints}]_vars
  <2> SUFFICES ASSUME Inv, Next, edits' = edits
               PROVE  taints' \in {taints, taints \ NotReadyTaints}
    OBVIOUS
  <2>1. seen \in SUBSET Taints /\ edits \in Nat
    BY BoundsAssumption DEF Inv, TypeOK
  <2>2. CASE taints' = taints
    BY <2>2
  <2>3. CASE Patch
    BY <2>1, <2>3, PatchEffect DEF Patch
  <2>4. CASE PatchFails
    BY <2>1, <2>4, PatchEffect DEF PatchFails, cluster
  <2>5. CASE LatePatch
    <3>1. PICK p \in late : taints' = Patched(p)
      BY <2>5 DEF LatePatch
    <3>2. PICK node \in SUBSET Taints : p = patchRemoveTaints(node)
      BY <3>1 DEF Inv, LatePatches
    <3> QED BY <3>1, <3>2, PatchEffect
  <2>6. CASE Edit
    BY <2>1, <2>6 DEF Edit
  <2>7. CASE Start \/ GetOptions \/ NewDriver \/ newControllerService \/ newNodeService
             \/ NodeBuilt \/ ParseEndpoint \/ Serve \/ ListenFails \/ ServeFails \/ Crash
    <3>1. taints' = taints
      BY <2>7 DEF Start, GetOptions, NewDriver, newControllerService, newNodeService,
            NodeBuilt, ParseEndpoint, Serve, ListenFails, ServeFails, Crash, Exit, Down, GoTo,
            ControllerMetadata, ControllerBuilt, NodeMetadata, cluster
    <3> QED BY <3>1
  <2>8. CASE Get \/ GetFails \/ Retry
    BY <2>8 DEF Get, GetFails, Retry, cluster
  <2> QED BY <2>3, <2>4, <2>5, <2>6, <2>7, <2>8 DEF Next
<1> QED BY <1>1, Invariance, PTL DEF Spec, OnlyNotReadyTaintRemoved

=============================================================================
