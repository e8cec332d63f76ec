# A TLA+ model of the Amazon FSx for OpenZFS CSI driver

The driver makes FSx file systems, OpenZFS volumes and snapshots out of Kubernetes
claims and mounts them on nodes. This directory holds TLA+ modules that model its
controller service, its node service and the code below them, TLC configurations
that check them on small instances, and proofs, checked by TLAPS, of the properties
that matter most for every instance. Besides the two services it covers the way of the
parameters of a storage class and the start of the process. Paths below are relative to the repository.

## 1. The system

| Part | Where | State | Operations |
| --- | --- | --- | --- |
| controller service | `pkg/driver/controller.go` | one `InFlight` per process; the locals of the running handlers | CreateVolume, DeleteVolume, CreateSnapshot, DeleteSnapshot, ControllerExpandVolume, ValidateVolumeCapabilities |
| cloud | `pkg/cloud/cloud.go` | none | create, delete, resize, describe and list-tags requests to FSx, three poll loops, the mapping of API errors |
| Amazon FSx | external | resources, their lifecycles, client request tokens, storage capacities, administrative actions | its API, and its own steps: creations, deletions and storage updates progress or fail |
| InFlight | `pkg/driver/internal/inflight.go` | a set of keys under a mutex | Insert, Delete |
| node service | `pkg/driver/node.go`, `mount.go` | one `InFlight`; directories and mounts of the node | NodePublishVolume, NodeUnpublishVolume |
| not-ready taint | `pkg/driver/node.go` | a taint of the Kubernetes node | removal at start-up, with retries |
| capacity conversions | `pkg/util/util.go` | none | BytesToGiB, GiBToBytes |
| parameters, deletion tags | `controller.go`, `util.go`, `pkg/cloud/validation.go` | none | check, collapse and convert parameter maps; encode and decode deletion tags |
| driver start, options, metadata | `cmd/`, `driver.go`, `pkg/cloud/metadata*.go` | the services made and registered, the socket | flags, services of the mode, endpoint, server; IMDS or the node object |
| identity | `identity.go` | none | constant answers |

**Interaction.** The sidecars (provisioner, snapshotter, resizer) and the kubelet call
the services over gRPC, and every request runs in a goroutine of its own. A sidecar
gives up after its `--timeout` (5 minutes,
`deploy/kubernetes/base/controller-deployment.yaml:106`), which cancels the request's
context, and sends the request again later; the handler it gave up on keeps running
until its next API request fails, because `wait.Poll` does not watch the context. The
controller Deployment has two replicas (`controller-deployment.yaml:10`): the
leader changes while the old leader's handlers still run, so requests about the same
resource may be served by two processes at the same time, each with an `InFlight` of
its own. Nothing is persisted but what FSx and the mount table of a node hold, the socket
a killed process leaves, and the deletion parameters, which travel as tags of a resource
from its creation to its deletion.

**What is hard.** Every handler is a sequence of API requests, between any two of which
FSx moves on, another goroutine or replica acts, an administrator deletes something,
the context is canceled or the process dies. A request can fail before it reaches FSx
or after FSx carried it out. Everything is retried, under the same name or id, from the
beginning. On the node, `os.RemoveAll` runs on a path that some other goroutine may be
mounting, and an NFS mount may stop answering. At start-up the goroutine that removes the
not-ready taint replaces the whole list of taints, while the main goroutine may still
fail and others edit the node.

**What makes the parts correct.**

- Keys: `InFlight` holds exactly the keys of the requests being served, whatever path a
  handler takes (`InFlightExact`), and a key has one holder (`MutualExclusion`).
- Both services keep the promise of one lock per key, stated in `KeyedLock`: a request is
  let in exactly when nobody of its process works under its key (`ImplementsKeyedLock`).
- Creation: a name never gets two resources (`OneResourcePerName`); an OK names an
  available resource made from this very request (`CreateAnswerSound`); parameters that
  some check refuses, and capacities that do not fit, never reach FSx
  (`NoFlawedResource`).
- Deletion: an OK means gone or going (`DeleteAnswerSound`).
- Expansion: an OK means that the capacity is there (`ExpandAnswerSound`); an update that is
  under way or was successful is not reported as missing or failed (`ResizeErrorsAreReal`).
- Liveness: every request is answered (`EveryCallAnswered`), and a request that keeps
  being sent succeeds (`RequestsConverge`).
- Node: no data is deleted through a mount (`RemoveAllSeesNoMount`), mounts do not stack
  (`NoStackedMounts`), an answer tells the truth until the next request
  (`PublishedIsMounted`, `UnpublishedIsUnmounted`), and pods that share a volume do not
  turn each other away (`AbortedForSamePathOnly`).
- Parameters: a deletion parameter comes back as it was given (`DeletionAsConfigured`); the
  checks at the creation and at the deletion leave only the tags of a final backup to make a
  deletion fail, and send only what fits (`OnlyFinalBackupTagsBlock`); the decision about the
  final backup that a class must make gets there (`FinalBackupDecided`).
- Start-up: a sound deployment serves in the end, whatever a killed process left
  (`EventuallyServing`), and serves what its mode asks for (`ServesAsDeployed`); the taint goes
  (`TaintEventuallyRemoved`), and no other taint with it (`OnlyNotReadyTaintRemoved`).

## 2. Modules

```
Util   FSx              InFlight            ParameterUtil
  \    /                /      \                 |
   Cloud               /        \            Parameters      DriverStart
      \               /          \               |            /      \
       ControllerService        NodeService  MCParameters  MCDriverStart  DriverStartProofs
        /            \           /        \
  MCController   (proofs)     MCNode   NodeServiceProofs
```

`ControllerService` and `NodeService` both have an instance of `KeyedLock`. `CloudProofs` extends
`Cloud`; `ControllerServiceProofs` extends `ControllerService` and `CloudProofs`;
`ControllerAnswerProofs` extends `ControllerServiceProofs`, and `ControllerResultProofs` extends
`ControllerAnswerProofs`. `DeletionTagProofs` extends `ParameterUtil`; `ParametersProofs` extends
`Parameters` and `DeletionTagProofs`.

**`InFlight`** has the two methods as operators on a set of keys. Both hold the mutex
from beginning to end, so each is one atomic step of its caller.

**`Util`** has `BytesToGiB` and `GiBToBytes`. The number of bytes of a GiB and the
largest int32 are constants, so that a small instance reaches every boundary: TLC runs
with a GiB of 2 bytes and a largest int32 of 4.

**`FSx`** (external) is what the driver expects of the service: a create is idempotent
in its `ClientRequestToken`, and is refused with IncompatibleParameter when the token
was used with another input; a resource goes from PENDING through CREATING to AVAILABLE
or FAILED, and through DELETING to DELETED; a file system takes one storage update at a
time, whose capacity is there from UPDATED_OPTIMIZING on; administrative actions are
listed newest first. A delete may be refused while a resource is being created or
deleted. A token stands for its resource until the resource is deleted.

**`Cloud`** relates one API request to the error the function of `cloud.go` returns. A
request can fail before it is sent (`NotSent`), or be carried out and lose its reply
(`Answered`), and a description may come back with more than was asked for
(ErrMultipleFound), a failure like the others. `AvailableCondition` and `ResizeCondition` are
the condition functions of the poll loops.

**`ControllerService`** has the goroutines of all replicas. `pc[c]` is the next API
request of goroutine `c`; an action is one API request together with the code up to the
next one. `Begin` is the code up to `Insert`, `Validate` all checks before the first
request, in their order. `rid`, `gib` and `polls` are the locals that live across
requests; `canceled` is the context. `Return` is a return with its deferred
`inFlight.Delete`. `Crash` kills a process with its goroutines and its `InFlight`,
`Cancel` is a sidecar's timeout, `ManualDelete` an administrator. `owner` is a history
variable: for which CSI name a resource was made.

| Action | Code |
| --- | --- |
| `Begin`, `Validate` | the heads of all handlers |
| `DescribeSnapshot` | `appendSnapshotARN` |
| `CreateFileSystem`, `CreateVolume`, `CreateSnapshot` | the create request, its error switch |
| `GetVolumeId` | `cloud.GetVolumeId` in CreateSnapshot |
| `WaitForAvailable` | one check of `WaitFor{FileSystem,Volume,Snapshot}Available` |
| `DescribeParent` | the file system lookup at the end of CreateVolume |
| `DescribeForDelete`, `ListTags`, `DeleteVolume` | DeleteVolume with `GetDeleteParameters` |
| `DeleteSnapshot` | DeleteSnapshot |
| `DescribeFileSystem`, `ResizeFileSystem`, `FindUpdate`, `WaitForFileSystemResize` | ControllerExpandVolume |
| `DescribeVolume` | ValidateVolumeCapabilities, which takes no key |

A parameter map is abstracted to a value that tells it from others, its StorageType and
the one thing some check may find wrong with it (`Flaws`). The client request token is
the CSI name, as the code sends it (quoted, which keeps names apart).

**`NodeService`** has the goroutines of one node plugin and the node: the directories
that exist, how many mounts are stacked on a path, and which mounts do not answer. An
action is one call of the mounter. `promise` is a history variable: what the last
answer told the kubelet about a path, from the answer until the next request for the
path is taken up. The key `volumeID+targetPath` is the pair of both: target paths are
absolute and ids hold no `/`, so the concatenation keeps pairs apart.

**`KeyedLock`** is the abstract specification: actors of several domains ask for keys; one
is granted its key if nobody of its domain works under it, refused only if somebody does,
finishes, or dies with its domain. The refinement mapping takes goroutines to actors,
processes to domains, and where a handler is to a phase (`Phase`): asked until `Insert`,
granted until its return, refused if it returned Aborted. Nothing of `InFlight` is in the
abstract specification, so the refinement says that the map, its mutex and the deferred
deletes amount to such a lock.

**`ParameterUtil`** is the part of `util.go` about parameter maps. A value is a sequence of
symbols: the characters the codec of deletion tags treats specially, spaces, and words.
`EncodeDeletionTag` and `DecodeDeletionTag` translate symbol by symbol as the code does, with
`strings.ReplaceAll` from left to right and the six replacements in their order. JSON is
abstracted to the type of a value (`JsonType`), with null, which every field takes and which
leaves it unset, and a Go struct to the names of its fields.

**`Parameters`** follows one resource: `Create`, as CreateVolume, with or without a snapshot as
its source, and CreateSnapshot check, convert and tag its parameter map; `EditTag` and
`RemoveTag`, an administrator; `Delete`, as DeleteVolume gets its parameters back from the tags,
and `DeleteSnapshot`, which has none. `CreateCode` has the checks in the order of the code with
the status each returns, or the panic. What the AWS SDK requires before it sends a request
is part of it: of a creation in `CreateInputInvalid`, of a deletion in `validateDeleteInput`,
which the driver also calls itself, through a linked name, before the creation
(`pkg/cloud/validation.go`). The tags of a request are a set, since their order is that of a
range over a map. `encoding/json` matches names in any case and
`containsDriverProvidedParameters` does not, so the members `SnapshotARN` and `snapshotARN` of
OriginSnapshot are told apart (`Origin`). The control around the requests, and what repeated
creations do, is in `ControllerService`.

**`DriverStart`** has one process on one node. `phase` is where its main goroutine is,
`remover` where the goroutine of `tryRemoveNotReadyTaintUntilSucceed` is; both run at once.

| Action | Code |
| --- | --- |
| `GetOptions`, `NewDriver` | `cmd/options.go`, the switch of `NewDriver` |
| `newControllerService`, `newNodeService` | the same, with `NewMetadataService` and its two sources; the second as far as its `go` statement |
| `NodeBuilt` | the rest of `newNodeService`, while the goroutine runs |
| `ParseEndpoint`, `Serve`, `ListenFails`, `ServeFails` | `util.ParseEndpoint` and `Run` |
| `Get`, `GetFails`, `Patch`, `PatchFails`, `Retry` | `removeNotReadyTaint` and its loop |
| `Start`, `Crash`, `LatePatch`, `Edit` | the kubelet, the end of a process, the network, other clients |

A process that ends leaves its socket, if it did not close it, and a patch that it had
sent may arrive later. Taints are a set, a patch a test and a replacement. A list that
somebody only reordered makes the patch fail, which the model has as a failed patch.

**`MCController`, `MCNode`, `MCParameters`, `MCDriverStart`** define the requests and sets of the small instances.

## 3. Runs

`tlc -workers 2 -config X.cfg M`. Deadlock is checked in every run but `start`: a sidecar
or the kubelet can always send another request, while a driver that has started, with no
failure or edit left to happen, does nothing more in `DriverStart`.

| Run | Module, cfg | Checks |
| --- | --- | --- |
| `filesystem` | MCController, MCFileSystem | TypeOK, OneResourcePerName, CreateAnswerSound, DeleteAnswerSound: two replicas create a file system under one name with equal and with conflicting parameters, and delete it, with a file system there that an earlier installation of the driver made; creations may fail; two disturbances |
| `snapshot` | MCController, MCSnapshot | InFlightExact, MutualExclusion, ImplementsKeyedLock and the three about answers: two goroutines of one process, snapshots of a volume and of a root volume and a volume restored from a snapshot |
| `expand` | MCController, MCExpand | ExpandAnswerSound, ResizeErrorsAreReal: two replicas, expansions to two capacities and beyond a limit, up to three updates, which may fail; two disturbances |
| `validation` | MCController, MCValidation | NoFlawedResource, EveryCallAnswered: every request the checks tell apart, one at a time, and an expansion that waits for its update, with an FSx that may never move on |
| `converge` | MCController, MCConverge | RequestsConverge |
| `node` | MCNode, MCNode | TypeOK, InFlightExact, RemoveAllSeesNoMount, NoStackedMounts, PublishedIsMounted, UnpublishedIsUnmounted, AbortedForSamePathOnly, ImplementsKeyedLock: two paths of one volume, of which one may go stale, valid and invalid requests, failing mounter calls, crashes |
| `start` | MCDriverStart, MCDriverStart | TypeOK, ServesAsDeployed, OnlyNotReadyTaintRemoved, EventuallyServing, TaintEventuallyRemoved: fifteen deployments, two failures, two edits of the taints |
| `parameters` | MCParameters, MCParameters | TypeOK, DeletionAsConfigured, FinalBackupDecided, OnlyFinalBackupTagsBlock: short texts in deletion parameters, and everything that can be wrong with or null in a class; two edits of tags |
| `delete_missing` | MCController, MCDeleteMissing | finding, see below |
| `node_stale` | MCNode, MCNodeStale | finding |
| `taint_removal` | MCDriverStart, MCTaintRemoval | finding |
| `tag_translation` | MCParameters, MCTagTranslation | finding |

**Bounds.** `MaxDisturbances` bounds failed requests, lost replies, cancellations,
crashes, manual deletes, failing mounter calls and mounts that go stale, all together;
two of them give a lost reply followed by a crash of the retry. `MaxPolls` bounds the
checks of a poll loop: one more check is enough to tell "again" from "timed out".
`MaxUpdates` bounds storage updates of a file system: three give a failed update, its
repetition and one to another capacity. `ThreeFs` leaves FSx two ids for one name, so
that a second resource could appear. Two goroutines suffice for the races of the
controller, since the code keeps no state between requests but `InFlight`, and for those of
a path of the node; the theorems are about any number of them. In `parameters` every text of
up to two symbols over a word, the space, a JSON character and two tag characters is, between
its quotes, a deletion parameter: a replacement looks at three neighbours, of which the quotes
are some. `TagRoundTrip` is about texts of every length. `MaxEdits` of 2 edits two tags, or one
twice. `MaxFaults` of 2 in
`start` lets a patch be late and the process die, `MaxEdits` of 2 lets a taint go and come
back between a Get and a Patch; the deployments differ in everything `NewMetadataService`,
`NewDriver` and `Run` branch on. The
safety runs of the controller exchange goroutines of one replica, or replicas together
with their goroutines (`SymmetricCalls`, `SymmetricReplicas`): no request is tied to either.
The runs of liveness properties use no symmetry. The safety theorems below hold without these bounds.

**Fairness.** `AnswerSpec`: weak fairness of every goroutine's next step; the Go
scheduler runs what can run, API requests return, and the timer of `wait.Poll` fires.
Nothing is assumed of FSx. `ConvergeSpec` adds weak fairness of FSx's progress (it
carries out what it accepted; creations and updates do not fail in this run) and strong
fairness of each request being sent, since the sidecars repeat a request, with a
back-off, until it succeeds, while goroutines are busy now and then with other requests.
`FairSpec` of `DriverStart`: weak fairness of the kubelet starting the container again and of
the next step of each of the two goroutines. Failures and edits are bounded, not fair.

**Findings.** Four runs show the code at odds with what the repository says.

- `delete_missing`: DeleteVolume looks the resource up, for its tags, before it deletes
  it, and answers Internal when the lookup finds nothing (`controller.go:341-344`). The
  branch that returns success for a missing volume (`controller.go:365-368`) is reached
  only if the resource disappears between the lookup and the delete. After a deletion
  whose reply was lost, the retries fail for ever once FSx has forgotten the resource.
- `node_stale`: NodeUnpublishVolume drops the error of `IsLikelyNotMountPoint`, which
  comes with `true` for a corrupted mount, and answers OK while the mount stays.
- `taint_removal`: the taint is removed "to indicate driver startup success", "at the last
  possible moment to prevent race conditions or false positive removals" (`node.go:75-76`), by
  a goroutine that starts before the node service is made and the endpoint is parsed and
  bound. The run has a node whose driver never serves, and loses its taint.
- `tag_translation`: `docs/tagging.md:48` says that the spaces around tag characters prevent
  mistranslation. A tag character of the value itself that stands between JSON characters
  gets their spaces, and `[",@"]` comes back as something else. `DeletionAsConfigured` holds
  for the values without such a character (`Unambiguous`).

Other disagreements, which the passing runs allow for:

- An expansion to bytes between two GiB is rounded down, and answered with OK and up to one
  GiB less than was required, on the branch that says "Current capacity is sufficient to
  satisfy the request" (`controller.go:620`). `ExpandAnswerSound` counts in whole GiB.
- `ResizeFileSystem` says "If a previous request timed out and was successful, don't error"
  (`cloud.go:179`), and recognises an update that is in progress. When the update of the first
  request completes after the second one has read the capacity and before it asks for its own
  update, FSx refuses that one for another reason, and the answer is Internal
  (`cloud.go:186`). The next retry succeeds. `ResizeErrorsAreReal` is about updates reported as
  missing or failed, not about this one.
- `docs/tagging.md:26` says that tags "incorrect formatted when edited" are ignored.
  GetDeleteParameters ignores what does not unmarshal; a list with a tag that lacks its Value
  does, and the SDK then refuses to send the deletion, every time (`cloud.go:199`).
  `OnlyFinalBackupTagsBlock` says that this is the only way to get there.
- `docs/FAQ.md:18` says that the driver forces users to decide about the final backup. The value
  null passes the check, which looks for the key (`controller.go:749`), and decides nothing:
  the exception in `FinalBackupDecided`.
- A class may not set what the driver provides (`controller.go:664`), but an OriginSnapshot with
  a member `snapshotARN` passes the search for `SnapshotARN` (`controller.go:684`) and wins over
  the driver's (`Origin`). The other names of `containsDriverProvidedParameters` are as
  case-sensitive.
- An OriginSnapshot of null makes the map of `appendSnapshotARN` nil, and the assignment to it
  (`controller.go:799`) panics, the answer "panic" of `CreateCode`.

Also seen: a controller that gets its metadata from the node object starts with an empty
region (`ServesAsDeployed` says when); GetOptions reads the mode before it has parsed the
flags, so its check of the mode never fails; a volume may be asked for with anything from 1Gi
up to below 2Gi, while `docs/FAQ.md:47` says that only 1Gi is taken; the `ErrInvalidInput` case of
CreateVolume is never reached, an unknown parameter is answered with Internal; an error of
the lookup of the parent file system is returned without a status code
(`controller.go:305-308`); a resource whose creation FSx failed keeps its token, so every
retry of its name fails; creations are keyed by name and deletions by id, so they do not
exclude each other; `WaitForVolumeResize` is not called.

## 4. Proofs

`tlapm M.tla` checks a module. All theorems hold for every value of the constants that
satisfies the named assumptions. Most of what these say is the type of a constant
(`UtilAssumption`, `FSxAssumption`, `CloudAssumption`, `ControllerAssumption`,
`NodeAssumption`, `ParametersAssumption` and those of `DriverStart`). What they say besides:

- ids of different kinds differ;
- of the resources that are there before the driver starts (`Preexisting`), no two of a kind
  have the same client request token, as FSx keeps them, and those with a token, which an
  earlier installation of the driver made, passed the driver's checks. Nothing is assumed of
  resources made by hand;
- the kubelet uses a target path for one volume only;
- the keys of a parameter map are pairs of a mark and a name, its values sequences of symbols.

TLC evaluates the assumptions of a module in every run of it.

**`NodeServiceProofs`** proves every property of the node runs. None of them is inductive
alone: that `RemoveAll` meets no mount needs that there was one mount at most before the
unmount, which needs that `Mount` meets none, which needs that nobody else works on
the path between the check and the mount, which needs the keys to be exact. The
invariant joins: the types; `InFlightExact` with `PathExclusion` and `HoldersAreProper`;
`StepMatchesOp`; `MountsAreProper` (at most one mount, in an existing directory, and only
a mount is stale); `UnmountedAtStep`; `NoPromiseWhileHeld`, with which an answer is the
only step that makes a promise and nobody works on a path that has one. `Invariance` is
proved action by action; `TypeCorrect`, `InFlightCorrect`, `RemoveAllSafe`,
`MountsNotStacked`, `PublishCorrect`, `AbortedCorrect` and `UnpublishCorrect` follow, the last for
paths whose mounts always answer, without which the finding `node_stale` refutes it.
`LockRefinement` shows that every step is one of `KeyedLock` under the mapping, or none: from
`InFlightExact` a key is in the set exactly if the abstract lock is busy with it.

**`CloudProofs`** has the lemmas about the requests and about FSx: what each does to the
resources and which error it may return.

**`ControllerServiceProofs`.** `InFlightCorrect` and `ExclusionCorrect` rest on `HandlerLock`: every
step of a handler takes the key of its own request, gives it up, or leaves the
`InFlight` alone. The invariant is `KeysHeld` (a holder's key is in the set), `KeysOwned`
(a key in the set has a holder) and `MutualExclusion`; exactness is the first two, and the
third is what keeps a return from removing the key of somebody else. `TypeCorrect` needs
`StepMatchesOp` (a goroutine is at a step of its own handler, and an expansion that got
past its checks names a file system), and with it what `Verdict` lets through. For
`LockRefinement`, `BusyExact` equates a refused `Insert` with a busy key, from the exactness;
`HandlerRefines` goes through the handlers, most of whose steps leave the abstract lock alone,
finish, or reject.

**`ControllerAnswerProofs`.** `Evolves` is what any step may do to a resource: an id is
assigned once, its input never changes, what is being deleted does not come back.
`NextEvolves` proves it of every step, and that an id is assigned only by a create that
found no resource under its token. From it follow `OneResourceCorrect`, with the
strengthening that a resource made for a name carries the name as its token
(`OwnerIsToken`), and `DeleteAnswerCorrect`, with the strengthening that what a request names
was assigned before (`NamedExists`), so that "not found" can only mean deleted.

**`ControllerResultProofs`** is about what FSx is made to do and what answers are worth.

- `UpdatesInvariance` first: of the updates of a file system only the newest can be under way,
  a completed one is in the capacity, and what follows it asks for more (`ListSound`). With it
  capacities never shrink (`Grows`).
- `NoFlawCorrect` needs `CreatesChecked`: a goroutine on its way to a create carries only the flaws
  that the rest of its way still meets. A volume restored from a snapshot passes the
  collapse of its parameters after the lookup of the snapshot, so what has been checked
  depends on the step, not on the request alone.
- `CreateAnswerCorrect` needs `CreateInv`: while a goroutine waits, or looks up the parent, the resource in its
  local is one that was made for its name, parameters and source (`Made`; the source of a
  snapshot is the volume that was asked for, or the root volume of the file system), the
  capacity it will report is there, and the resource has been available once the wait is over. Whose creation it was does not matter: a lost reply, a retry on another
  replica and the first attempt meet at the same token, and `OneResourceCorrect` and
  `OwnerIsToken` say that what is found there is the name's own.
- `ExpandAnswerCorrect` needs `ExpandInv`: an OK is given only after the capacity was seen at or above
  the one asked for, or after an update to it was seen done, and capacities do not shrink.
- `ResizeErrorsCorrect`, an action property, needs `Quiet` (who has not answered holds no
  answer) and `UpdatesInvariance`: when a goroutine finds its update missing or
  failed, no other update to the same capacity is under way or done, since the newest is
  the first it finds. An update that FSx refuses at once, for another reason than one in
  progress, is not in this theorem.

**`DeletionTagProofs`** is about the codec of `util.go` alone. `TagRoundTrip`: for a value of any
length over any alphabet in which no tag character stands between spaces or JSON characters
(`Unambiguous`), decoding undoes encoding, and decoding leaves the value alone if it was not
encoded. The encoding, the replacement of a tag and the decoding are recursive functions;
that they are defined at all (`RecursionExists`) and what they compute is proved by induction
on the natural numbers, which the library's well-foundedness of `<` gives without a theorem
that takes an operator: the set of counterexamples would have a smallest one
(`SetInduction`). The argument: `Codes(e, J, v)` says that `e` is the value with the characters in
`J` translated. `EncodeCodes` has `J` at all six JSON characters, `PassDecodes` shows that one
pass takes one character out of `J` and touches nothing else, and `CodesNothing` that the
value is left when `J` is empty. A pass could only go wrong where the output ends in a space
and the pass's tag character without the encoding having put them there; then the value
itself has the tag character after a space or a JSON character (`CodesEnd`), and the next
symbol would make it ambiguous.

**`ParametersProofs`.** The invariant is: the types; `ClassInv` (the class passed every check);
`TagsKept` (a deletion parameter that nobody edited is in its tag, encoded where it must be,
and no unedited deletion tag came from elsewhere); and the two properties. The types are
`ParametersTypeCorrect`. `DeletionSentCorrect`: `GetDeleteParametersFit` shows, of tags with any
content, that what is left of them fits the configuration, and `FitDeletes` that what fits
passes both conversions, so only the SDK can still refuse it, for an incomplete tag of the
final backup; one that nobody edited was complete before the creation
(`DeletionValuesFit`) and reads back the same if it is unambiguous. `DeletionCorrect` joins
`TagsKept`, the round trip, and `DeletionValuesFit`: the check of the deletion parameters before
the creation refuses everything that would later be ignored. `FinalBackupCorrect` is a
consequence: SkipFinalBackup must be given, and a boolean can be read in one way only.

**`DriverStartProofs`.** The invariant joins the types with `BuiltInOrder` (what is made in
which phase), `RemoverRuns` (the goroutine lives only once newNodeService has started it), `RegionSource`,
`Serving`, and `LatePatches`: every patch under way, of a process that may be long gone, tests
for the taints it was made from. From it follow `TypeCorrect`,
`ServedAsDeployed` and `OtherTaintsKept`, for every set of deployments and of taints and any
number of failures and edits.

**Only model-checked.** `EveryCallAnswered`, `RequestsConverge`, `EventuallyServing` and
`TaintEventuallyRemoved` are liveness properties, out of the reach of the prover. Every safety
property that a passing run checks has its theorem.

## 5. Not modelled

- The rest of JSON: nested values, most fields of the FSx structures, and, but for the ARN of
  the snapshot, the matching of field names without regard to case.
- Whether FSx takes a reordered list of tags under one token for other parameters: nothing in
  the repository shows it.
- The identity service, build information, logging and its flags: constant, or without
  influence on anything else. `Stop` is called by tests only.
- The test doubles under `pkg/*/mocks` and in the files `fakes.go`.
- `NodeGetVolumeStats` and the other RPCs answered with Unimplemented or constants.
- Listing calls, credentials, throttling and back-off inside the AWS SDK: a failure of any
  of them is a failed request.
- Mount options and the contents of volumes.

## 6. Plan

Everything in the repository that keeps or changes state has its module, and every safety
property of the passing runs is proved. What is left:

1. The safety half of the liveness properties as theorems: that an unanswered goroutine always has
   a next step, written out as the guards of the steps, and that its way to an answer is bounded
   by its polls; only the last step, from fairness to the answer, would then rest on TLC alone.
2. The converse of `TagRoundTrip` for the values that `Unambiguous` leaves out: which of them
   come back all the same.
3. Lemmas about the capacity conversions of `Util` that say how much an expansion can round
   away, for every size of a GiB.
