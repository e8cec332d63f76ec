------------------------- MODULE ControllerService -------------------------
(***************************************************************************)
(* pkg/driver/controller.go: the CSI controller service, run by one        *)
(* process per replica of the controller Deployment against one FSx        *)
(* account.  Every element of Calls is a goroutine of the gRPC server: it  *)
(* serves one request at a time, one step per API request it makes, and    *)
(* interleaves with every other goroutine of every process.  A sidecar     *)
(* that gives up on a request (its --timeout) cancels the context of the   *)
(* goroutine, which goes on running, and may send the request again.       *)
(***************************************************************************)
EXTENDS Cloud, InFlight

CONSTANTS
    Procs,      \* controller processes (replicas)
    Calls,      \* goroutines serving requests
    ProcOf,     \* the process a goroutine belongs to
    Requests,   \* the requests the sidecars may send
    NoRequest   \* of a goroutine that has not been used yet

VARIABLES
    pc,         \* where every goroutine is
    req,        \* the request it serves
    canceled,   \* whether the request's context has been canceled
    rid,        \* the resource id the handler holds in a local variable
    gib,        \* the capacity in GiB it holds in a local variable
    polls,      \* checks its wait.Poll has made
    resp,       \* its answer, while pc is "done"
    inFlight,   \* the InFlight of every process
    owner       \* history: the CSI name every FSx resource was created for

callVars == <<pc, req, canceled, rid, gib, polls, resp>>
ctlVars == <<callVars, inFlight, owner>>
vars == <<fsxVars, disturbances, ctlVars>>

Ops == {"CreateVolume", "DeleteVolume", "CreateSnapshot", "DeleteSnapshot",
        "ControllerExpandVolume", "ValidateVolumeCapabilities"}

Codes == {"OK", "InvalidArgument", "Aborted", "AlreadyExists", "NotFound",
          "Internal", "Unimplemented", "OutOfRange", "Unknown"}

\* What a parameter map can have wrong with it, in the eyes of the functions
\* that check, collapse and convert it.
Flaws == {"none", "driverProvided", "tags", "deletion", "openZFSConfiguration",
          "originSnapshot", "unknownField"}

ASSUME ControllerAssumption ==
    /\ ProcOf \in [Calls -> Procs]
    /\ Requests \subseteq
         [op : Ops, name : Names \cup {NoToken}, id : STRING, source : STRING,
          resourceType : STRING, caps : {"none", "unsupported", "supported"},
          hasRange : BOOLEAN, required : Nat, limit : Nat, params : Params]
    /\ \A p \in Params : p.flaw \in Flaws
    /\ \A id \in DOMAIN Preexisting : \* what this driver made before passed its checks
          Preexisting[id].token # NoToken
              => Preexisting[id].params.flaw = "none" /\ Preexisting[id].gib <= MaxInt32

Responses == [code : Codes, err : Errors \cup {"rejected"}, id : STRING, bytes : Nat]

NoResp == [code |-> "Unknown", err |-> "none", id |-> NoId, bytes |-> 0]

PCs == {"idle", "received", "validate", "describeSnapshot", "createFileSystem",
        "createVolume", "createSnapshot", "waitAvailable", "describeParent",
        "getVolumeId", "describe", "listTags", "delete", "deleteSnapshot",
        "describeFileSystem", "resize", "findUpdate", "waitResize",
        "describeVolume", "done"}

-----------------------------------------------------------------------------
(* Steps of a handler.                                                     *)

\* The key of a request in InFlight: creations use the CSI name, everything
\* else the resource id.
KeyOf(r) == IF r.op \in {"CreateVolume", "CreateSnapshot"} THEN r.name ELSE r.id

\* The goroutine goes on to its next API request.
Goto(c, step) == pc' = [pc EXCEPT ![c] = step]

\* The handler returns.
Answer(c, code, err, id, bytes) ==
    /\ pc' = [pc EXCEPT ![c] = "done"]
    /\ resp' = [resp EXCEPT ![c] =
                  [code |-> code, err |-> err, id |-> id, bytes |-> bytes]]
    /\ rid' = [rid EXCEPT ![c] = NoId]
    /\ gib' = [gib EXCEPT ![c] = 0]
    /\ polls' = [polls EXCEPT ![c] = 0]
    /\ UNCHANGED <<req, canceled>>

\* Mutant: an answer leaves the key behind.
LeakKey(c) == UNCHANGED inFlight

\* The deferred inFlight.Delete of the handlers that inserted their key.
DeferredDelete(c) ==
    inFlight' = [inFlight EXCEPT ![ProcOf[c]] = Delete(@, KeyOf(req[c]))]

Return(c, code, err, id, bytes) ==
    Answer(c, code, err, id, bytes) /\ DeferredDelete(c) /\ UNCHANGED owner

\* A handler step that keeps its key and its locals.
Continue(c, step) ==
    Goto(c, step) /\ UNCHANGED <<req, canceled, rid, gib, polls, resp, inFlight, owner>>

-----------------------------------------------------------------------------
(* Receiving a request.                                                    *)

\* A sidecar sends a request: a new one, or one it sent before.  Only ids that
\* FSx assigned, or that no FSx resource has, can be asked about.
Call(c, r) ==
    /\ pc[c] \in {"idle", "done"}
    /\ \A id \in Ids : id \in {r.id, r.source} => lifecycle[id] # "ABSENT"
    /\ pc' = [pc EXCEPT ![c] = "received"]
    /\ req' = [req EXCEPT ![c] = r]
    /\ canceled' = [canceled EXCEPT ![c] = FALSE]
    /\ resp' = [resp EXCEPT ![c] = NoResp]
    /\ UNCHANGED <<rid, gib, polls, inFlight, owner, fsxVars, disturbances>>

\* Every handler first refuses an empty name or id.
MissingArgument(r) ==
    \/ KeyOf(r) = ""
    \/ r.op = "CreateSnapshot" /\ r.id = ""
    \/ r.op = "ValidateVolumeCapabilities" /\ r.caps = "none"

\* "check if a request is already in-flight": ValidateVolumeCapabilities alone
\* does not ask.
Begin(c) ==
    LET r == req[c]  p == ProcOf[c] IN
    /\ pc[c] = "received"
    /\ \/ /\ MissingArgument(r)
          /\ Answer(c, "InvalidArgument", "rejected", NoId, 0)
          /\ UNCHANGED <<inFlight, owner>>
       \/ /\ ~MissingArgument(r) /\ r.op = "ValidateVolumeCapabilities"
          /\ Continue(c, "describeVolume")
       \/ /\ ~MissingArgument(r) /\ r.op # "ValidateVolumeCapabilities"
          /\ ~CanInsert(inFlight[p], KeyOf(r))
          /\ Answer(c, "Aborted", "rejected", NoId, 0)
          /\ UNCHANGED <<inFlight, owner>>
       \/ /\ ~MissingArgument(r) /\ r.op # "ValidateVolumeCapabilities"
          /\ CanInsert(inFlight[p], KeyOf(r))
          /\ inFlight' = [inFlight EXCEPT ![p] = Insert(@, KeyOf(r))]
          /\ Goto(c, "validate")
          /\ UNCHANGED <<req, canceled, rid, gib, polls, resp, owner>>
    /\ UNCHANGED <<fsxVars, disturbances>>

-----------------------------------------------------------------------------
(* Checks made before the first API request, in the order of the code: the *)
(* first one that fails decides the answer.                                *)

FirstFailure(checks) ==
    LET failed == {i \in DOMAIN checks : checks[i].fails}
    IN  IF failed = {} THEN "OK" ELSE checks[Min(failed)].code

Check(fails, code) == [fails |-> fails, code |-> code]

\* The int32 storageCapacity of CreateVolume: zero without a CapacityRange.
StorageCapacity(r) == IF r.hasRange THEN BytesToGiB(r.required) ELSE 0

IntelligentTiering(params) == params.storageType = "INTELLIGENT_TIERING"

CreateVolumeChecks(r) ==
    LET fs == r.resourceType = "filesystem"
        vol == r.resourceType = "volume"
        flaw == r.params.flaw
    IN  <<Check(r.caps # "supported", "InvalidArgument"),
          Check(r.hasRange /\ Overflows(r.required), "InvalidArgument"),
          Check(~fs /\ ~vol, "InvalidArgument"),
          Check(flaw = "driverProvided", "InvalidArgument"),
          Check(flaw \in {"tags", "deletion"}, "InvalidArgument"),
          Check(fs /\ r.source # NoId, "Unimplemented"),
          Check(fs /\ IntelligentTiering(r.params) /\ StorageCapacity(r) # 1,
                "InvalidArgument"),
          Check(fs /\ flaw \in {"openZFSConfiguration", "originSnapshot"},
                "InvalidArgument"),
          Check(vol /\ StorageCapacity(r) # 1, "InvalidArgument"),
          Check(vol /\ r.source \in VolIds, "Unimplemented"),
          Check(vol /\ r.source # NoId /\ flaw = "originSnapshot", "Internal"),
          Check(vol /\ r.source = NoId
                   /\ flaw \in {"originSnapshot", "openZFSConfiguration"},
                "InvalidArgument")>>

CreateSnapshotChecks(r) ==
    <<Check(r.params.flaw = "driverProvided", "InvalidArgument"),
      Check(r.params.flaw = "tags", "Internal")>>

ControllerExpandVolumeChecks(r) ==
    <<Check(~r.hasRange, "InvalidArgument"),
      Check(r.limit > 0 /\ r.required > r.limit, "OutOfRange"),
      Check(Overflows(r.required), "InvalidArgument"),
      Check(r.id \in VolIds, "Unimplemented"),
      Check(r.id \notin FsIds, "NotFound")>>

Verdict(r) ==
    CASE r.op = "CreateVolume"           -> FirstFailure(CreateVolumeChecks(r))
      [] r.op = "CreateSnapshot"         -> FirstFailure(CreateSnapshotChecks(r))
      [] r.op = "ControllerExpandVolume" -> FirstFailure(ControllerExpandVolumeChecks(r))
      [] OTHER                           -> "OK"

\* The first API request of a handler.  An id with neither prefix has no ARN to
\* describe: GetDeleteParameters goes straight to the tags.
FirstStep(r) ==
    CASE r.op = "CreateVolume" /\ r.resourceType = "filesystem" -> "createFileSystem"
      [] r.op = "CreateVolume" /\ r.resourceType # "filesystem" ->
            IF r.source = NoId THEN "createVolume" ELSE "describeSnapshot"
      [] r.op = "DeleteVolume" ->
            IF r.id \in FsIds \cup VolIds THEN "describe" ELSE "listTags"
      [] r.op = "CreateSnapshot" -> "getVolumeId"
      [] r.op = "DeleteSnapshot" -> "deleteSnapshot"
      [] OTHER -> "describeFileSystem"

Validate(c) ==
    LET r == req[c] IN
    /\ pc[c] = "validate"
    /\ IF Verdict(r) = "OK" THEN Continue(c, FirstStep(r))
       ELSE Return(c, Verdict(r), "rejected", NoId, 0)
    /\ UNCHANGED <<fsxVars, disturbances>>

-----------------------------------------------------------------------------
(* CreateVolume and CreateSnapshot.                                        *)

\* Mutant: no token is sent.
OmittedToken(r) == NoToken

\* Creations repeat their request under the same token: the CSI name, quoted.
ClientRequestToken(r) == r.name

Input(kind, r, capacityGiB, source) ==
    [kind |-> kind, token |-> ClientRequestToken(r), params |-> r.params,
     gib |-> capacityGiB, source |-> source]

\* A file system of StorageType INTELLIGENT_TIERING is sent no StorageCapacity.
FileSystemInput(r) ==
    Input("filesystem", r,
          IF IntelligentTiering(r.params) THEN 0 ELSE StorageCapacity(r), NoId)

VolumeInput(r) == Input("volume", r, 0, r.source)

SnapshotInput(r, volumeId) == Input("snapshot", r, 0, volumeId)

\* The switch over the error of a create.
CreateCode(err) == IF err = "ErrAlreadyExists" THEN "AlreadyExists" ELSE "Internal"

\* appendSnapshotARN: the snapshot is described; the parameters are collapsed
\* only afterwards.
DescribeSnapshot(c) ==
    LET r == req[c] IN
    /\ pc[c] = "describeSnapshot"
    /\ \E err \in Errors :
          /\ getResource(~canceled[c], r.source, err)
          /\ CASE err = "ErrNotFound" -> Return(c, "NotFound", err, NoId, 0)
               [] err \notin {"ErrNotFound", "none"} -> Return(c, "Internal", err, NoId, 0)
               [] err = "none" /\ r.params.flaw = "openZFSConfiguration" ->
                     Return(c, "InvalidArgument", "rejected", NoId, 0)
               [] OTHER -> Continue(c, "createVolume")

\* The common part of the three creates: the call of the cloud, the switch over
\* its error and the locals the handler keeps.  The reply describes a file
\* system as it is now: after a repetition of the request it may have grown.
Create(c, in, known) ==
    \E err \in Errors, id \in Ids \cup {NoId} :
       /\ CreateResource(~canceled[c], known, in, err, id)
       /\ owner' = [i \in Ids |-> IF lifecycle[i] = "ABSENT" /\ lifecycle'[i] # "ABSENT"
                                  THEN req[c].name ELSE owner[i]]
       /\ IF err = "none"
          THEN /\ Goto(c, "waitAvailable")
               /\ rid' = [rid EXCEPT ![c] = id]
               /\ gib' = [gib EXCEPT ![c] =
                           IF id \in FsIds THEN capacity'[id] ELSE StorageCapacity(req[c])]
               /\ UNCHANGED <<req, canceled, polls, resp, inFlight>>
          ELSE Answer(c, CreateCode(err), err, NoId, 0) /\ DeferredDelete(c)

CreateFileSystem(c) ==
    LET r == req[c] IN
    /\ pc[c] = "createFileSystem"
    /\ Create(c, FileSystemInput(r), r.params.flaw # "unknownField")

CreateVolume(c) ==
    LET r == req[c] IN
    /\ pc[c] = "createVolume"
    /\ Create(c, VolumeInput(r), r.params.flaw # "unknownField")

CreateSnapshot(c) ==
    LET r == req[c] IN
    /\ pc[c] = "createSnapshot"
    /\ Create(c, SnapshotInput(r, rid[c]), r.params.flaw = "none")

\* GetVolumeId: a file system stands for its root volume, which the description of
\* one that is not available may lack.
GetVolumeId(c) ==
    LET id == req[c].id IN
    /\ pc[c] = "getVolumeId"
    /\ \E err \in Errors, volumeId \in {id, NoId} \cup {RootVolume[f] : f \in FsIds} :
          /\ CASE id \in FsIds ->
                     \/ /\ getResource(~canceled[c], id, err)
                        /\ volumeId = IF err = "none" THEN RootVolume[id] ELSE NoId
                     \/ /\ getResource(~canceled[c], id, "none") /\ lifecycle[id] # "AVAILABLE"
                        /\ err = "NoRootVolume" /\ volumeId = NoId
               [] id \in VolIds -> /\ err = "none" /\ volumeId = id
                                  /\ UNCHANGED <<fsxVars, disturbances>>
               [] OTHER -> /\ err = "BadFormat" /\ volumeId = NoId
                           /\ UNCHANGED <<fsxVars, disturbances>>
          /\ IF err = "none"
             THEN /\ Goto(c, "createSnapshot")
                  /\ rid' = [rid EXCEPT ![c] = volumeId]
                  /\ UNCHANGED <<req, canceled, gib, polls, resp, inFlight, owner>>
             ELSE Return(c, "Internal", err, NoId, 0)

-----------------------------------------------------------------------------
(* wait.Poll: checks every PollCheckInterval until PollCheckTimeout.       *)

\* Mutant: the poll has no timeout.
PollForever(c) == UNCHANGED ctlVars

\* Mutant: the timeout comes one check too late.
PollTooOften(c) ==
    IF polls[c] <= MaxPolls
    THEN /\ polls' = [polls EXCEPT ![c] = @ + 1]
         /\ UNCHANGED <<pc, req, canceled, rid, gib, resp, inFlight, owner>>
    ELSE Return(c, "Internal", "Timeout", NoId, 0)

\* One more check, or wait.ErrWaitTimeout once the checks are used up.
PollAgain(c) ==
    IF polls[c] < MaxPolls
    THEN /\ polls' = [polls EXCEPT ![c] = @ + 1]
         /\ UNCHANGED <<pc, req, canceled, rid, gib, resp, inFlight, owner>>
    ELSE Return(c, "Internal", "Timeout", NoId, 0)

WaitForAvailable(c) ==
    /\ pc[c] = "waitAvailable"
    /\ \E err \in Errors :
          /\ getResource(~canceled[c], rid[c], err)
          /\ IF err # "none" THEN Return(c, "Internal", err, NoId, 0)
             ELSE CASE AvailableCondition(rid[c]) = "again" -> PollAgain(c)
                    [] AvailableCondition(rid[c]) = "UnexpectedState" ->
                          Return(c, "Internal", "UnexpectedState", NoId, 0)
                    [] OTHER -> IF rid[c] \in VolIds
                                THEN Continue(c, "describeParent")
                                ELSE Return(c, "OK", "none", rid[c], GiBToBytes(gib[c]))

\* DescribeFileSystem of the volume's file system; its error is returned as it
\* is, without a status code.
DescribeParent(c) ==
    /\ pc[c] = "describeParent"
    /\ \E err \in Errors :
          /\ getResource(~canceled[c], ParentFs, err)
          /\ IF err # "none" THEN Return(c, "Unknown", err, NoId, 0)
             ELSE Return(c, "OK", "none", rid[c], GiBToBytes(gib[c]))

-----------------------------------------------------------------------------
(* DeleteVolume and DeleteSnapshot.                                        *)

\* GetDeleteParameters, first request: every error is Internal, ErrNotFound too.
DescribeForDelete(c) ==
    /\ pc[c] = "describe"
    /\ \E err \in Errors :
          /\ getResource(~canceled[c], req[c].id, err)
          /\ IF err # "none" THEN Return(c, "Internal", err, NoId, 0)
             ELSE Continue(c, "listTags")

\* GetDeleteParameters, second request.  What it makes of the tags is data of
\* the delete that follows.
ListTags(c) ==
    /\ pc[c] = "listTags"
    /\ \E err \in Errors :
          /\ getTagsForResource(~canceled[c], req[c].id, err)
          /\ IF err # "none" THEN Return(c, "Internal", err, NoId, 0)
             ELSE Continue(c, "delete")

\* Mutant: the error of the delete is dropped.
DeleteCodeDropped(err) == "OK"

\* A resource that is gone counts as deleted.
DeleteCode(err) == IF err \in {"none", "ErrNotFound"} THEN "OK" ELSE "Internal"

DeleteVolume(c) ==
    /\ pc[c] = "delete"
    /\ \E err \in Errors :
          /\ DeleteResource(~canceled[c], req[c].id, err)
          /\ Return(c, DeleteCode(err), err, NoId, 0)

DeleteSnapshot(c) ==
    /\ pc[c] = "deleteSnapshot"
    /\ \E err \in Errors :
          /\ DeleteResource(~canceled[c], req[c].id, err)
          /\ Return(c, DeleteCode(err), err, NoId, 0)

-----------------------------------------------------------------------------
(* ControllerExpandVolume and ValidateVolumeCapabilities.                  *)

NewCapacity(r) == BytesToGiB(r.required)

\* "Current capacity is sufficient to satisfy the request": nothing to do.
DescribeFileSystem(c) ==
    LET id == req[c].id IN
    /\ pc[c] = "describeFileSystem"
    /\ \E err \in Errors :
          /\ getResource(~canceled[c], id, err)
          /\ CASE err = "ErrNotFound" -> Return(c, "NotFound", err, NoId, 0)
               [] err \notin {"ErrNotFound", "none"} -> Return(c, "Internal", err, NoId, 0)
               [] err = "none" /\ IntelligentTiering(created[id].params) ->
                     Return(c, "Unimplemented", "rejected", NoId, 0)
               [] err = "none" /\ ~IntelligentTiering(created[id].params)
                               /\ NewCapacity(req[c]) <= capacity[id] ->
                     Return(c, "OK", "none", id, GiBToBytes(capacity[id]))
               [] OTHER -> Continue(c, "resize")

\* ResizeFileSystem: an update already in progress may be the one that an
\* earlier request, whose answer was lost, asked for.
ResizeFileSystem(c) ==
    /\ pc[c] = "resize"
    /\ \E err \in Errors :
          /\ UpdateFileSystem(~canceled[c], req[c].id, NewCapacity(req[c]), err)
          /\ CASE err = "none" -> Continue(c, "waitResize")
               [] err = "UpdateInProgress" -> Continue(c, "findUpdate")
               [] OTHER -> Return(c, "Internal", err, NoId, 0)

FindUpdate(c) ==
    LET id == req[c].id IN
    /\ pc[c] = "findUpdate"
    /\ \E err \in Errors :
          /\ getResource(~canceled[c], id, err)
          /\ IF err # "none" THEN Return(c, "Internal", err, NoId, 0)
             ELSE IF UpdatesTo(id, NewCapacity(req[c])) = {}
                  THEN Return(c, "Internal", "NoSuchUpdate", NoId, 0)
                  ELSE Continue(c, "waitResize")

WaitForFileSystemResize(c) ==
    LET id == req[c].id
        condition == ResizeCondition(id, NewCapacity(req[c]))
    IN
    /\ pc[c] = "waitResize"
    /\ \E err \in Errors :
          /\ getResource(~canceled[c], id, err)
          /\ IF err # "none" THEN Return(c, "Internal", err, NoId, 0)
             ELSE CASE condition = "again" -> PollAgain(c)
                    [] condition = "done" ->
                          Return(c, "OK", "none", id, GiBToBytes(NewCapacity(req[c])))
                    [] OTHER -> Return(c, "Internal", condition, NoId, 0)

\* ValidateVolumeCapabilities describes the volume and takes no key.
DescribeVolume(c) ==
    LET id == req[c].id IN
    /\ pc[c] = "describeVolume"
    /\ \E err \in Errors :
          /\ IF id \in FsIds \cup VolIds THEN getResource(~canceled[c], id, err)
             ELSE err = "ErrNotFound" /\ UNCHANGED <<fsxVars, disturbances>>
          /\ CASE err = "none" -> Answer(c, "OK", "none", id, 0)
               [] err = "ErrNotFound" -> Answer(c, "NotFound", err, NoId, 0)
               [] OTHER -> Answer(c, "Internal", err, NoId, 0)
    /\ UNCHANGED <<inFlight, owner>>

-----------------------------------------------------------------------------
(* The environment.                                                        *)

\* A sidecar gives up on a request: its deadline has passed.
Cancel(c) ==
    /\ pc[c] \notin {"idle", "done"} /\ ~canceled[c]
    /\ canceled' = [canceled EXCEPT ![c] = TRUE]
    /\ Disturb
    /\ UNCHANGED <<pc, req, rid, gib, polls, resp, inFlight, owner, fsxVars>>

\* A process dies with its goroutines and starts again: newControllerService
\* makes an empty InFlight.
Crash(p) ==
    /\ pc' = [c \in Calls |-> IF ProcOf[c] = p THEN "idle" ELSE pc[c]]
    /\ resp' = [c \in Calls |-> IF ProcOf[c] = p THEN NoResp ELSE resp[c]]
    /\ rid' = [c \in Calls |-> IF ProcOf[c] = p THEN NoId ELSE rid[c]]
    /\ gib' = [c \in Calls |-> IF ProcOf[c] = p THEN 0 ELSE gib[c]]
    /\ polls' = [c \in Calls |-> IF ProcOf[c] = p THEN 0 ELSE polls[c]]
    /\ canceled' = [c \in Calls |-> IF ProcOf[c] = p THEN FALSE ELSE canceled[c]]
    /\ inFlight' = [inFlight EXCEPT ![p] = NewInFlight]
    /\ req' = [c \in Calls |-> IF ProcOf[c] = p THEN NoRequest ELSE req[c]]
    /\ Disturb
    /\ UNCHANGED <<owner, fsxVars>>

\* An administrator deletes a resource behind the driver's back.
ManualDelete(id) ==
    /\ ApiDelete(id, "ok") /\ lifecycle[id] # "DELETING"
    /\ Disturb
    /\ UNCHANGED ctlVars

-----------------------------------------------------------------------------
Init ==
    /\ FSxInit
    /\ disturbances = 0
    /\ pc = [c \in Calls |-> "idle"]
    /\ req = [c \in Calls |-> NoRequest]
    /\ canceled = [c \in Calls |-> FALSE]
    /\ rid = [c \in Calls |-> NoId]
    /\ gib = [c \in Calls |-> 0]
    /\ polls = [c \in Calls |-> 0]
    /\ resp = [c \in Calls |-> NoResp]
    /\ inFlight = [p \in Procs |-> NewInFlight]
    /\ owner = [id \in Ids |-> IF id \in DOMAIN Preexisting
                               THEN Preexisting[id].token ELSE NoToken]

\* The next step of a goroutine that serves a request.
Handler(c) ==
    \/ Begin(c) \/ Validate(c)
    \/ DescribeSnapshot(c) \/ CreateFileSystem(c) \/ CreateVolume(c)
    \/ GetVolumeId(c) \/ CreateSnapshot(c) \/ WaitForAvailable(c) \/ DescribeParent(c)
    \/ DescribeForDelete(c) \/ ListTags(c) \/ DeleteVolume(c) \/ DeleteSnapshot(c)
    \/ DescribeFileSystem(c) \/ ResizeFileSystem(c) \/ FindUpdate(c)
    \/ WaitForFileSystemResize(c) \/ DescribeVolume(c)

FSxStep == FSxNext /\ UNCHANGED <<disturbances, ctlVars>>

Next ==
    \/ \E c \in Calls : (\E r \in Requests : Call(c, r)) \/ Handler(c) \/ Cancel(c)
    \/ \E p \in Procs : Crash(p)
    \/ \E id \in Ids : ManualDelete(id)
    \/ FSxStep

Spec == Init /\ [][Next]_vars

\* The Go scheduler runs every goroutine that can run; wait.Poll's timer fires.
HandlerFairness == \A c \in Calls : WF_vars(Handler(c))

\* FSx carries out what it accepted.
FSxFairness ==
    /\ \A id \in Ids : WF_vars(Progress(id) /\ UNCHANGED <<disturbances, ctlVars>>)
    /\ \A f \in FsIds : WF_vars(UpdateProgress(f) /\ UNCHANGED <<disturbances, ctlVars>>)

\* The sidecars send a request again until it is answered with OK, and a
\* goroutine is found for it.
SidecarFairness ==
    \A c \in Calls, r \in Requests : SF_vars(Call(c, r))

AnswerSpec == Spec /\ HandlerFairness

ConvergeSpec == Spec /\ HandlerFairness /\ FSxFairness /\ SidecarFairness

-----------------------------------------------------------------------------
(* Properties.                                                             *)

\* Every variable has its type.
TypeOK ==
    /\ FSxTypeOK
    /\ disturbances \in 0 .. MaxDisturbances
    /\ pc \in [Calls -> PCs]
    /\ req \in [Calls -> Requests \cup {NoRequest}]
    /\ \A c \in Calls : pc[c] # "idle" => req[c] \in Requests
    /\ canceled \in [Calls -> BOOLEAN]
    /\ rid \in [Calls -> STRING]
    /\ gib \in [Calls -> Nat]
    /\ polls \in [Calls -> 0 .. MaxPolls]
    /\ resp \in [Calls -> Responses]
    /\ inFlight \in [Procs -> SUBSET STRING]
    /\ owner \in [Ids -> Names \cup {NoToken}]

\* The goroutines between their inFlight.Insert and their deferred Delete.
Holding(c) == pc[c] \notin {"idle", "received", "describeVolume", "done"}

\* The InFlight of a process holds exactly the keys of the requests the
\* process is serving: no early return leaves a key behind, which would have
\* every later request for it Aborted until a restart, and no handler, the one
\* that answers Aborted included, removes a key that is not its own.
InFlightExact ==
    \A p \in Procs :
        inFlight[p] = {KeyOf(req[c]) : c \in {d \in Calls : Holding(d) /\ ProcOf[d] = p}}

\* No two goroutines of a process work under the same key at the same time.
MutualExclusion ==
    \A c, d \in Calls :
        c # d /\ ProcOf[c] = ProcOf[d] /\ Holding(c) /\ Holding(d)
            => KeyOf(req[c]) # KeyOf(req[d])

\* However often a creation is retried (after a lost reply, a timeout, a crash,
\* or by the other replica at the same time), at most one resource of its kind
\* is there for its name: InFlight alone does not give this, it takes the
\* ClientRequestToken.
OneResourcePerName ==
    \A kind \in Kinds : \A i, j \in IdsOf(kind) :
        Present(i) /\ Present(j) /\ owner[i] = owner[j] /\ owner[i] # NoToken => i = j

AnsweredOK(c, ops) == pc[c] = "done" /\ resp[c].code = "OK" /\ req[c].op \in ops

\* What the resource of a creation is to be made from: the volume that the id of a
\* snapshot's request stands for, or the snapshot that a volume's request names.
SourceOf(r) ==
    CASE r.op = "CreateSnapshot" -> IF r.id \in FsIds THEN RootVolume[r.id] ELSE r.id
      [] OTHER -> r.source

\* A creation answered with OK names a resource that became available, made for
\* this name with the parameters and the source of this very request, whoever
\* made it: a snapshot is one of the volume that was asked for, even when another
\* of the same name was there before.
CreateAnswerSound ==
    \A c \in Calls :
        AnsweredOK(c, {"CreateVolume", "CreateSnapshot"})
            => LET id == resp[c].id IN
               /\ id \in Ids /\ lifecycle[id] \in {"AVAILABLE", "DELETING", "DELETED"}
               /\ owner[id] = req[c].name
               /\ created[id].params = req[c].params
               /\ created[id].source = SourceOf(req[c])
               /\ id \in FsIds => resp[c].bytes <= GiBToBytes(capacity[id])

\* Whatever path a creation takes through the checks, FSx is never left with a
\* resource made from parameters that some check refuses, or with a capacity
\* that is not an int32.
NoFlawedResource ==
    \A id \in Ids :
        owner[id] # NoToken => /\ created[id].params.flaw = "none"
                               /\ created[id].gib <= MaxInt32

\* A deletion answered with OK: the resource is gone or going, whatever failed
\* in between.
DeleteAnswerSound ==
    \A c \in Calls :
        AnsweredOK(c, {"DeleteVolume", "DeleteSnapshot"}) /\ req[c].id \in Ids
            => lifecycle[req[c].id] \in {"DELETING", "DELETED"}

\* An expansion answered with OK: the capacity it reports is at least what was
\* asked for, in whole GiB and so up to one GiB short of the bytes that were
\* required, and the file system has it, whichever replica's update brought it
\* there.
ExpandAnswerSound ==
    \A c \in Calls :
        AnsweredOK(c, {"ControllerExpandVolume"})
            => /\ GiBToBytes(NewCapacity(req[c])) <= resp[c].bytes
               /\ resp[c].bytes <= GiBToBytes(capacity[req[c].id])

\* What the driver makes of the list of updates is no false alarm: it reports that
\* the update to the requested capacity is missing or has failed only when none is
\* under way and none has succeeded, whichever replica asked for it.  (It may still
\* pass on FSx's refusal of an update that another request has just completed.)
ResizeErrorsAreReal ==
    [][\A c \in Calls :
          pc[c] # "done" /\ resp'[c].err \in {"NoSuchUpdate", "UpdateFailed"}
              => \A i \in UpdatesTo(req[c].id, NewCapacity(req[c])) :
                    updates[req[c].id][i].status = "FAILED"]_vars

\* Claim of the log line of DeleteVolume, "volume not found, returning with
\* success": when the lookup finds nothing, the answer is OK.
MissingVolumeIsDeleted ==
    \A c \in Calls :
        pc[c] = "done" /\ req[c].op = "DeleteVolume" /\ resp[c].err = "ErrNotFound"
            => resp[c].code = "OK"

\* Every request is answered, unless its process crashes: no handler waits for
\* ever, even when FSx never finishes what it was asked to do.
EveryCallAnswered ==
    \A c \in Calls : pc[c] = "received" ~> pc[c] \in {"idle", "done"}

\* Once the environment leaves the driver alone, every request that the sidecars
\* keep sending is answered with OK in the end, after any lost reply, timeout or
\* crash, unless somebody has deleted the very resource it is about.
RequestsConverge ==
    \A r \in Requests :
        <>(\/ \E c \in Calls : AnsweredOK(c, {r.op}) /\ req[c] = r
           \/ r.id \in Ids /\ lifecycle[r.id] = "DELETED")

-----------------------------------------------------------------------------
(* The controller service implements KeyedLock, one domain per process.    *)

\* Where the request of a goroutine is with respect to its key.
Phase(c) ==
    CASE pc[c] = "idle" -> "idle"
      [] pc[c] \in {"received", "describeVolume"} -> "asked"
      [] pc[c] = "done" -> IF resp[c].code = "Aborted" THEN "refused" ELSE "over"
      [] OTHER -> "granted"

Lock == INSTANCE KeyedLock WITH
    Actors <- Calls, Domains <- Procs, DomainOf <- ProcOf,
    Keys <- {KeyOf(r) : r \in Requests}, NoKey <- NoRequest,
    phase <- [c \in Calls |-> Phase(c)],
    key <- [c \in Calls |-> IF pc[c] = "idle" THEN NoRequest ELSE KeyOf(req[c])]

\* Whatever path a handler takes, and whenever a process dies, the requests of a
\* process under one key exclude each other, and a request is answered with
\* Aborted only while another one of its process works under its key.
ImplementsKeyedLock == Lock!Spec

=============================================================================
