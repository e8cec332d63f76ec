------------------------------- MODULE Cloud -------------------------------
(***************************************************************************)
(* pkg/cloud: the calls the driver makes to FSx.  Every operator below     *)
(* relates one API request to the error the cloud.go function then         *)
(* returns; `live' says that the caller's context has not been canceled.   *)
(*                                                                         *)
(* A request can be disturbed in two ways: it fails without reaching FSx,  *)
(* or FSx carries it out and the reply is lost.  Both are "ApiError" to    *)
(* the caller.  `disturbances' counts what the environment did to the      *)
(* driver; MaxDisturbances bounds it.                                      *)
(***************************************************************************)
EXTENDS FSx, Util, FiniteSetsExt

CONSTANTS
    MaxPolls,       \* bound: extra checks of a wait.Poll before it times out
    MaxDisturbances \* bound: faults, lost replies, timeouts, crashes, manual deletes

VARIABLE disturbances

ASSUME CloudAssumption == MaxPolls \in Nat /\ MaxDisturbances \in Nat

\* "none" and the errors the functions of cloud.go return.
Errors == {"none", "ErrNotFound", "ErrMultipleFound", "ErrAlreadyExists", "ApiError",
           "Canceled", "UnknownField", "BadFormat", "NoRootVolume", "UnexpectedState", "Timeout",
           "UpdateInProgress", "NoSuchUpdate", "UpdateFailed"}

Disturb == /\ disturbances < MaxDisturbances
           /\ disturbances' = disturbances + 1

\* The SDK reports a canceled context, or a fault, and FSx never sees the call.
NotSent(live, err) ==
    /\ \/ ~live /\ err = "Canceled" /\ UNCHANGED disturbances
       \/ live /\ err = "ApiError" /\ Disturb
    /\ UNCHANGED fsxVars

\* The reply err of a request FSx carried out arrives, or is lost on the way.
Answered(live, reply, err) ==
    /\ live
    /\ \/ err = reply /\ UNCHANGED disturbances
       \/ err = "ApiError" /\ Disturb

-----------------------------------------------------------------------------
(* Requests that change a resource.                                        *)

\* Mutant: a resource that exists under the name is taken for the one asked for.
CreateErrorLenient(reply) ==
    IF reply \in {"ok", "IncompatibleParameter"} THEN "none" ELSE "ApiError"

\* IncompatibleParameterError is the only API error the creates tell apart.
CreateError(reply) ==
    CASE reply = "ok" -> "none"
      [] reply = "IncompatibleParameter" -> "ErrAlreadyExists"
      [] OTHER -> "ApiError"

\* CreateFileSystem, CreateVolume and CreateSnapshot: an input with a field the
\* API does not know is refused by StrictRemoveParametersAndPopulateObject.
CreateResource(live, known, in, err, id) ==
    \/ ~known /\ err = "UnknownField" /\ id = NoId /\ UNCHANGED <<fsxVars, disturbances>>
    \/ known /\ NotSent(live, err) /\ id = NoId
    \/ /\ known
       /\ \E reply \in {"ok", "IncompatibleParameter", "BadRequest"} :
             /\ ApiCreate(in, reply, id)
             /\ Answered(live, CreateError(reply), err)

\* Mutant: every error of the API is taken for "not found".
DeleteErrorLenient(reply) == IF reply = "ok" THEN "none" ELSE "ErrNotFound"

\* DeleteFileSystem, DeleteVolume and DeleteSnapshot.
DeleteError(reply) ==
    CASE reply = "ok" -> "none"
      [] reply = "NotFound" -> "ErrNotFound"
      [] OTHER -> "ApiError"

DeleteResource(live, id, err) ==
    \/ NotSent(live, err)
    \/ \E reply \in {"ok", "NotFound", "BadRequest"} :
          ApiDelete(id, reply) /\ Answered(live, DeleteError(reply), err)

\* The UpdateFileSystem request of ResizeFileSystem.
UpdateError(reply) ==
    CASE reply = "ok" -> "none"
      [] reply = "UpdateInProgress" -> "UpdateInProgress"
      [] OTHER -> "ApiError"

UpdateFileSystem(live, id, gib, err) ==
    \/ NotSent(live, err)
    \/ \E reply \in {"ok", "UpdateInProgress", "BadRequest"} :
          ApiUpdate(id, gib, reply) /\ Answered(live, UpdateError(reply), err)

-----------------------------------------------------------------------------
(* Requests that read.                                                     *)

\* getFileSystem, getVolume and getSnapshot.  A missing resource is an empty
\* list, hence ErrNotFound, or an error of the API, which is passed on; a list of
\* several, for the one id that was asked about, would be a fault of FSx.
getResource(live, id, err) ==
    \/ NotSent(live, err)
    \/ live /\ err = "ErrMultipleFound" /\ Disturb /\ UNCHANGED fsxVars
    \/ /\ live
       /\ IF id \in Ids /\ Present(id) THEN err = "none"
          ELSE err \in {"ErrNotFound", "ApiError"}
       /\ UNCHANGED <<fsxVars, disturbances>>

\* getTagsForResource, of the ARN the preceding describe returned; an id of
\* another kind was not described, and the empty ARN is refused.
getTagsForResource(live, id, err) ==
    \/ NotSent(live, err)
    \/ /\ live
       /\ err = IF id \in FsIds \cup VolIds /\ Present(id) THEN "none" ELSE "ApiError"
       /\ UNCHANGED <<fsxVars, disturbances>>

\* Mutant: a resource that is still being created counts as available.
AvailableConditionEager(id) ==
    IF lifecycle[id] \in {"AVAILABLE", "CREATING"} THEN "done" ELSE "UnexpectedState"

\* The condition functions of WaitForFileSystemAvailable,
\* WaitForVolumeAvailable and WaitForSnapshotAvailable.
AvailableCondition(id) ==
    CASE lifecycle[id] = "AVAILABLE" -> "done"
      [] lifecycle[id] = "CREATING" -> "again"
      [] lifecycle[id] = "PENDING" /\ id \notin FsIds -> "again"
      [] OTHER -> "UnexpectedState"

\* getUpdateResizeFilesystemAdministrativeAction: the positions of the updates
\* with the wanted capacity; the first of them is the newest.
UpdatesTo(f, gib) == {i \in DOMAIN updates[f] : updates[f][i].target = gib}

\* Mutant: the list is searched from the oldest update on.
OldestResizeAction(f, gib) == updates[f][Max(UpdatesTo(f, gib))]

ResizeAction(f, gib) == updates[f][Min(UpdatesTo(f, gib))]

\* Mutant: an update that FSx has begun to carry out counts as done.
ResizeConditionEager(f, gib) ==
    IF UpdatesTo(f, gib) = {} THEN "NoSuchUpdate"
    ELSE CASE ResizeAction(f, gib).status = "PENDING" -> "again"
           [] ResizeAction(f, gib).status = "FAILED" -> "UpdateFailed"
           [] OTHER -> "done"

\* The condition function of WaitForFileSystemResize.
ResizeCondition(f, gib) ==
    IF UpdatesTo(f, gib) = {} THEN "NoSuchUpdate"
    ELSE CASE ResizeAction(f, gib).status \in {"PENDING", "IN_PROGRESS"} -> "again"
           [] ResizeAction(f, gib).status \in {"UPDATED_OPTIMIZING", "COMPLETED"} -> "done"
           [] OTHER -> "UpdateFailed"

=============================================================================
