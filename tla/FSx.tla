-------------------------------- MODULE FSx --------------------------------
(***************************************************************************)
(* The Amazon FSx API, as the driver uses it (external).  FSx keeps file   *)
(* systems, OpenZFS volumes and snapshots.  A create is idempotent in its  *)
(* ClientRequestToken; creations, deletions and storage updates are        *)
(* accepted at once and carried out later, by steps of FSx's own.          *)
(***************************************************************************)
EXTENDS Naturals, Sequences, FiniteSets

CONSTANTS
    FsIds, VolIds, SnapIds, \* ids FSx may assign, told apart by their prefix
    RootVolume,             \* the id of the root volume of each file system
    ParentFs,               \* the file system the StorageClass puts volumes on
    Names, Params,          \* client tokens; creation parameters
    Preexisting,            \* the inputs that made the resources there at start
    NoInput,                \* "never created"
    MayFail,                \* may FSx fail a creation or an update it accepted?
    MaxUpdates              \* bound: storage updates accepted per file system

VARIABLES
    lifecycle,  \* of every id; "ABSENT" until FSx assigns it
    created,    \* the input every assigned id was created from
    capacity,   \* StorageCapacity of every file system, in GiB
    updates     \* AdministrativeActions of every file system, newest first

fsxVars == <<lifecycle, created, capacity, updates>>

NoId == ""
NoToken == ""

Ids == FsIds \cup VolIds \cup SnapIds
Kinds == {"filesystem", "volume", "snapshot"}

\* The kind an id's prefix names: fs-, fsvol- or fsvolsnap-.
IdsOf(kind) == CASE kind = "filesystem" -> FsIds
                 [] kind = "volume"     -> VolIds
                 [] kind = "snapshot"   -> SnapIds

\* CreateFileSystemInput, CreateVolumeInput and CreateSnapshotInput.  `source'
\* is the snapshot a volume is restored from or the volume a snapshot is of.
Inputs == [kind : Kinds, token : Names \cup {NoToken}, params : Params,
           gib : Nat, source : STRING]

Lifecycles == {"ABSENT", "PENDING", "CREATING", "AVAILABLE", "FAILED",
               "DELETING", "DELETED"}

UpdateStatuses == {"PENDING", "IN_PROGRESS", "UPDATED_OPTIMIZING",
                   "COMPLETED", "FAILED"}

Updates == [target : Nat, status : UpdateStatuses]

ASSUME FSxAssumption ==
    /\ FsIds \subseteq STRING /\ VolIds \subseteq STRING /\ SnapIds \subseteq STRING
    /\ NoId \in STRING /\ NoToken \in STRING \* what the provers do not know of ""
    /\ FsIds \cap VolIds = {} /\ FsIds \cap SnapIds = {} /\ VolIds \cap SnapIds = {}
    /\ NoId \notin Ids
    /\ ParentFs \in FsIds
    /\ RootVolume \in [FsIds -> STRING \ Ids]
    /\ Names \subseteq STRING \ {NoToken}
    /\ DOMAIN Preexisting \subseteq Ids
    /\ \A id \in DOMAIN Preexisting : /\ Preexisting[id] \in Inputs
                                      /\ id \in IdsOf(Preexisting[id].kind)
    /\ \A i, j \in DOMAIN Preexisting : \* as FSx keeps them: see ApiCreate
          /\ Preexisting[i].kind = Preexisting[j].kind
          /\ Preexisting[i].token = Preexisting[j].token /\ Preexisting[i].token # NoToken
          => i = j
    /\ MayFail \in BOOLEAN
    /\ MaxUpdates \in Nat

-----------------------------------------------------------------------------
(* What the API answers.                                                   *)

Present(id) == lifecycle[id] \notin {"ABSENT", "DELETED"}

VolumePresent(v) ==
    \/ v \in VolIds /\ Present(v)
    \/ \E f \in FsIds : RootVolume[f] = v /\ Present(f)

\* What the service itself demands of an input.
Acceptable(in) ==
    CASE in.kind = "filesystem" ->
            in.params.storageType = "INTELLIGENT_TIERING" \/ in.gib > 0
      [] in.kind = "volume" ->
            /\ lifecycle[ParentFs] = "AVAILABLE"
            /\ in.source = NoId \/ (in.source \in SnapIds /\ lifecycle[in.source] = "AVAILABLE")
      [] in.kind = "snapshot" -> VolumePresent(in.source)

\* The resources a token stands for: a request without one (the SDK then makes
\* up a fresh token) is never a repetition of an earlier request.
SameToken(in) ==
    {id \in IdsOf(in.kind) : /\ Present(id)
                             /\ in.token # NoToken
                             /\ created[id].token = in.token}

Unassigned(kind) == {id \in IdsOf(kind) : lifecycle[id] = "ABSENT"}

ApiCreate(in, reply, id) ==
    \/ /\ SameToken(in) = {} /\ Acceptable(in) /\ Unassigned(in.kind) # {}
       /\ reply = "ok"
       /\ id = CHOOSE i \in Unassigned(in.kind) : TRUE
       /\ lifecycle' = [lifecycle EXCEPT ![id] =
                           IF in.kind = "filesystem" THEN "CREATING" ELSE "PENDING"]
       /\ created' = [created EXCEPT ![id] = in]
       /\ capacity' = IF in.kind = "filesystem"
                      THEN [capacity EXCEPT ![id] = in.gib] ELSE capacity
       /\ UNCHANGED updates
    \/ /\ id \in SameToken(in)
       /\ reply = IF created[id] = in THEN "ok" ELSE "IncompatibleParameter"
       /\ UNCHANGED fsxVars
    \/ /\ SameToken(in) = {} /\ (~Acceptable(in) \/ Unassigned(in.kind) = {})
       /\ reply = "BadRequest" /\ id = NoId
       /\ UNCHANGED fsxVars

\* A delete may be refused while the resource is being created or deleted.
ApiDelete(id, reply) ==
    \/ /\ id \in Ids /\ Present(id) /\ reply = "ok"
       /\ lifecycle' = [lifecycle EXCEPT ![id] = "DELETING"]
       /\ UNCHANGED <<created, capacity, updates>>
    \/ /\ id \in Ids /\ lifecycle[id] \in {"PENDING", "CREATING", "DELETING"}
       /\ reply = "BadRequest"
       /\ UNCHANGED fsxVars
    \/ /\ (id \in Ids => ~Present(id)) /\ reply = "NotFound"
       /\ UNCHANGED fsxVars

InProgress(f) ==
    /\ updates[f] # <<>>
    /\ Head(updates[f]).status \in {"PENDING", "IN_PROGRESS", "UPDATED_OPTIMIZING"}

\* UpdateFileSystem with a new StorageCapacity, which may only grow.
ApiUpdate(f, gib, reply) ==
    LET accepted == /\ lifecycle[f] = "AVAILABLE" /\ ~InProgress(f)
                    /\ gib > capacity[f] /\ Len(updates[f]) < MaxUpdates
    IN  /\ reply = CASE accepted -> "ok"
                     [] ~accepted /\ Present(f) /\ InProgress(f) -> "UpdateInProgress"
                     [] OTHER -> "BadRequest"
        /\ updates' = IF accepted
                      THEN [updates EXCEPT ![f] =
                              <<[target |-> gib, status |-> "PENDING"]>> \o @]
                      ELSE updates
        /\ UNCHANGED <<lifecycle, created, capacity>>

-----------------------------------------------------------------------------
(* FSx's own steps.                                                        *)

FSxInit ==
    /\ lifecycle = [id \in Ids |-> IF id \in DOMAIN Preexisting
                                   THEN "AVAILABLE" ELSE "ABSENT"]
    /\ created = [id \in Ids |-> IF id \in DOMAIN Preexisting
                                 THEN Preexisting[id] ELSE NoInput]
    /\ capacity = [f \in FsIds |-> IF f \in DOMAIN Preexisting
                                   THEN Preexisting[f].gib ELSE 0]
    /\ updates = [f \in FsIds |-> <<>>]

\* A creation or a deletion moves on.
Progress(id) ==
    /\ lifecycle[id] \in {"PENDING", "CREATING", "DELETING"}
    /\ lifecycle' = [lifecycle EXCEPT ![id] =
                        CASE @ = "PENDING"  -> "CREATING"
                          [] @ = "CREATING" -> "AVAILABLE"
                          [] @ = "DELETING" -> "DELETED"]
    /\ UNCHANGED <<created, capacity, updates>>

\* A creation fails.
FailCreate(id) ==
    /\ MayFail /\ lifecycle[id] = "CREATING"
    /\ lifecycle' = [lifecycle EXCEPT ![id] = "FAILED"]
    /\ UNCHANGED <<created, capacity, updates>>

SetStatus(f, status) == updates' = [updates EXCEPT ![f][1].status = status]

\* A storage update moves on; the new capacity is there once optimizing starts.
UpdateProgress(f) ==
    /\ InProgress(f)
    /\ \/ /\ Head(updates[f]).status = "PENDING"
          /\ SetStatus(f, "IN_PROGRESS")
          /\ UNCHANGED capacity
       \/ /\ Head(updates[f]).status = "IN_PROGRESS"
          /\ SetStatus(f, "UPDATED_OPTIMIZING")
          /\ capacity' = [capacity EXCEPT ![f] = Head(updates[f]).target]
       \/ /\ Head(updates[f]).status = "UPDATED_OPTIMIZING"
          /\ SetStatus(f, "COMPLETED")
          /\ UNCHANGED capacity
    /\ UNCHANGED <<lifecycle, created>>

\* A storage update fails before the capacity has grown.
FailUpdate(f) ==
    /\ MayFail /\ InProgress(f)
    /\ Head(updates[f]).status \in {"PENDING", "IN_PROGRESS"}
    /\ SetStatus(f, "FAILED")
    /\ UNCHANGED <<lifecycle, created, capacity>>

FSxNext ==
    \/ \E id \in Ids : Progress(id) \/ FailCreate(id)
    \/ \E f \in FsIds : UpdateProgress(f) \/ FailUpdate(f)

FSxTypeOK ==
    /\ lifecycle \in [Ids -> Lifecycles]
    /\ created \in [Ids -> Inputs \cup {NoInput}]
    /\ capacity \in [FsIds -> Nat]
    /\ updates \in [FsIds -> Seq(Updates)]

=============================================================================
