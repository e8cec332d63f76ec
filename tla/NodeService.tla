---------------------------- MODULE NodeService ----------------------------
(***************************************************************************)
(* pkg/driver/node.go: the CSI node service, one process per node, with    *)
(* the mounter it calls (external) and the state of the node's target      *)
(* paths.  Every element of Calls is a goroutine that serves one request   *)
(* at a time, one step per call of the mounter.  The kubelet uses a target *)
(* path for one volume only, so a path is all a request needs to name.     *)
(***************************************************************************)
EXTENDS Naturals, InFlight

CONSTANTS
    Calls,          \* goroutines serving requests
    Requests,       \* the requests the kubelet may send
    NoRequest,      \* of a goroutine that has not been used yet
    Targets,        \* target paths
    MayGoStale,     \* target paths whose mount may stop answering, and answer again
    MaxDisturbances \* bound: failing mounter calls, stale mounts, crashes

VARIABLES
    pc, req, code,  \* of every goroutine: where it is, its request, its answer
    inFlight,       \* the InFlight of the process
    dir,            \* the target paths that exist
    stack,          \* how many mounts are stacked on every target path
    stale,          \* the target paths whose topmost mount does not answer
    promise,        \* history: what the last answer told about a target path
    disturbances

mountVars == <<dir, stack, stale>>
callVars == <<pc, req, code>>
vars == <<callVars, inFlight, mountVars, promise, disturbances>>

NodeRequests ==
    [op : {"NodePublishVolume", "NodeUnpublishVolume"}, volumeId : STRING,
     target : Targets \cup {""}, caps : {"none", "unsupported", "supported"},
     dnsName : STRING, resourceType : STRING, volumePath : STRING]

ASSUME NodeAssumption ==
    /\ Requests \subseteq NodeRequests
    /\ Targets \subseteq STRING \ {""}
    /\ \A r, s \in Requests : r.target = s.target /\ r.volumeId # "" /\ s.volumeId # ""
                                  => r.volumeId = s.volumeId
    /\ MayGoStale \subseteq Targets /\ MaxDisturbances \in Nat

Codes == {"none", "OK", "InvalidArgument", "Aborted", "Internal", "PermissionDenied"}

PCs == {"idle", "received", "context", "makeDir", "isMounted", "pathExists",
        "unmountCorrupted", "mount", "check", "unmount", "removeAll", "done"}

rootVolumePath == "fsx"

\* Mutant: publishing and unpublishing do not exclude each other.
KeyOfOperation(r) == <<r.op, r.target>>

\* Mutant: the key is the volume alone.
KeyOfVolume(r) == <<r.volumeId, CHOOSE t \in Targets : TRUE>>

\* inFlightKey := volumeID + targetPath
KeyOf(r) == <<r.volumeId, r.target>>

-----------------------------------------------------------------------------
Disturb == disturbances < MaxDisturbances /\ disturbances' = disturbances + 1

Goto(c, step) ==
    pc' = [pc EXCEPT ![c] = step] /\ UNCHANGED <<req, code, inFlight, promise>>

\* The handler returns before it has inserted its key.
Refuse(c, answer) ==
    /\ pc' = [pc EXCEPT ![c] = "done"] /\ code' = [code EXCEPT ![c] = answer]
    /\ UNCHANGED <<req, inFlight, promise, mountVars, disturbances>>

\* The handler returns and its deferred function deletes the key.  OK promises
\* the kubelet that the target path is now mounted, or no longer mounted.
Return(c, answer) ==
    /\ pc' = [pc EXCEPT ![c] = "done"] /\ code' = [code EXCEPT ![c] = answer]
    /\ inFlight' = Delete(inFlight, KeyOf(req[c]))
    /\ promise' = IF answer # "OK" THEN promise
                  ELSE [promise EXCEPT ![req[c].target] =
                          IF req[c].op = "NodePublishVolume"
                          THEN "published" ELSE "unpublished"]
    /\ UNCHANGED req

Call(c, r) ==
    /\ pc[c] \in {"idle", "done"}
    /\ pc' = [pc EXCEPT ![c] = "received"]
    /\ req' = [req EXCEPT ![c] = r]
    /\ code' = [code EXCEPT ![c] = "none"]
    /\ UNCHANGED <<inFlight, promise, mountVars, disturbances>>

\* Mutant: an empty target path is let through.
MissingVolumeOnly(r) ==
    r.volumeId = "" \/ (r.op = "NodePublishVolume" /\ r.caps # "supported")

MissingArgument(r) ==
    \/ r.volumeId = "" \/ r.target = ""
    \/ r.op = "NodePublishVolume" /\ r.caps # "supported"

Begin(c) ==
    LET r == req[c] IN
    /\ pc[c] = "received"
    /\ \/ MissingArgument(r) /\ Refuse(c, "InvalidArgument")
       \/ ~MissingArgument(r) /\ ~CanInsert(inFlight, KeyOf(r)) /\ Refuse(c, "Aborted")
       \/ /\ ~MissingArgument(r) /\ CanInsert(inFlight, KeyOf(r))
          /\ inFlight' = Insert(inFlight, KeyOf(r))
          /\ promise' = [promise EXCEPT ![r.target] = "none"]
          /\ pc' = [pc EXCEPT ![c] = IF r.op = "NodePublishVolume" THEN "context" ELSE "check"]
          /\ UNCHANGED <<req, code, mountVars, disturbances>>

-----------------------------------------------------------------------------
(* NodePublishVolume.                                                      *)

\* The volume context: a file system is mounted at its root volume, an OpenZFS
\* volume at the path the context gives.
BadContext(r) ==
    \/ r.dnsName = ""
    \/ r.resourceType \notin {"filesystem", "volume"}
    \/ r.volumePath = "" /\ r.resourceType = "volume"
    \/ r.resourceType = "filesystem" /\ r.volumePath \notin {"", rootVolumePath}

CheckContext(c) ==
    /\ pc[c] = "context"
    /\ IF BadContext(req[c]) THEN Return(c, "InvalidArgument") ELSE Goto(c, "makeDir")
    /\ UNCHANGED <<mountVars, disturbances>>

\* MakeDir: a directory that is already there is no error.
MakeDir(c) ==
    /\ pc[c] = "makeDir"
    /\ \/ dir' = dir \cup {req[c].target} /\ Goto(c, "isMounted") /\ UNCHANGED disturbances
       \/ UNCHANGED dir /\ Return(c, "Internal") /\ Disturb
    /\ UNCHANGED <<stack, stale>>

\* Mutant: the path is mounted without asking what is mounted there.
MountUnchecked(c) ==
    pc[c] = "isMounted" /\ Goto(c, "mount") /\ UNCHANGED <<mountVars, disturbances>>

\* isMounted, first call.  IsLikelyNotMountPoint answers "true, err when the
\* directory does not exist or corrupted", false for a mount point and true for
\* anything else.
IsMounted(c) ==
    LET t == req[c].target IN
    /\ pc[c] = "isMounted"
    /\ \/ t \in stale /\ Goto(c, "pathExists")
       \/ t \notin dir /\ Goto(c, "mount")
       \/ t \in dir \ stale /\ stack[t] > 0 /\ Return(c, "OK")
       \/ t \in dir \ stale /\ stack[t] = 0 /\ Goto(c, "mount")
    /\ UNCHANGED <<mountVars, disturbances>>

\* isMounted, second call: PathExists tells whether the mount is corrupted.
PathExists(c) ==
    /\ pc[c] = "pathExists"
    /\ IF req[c].target \in stale THEN Goto(c, "unmountCorrupted")
       ELSE Return(c, "Internal")
    /\ UNCHANGED <<mountVars, disturbances>>

\* The mounter's Unmount takes the topmost mount away.
Unmounted(t) ==
    /\ stack' = [stack EXCEPT ![t] = IF @ > 0 THEN @ - 1 ELSE 0]
    /\ stale' = stale \ {t}
    /\ UNCHANGED <<dir, disturbances>>

\* isMounted, third call: "we can unmount then re-mount the volume".
UnmountCorrupted(c) ==
    /\ pc[c] = "unmountCorrupted"
    /\ \/ Unmounted(req[c].target) /\ Goto(c, "mount")
       \/ Return(c, "Internal") /\ Disturb /\ UNCHANGED mountVars

\* The mounter's Mount needs a directory and stacks on what is mounted there.
Mount(c) ==
    LET t == req[c].target IN
    /\ pc[c] = "mount"
    /\ \/ /\ t \in dir
          /\ stack' = [stack EXCEPT ![t] = @ + 1]
          /\ Return(c, "OK")
          /\ UNCHANGED <<dir, stale, disturbances>>
       \/ /\ \E answer \in {"Internal", "InvalidArgument", "PermissionDenied"} : Return(c, answer)
          /\ IF t \in dir THEN Disturb ELSE UNCHANGED disturbances
          /\ UNCHANGED mountVars

-----------------------------------------------------------------------------
(* NodeUnpublishVolume.                                                    *)

\* The error of IsLikelyNotMountPoint is dropped: a path that does not exist, is
\* not mounted, or is a corrupted mount is answered with OK.
CheckMounted(c) ==
    LET t == req[c].target
        notMnt == t \in stale \/ t \notin dir \/ stack[t] = 0
    IN
    /\ pc[c] = "check"
    /\ IF notMnt THEN Return(c, "OK") ELSE Goto(c, "unmount")
    /\ UNCHANGED <<mountVars, disturbances>>

\* Mutant: the error of Unmount is dropped.
UnmountErrorDropped(c) ==
    /\ pc[c] = "unmount"
    /\ \/ Unmounted(req[c].target) /\ Goto(c, "removeAll")
       \/ Goto(c, "removeAll") /\ Disturb /\ UNCHANGED mountVars

Unmount(c) ==
    /\ pc[c] = "unmount"
    /\ \/ Unmounted(req[c].target) /\ Goto(c, "removeAll")
       \/ Return(c, "Internal") /\ Disturb /\ UNCHANGED mountVars

\* os.RemoveAll: recursive, and it descends into whatever is mounted there.
RemoveAll(c) ==
    /\ pc[c] = "removeAll"
    /\ \/ dir' = dir \ {req[c].target} /\ Return(c, "OK") /\ UNCHANGED <<stack, stale, disturbances>>
       \/ Return(c, "Internal") /\ Disturb /\ UNCHANGED mountVars

-----------------------------------------------------------------------------
(* The environment.                                                        *)

\* The NFS server of a mount stops answering, or answers again.
GoStale(t) ==
    /\ t \in MayGoStale \ stale /\ stack[t] > 0
    /\ stale' = stale \cup {t} /\ Disturb
    /\ UNCHANGED <<callVars, inFlight, dir, stack, promise>>

Recover(t) ==
    /\ t \in stale /\ stale' = stale \ {t}
    /\ UNCHANGED <<callVars, inFlight, dir, stack, promise, disturbances>>

\* The plugin dies with its goroutines; the mounts stay.  newNodeService makes
\* an empty InFlight.
Crash ==
    /\ pc' = [c \in Calls |-> "idle"] /\ req' = [c \in Calls |-> NoRequest]
    /\ code' = [c \in Calls |-> "none"]
    /\ inFlight' = NewInFlight
    /\ Disturb
    /\ UNCHANGED <<mountVars, promise>>

Init ==
    /\ pc = [c \in Calls |-> "idle"] /\ req = [c \in Calls |-> NoRequest]
    /\ code = [c \in Calls |-> "none"]
    /\ inFlight = NewInFlight
    /\ dir = {} /\ stack = [t \in Targets |-> 0] /\ stale = {}
    /\ promise = [t \in Targets |-> "none"]
    /\ disturbances = 0

Handler(c) ==
    \/ Begin(c)
    \/ CheckContext(c) \/ MakeDir(c) \/ IsMounted(c) \/ PathExists(c)
    \/ UnmountCorrupted(c) \/ Mount(c)
    \/ CheckMounted(c) \/ Unmount(c) \/ RemoveAll(c)

Next ==
    \/ \E c \in Calls : (\E r \in Requests : Call(c, r)) \/ Handler(c)
    \/ \E t \in Targets : GoStale(t) \/ Recover(t)
    \/ Crash

Spec == Init /\ [][Next]_vars

-----------------------------------------------------------------------------
(* Properties.                                                             *)

\* Every variable has its type.
TypeOK ==
    /\ pc \in [Calls -> PCs]
    /\ req \in [Calls -> Requests \cup {NoRequest}]
    /\ \A c \in Calls : pc[c] # "idle" => req[c] \in Requests
    /\ code \in [Calls -> Codes]
    /\ inFlight \subseteq STRING \X Targets
    /\ dir \subseteq Targets
    /\ stack \in [Targets -> Nat]
    /\ stale \subseteq Targets
    /\ promise \in [Targets -> {"none", "published", "unpublished"}]
    /\ disturbances \in 0 .. MaxDisturbances

Holding(c) == pc[c] \notin {"idle", "received", "done"}

\* The InFlight of the node holds exactly the keys of the requests being served.
InFlightExact == inFlight = {KeyOf(req[c]) : c \in {d \in Calls : Holding(d)}}

\* os.RemoveAll never runs on a path that still has a volume mounted on it, which
\* would delete the data in the volume: duplicate requests of the kubelet must
\* not stack a second mount, nor mount again behind an unmount.
RemoveAllSeesNoMount ==
    \A c \in Calls : pc[c] = "removeAll" => stack[req[c].target] = 0

\* At most one mount is stacked on a target path.
NoStackedMounts == \A t \in Targets : stack[t] <= 1

\* "concurrent operations for different pods do not collide and return Aborted":
\* a request is Aborted only while another one for its own path is served.
AbortedForSamePathOnly ==
    [][\A c \in Calls :
          code[c] = "none" /\ code'[c] = "Aborted"
              => \E d \in Calls : d # c /\ Holding(d) /\ req[d].target = req[c].target]_vars

\* From the OK of a NodePublishVolume until the next request for the path is
\* taken up, the volume is mounted there, through crashes of the plugin and
\* late or repeated requests.
PublishedIsMounted ==
    \A t \in Targets : promise[t] = "published" => t \in dir /\ stack[t] > 0

\* From the OK of a NodeUnpublishVolume until the next request for the path is
\* taken up, nothing is mounted there, if the mount always answered.
UnpublishedIsUnmounted ==
    \A t \in Targets \ MayGoStale : promise[t] = "unpublished" => stack[t] = 0

\* Claim of the log line of NodeUnpublishVolume, "Target path not mounted": an OK
\* says that nothing is mounted on the path, whether or not the mount answers.
TargetNotMounted ==
    \A t \in Targets : promise[t] = "unpublished" => stack[t] = 0

-----------------------------------------------------------------------------
(* The node service implements KeyedLock: a key is granted when no request *)
(* under it is being served and refused only when one is.                  *)

Phase(c) ==
    CASE pc[c] = "idle" -> "idle"
      [] pc[c] = "received" -> "asked"
      [] pc[c] = "done" -> IF code[c] = "Aborted" THEN "refused" ELSE "over"
      [] OTHER -> "granted"

NodeProcess == "node"

Lock == INSTANCE KeyedLock WITH
    Actors <- Calls, Domains <- {NodeProcess}, DomainOf <- [c \in Calls |-> NodeProcess],
    Keys <- {KeyOf(r) : r \in Requests}, NoKey <- NoRequest,
    phase <- [c \in Calls |-> Phase(c)],
    key <- [c \in Calls |-> IF pc[c] = "idle" THEN NoRequest ELSE KeyOf(req[c])]

\* Whatever path a handler takes, and however its process dies, requests for a
\* path exclude each other, and none is Aborted for a key that nobody holds.
ImplementsKeyedLock == Lock!Spec

=============================================================================
