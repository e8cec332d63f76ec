----------------------- MODULE ControllerResultProofs -----------------------
(***************************************************************************)
(* What the controller service has FSx create, and what its OK answers and *)
(* its errors are worth, proved for every number of replicas and           *)
(* goroutines and every set of requests and resources: only what passed    *)
(* the checks is created, a creation answered with OK is the creation that *)
(* was asked for, an expansion answered with OK happened, and one answered *)
(* with an error of its update did not.                                    *)
(***************************************************************************)
EXTENDS ControllerAnswerProofs

-----------------------------------------------------------------------------
(* Storage updates and capacities.  FSx carries out one update at a time,  *)
(* so only the newest can be under way, and it takes one only to more than *)
(* the capacity, so an update follows a completed one only to a larger     *)
(* target.                                                                 *)

ListSound(list, cap) ==
    /\ \A i \in DOMAIN list :
          /\ i > 1 => list[i].status \in {"COMPLETED", "FAILED"}
          /\ list[i].status \in {"PENDING", "IN_PROGRESS"} => cap < list[i].target
          /\ list[i].status \in {"UPDATED_OPTIMIZING", "COMPLETED"} => list[i].target <= cap
    /\ \A i, j \in DOMAIN list :
          i < j /\ list[j].status = "COMPLETED" => list[j].target < list[i].target

UpdatesSound ==
    \A f \in FsIds : /\ lifecycle[f] = "ABSENT" => updates[f] = <<>>
                     /\ ListSound(updates[f], capacity[f])

\* Capacities of file systems that are there do not shrink.
Grows == \A f \in FsIds : lifecycle[f] # "ABSENT" => capacity[f] <= capacity'[f]

\* A list of updates is a function of its positions.
LEMMA ListType ==
    ASSUME NEW list \in Seq(Updates)
    PROVE  /\ DOMAIN list = 1 .. Len(list) /\ Len(list) \in Nat
           /\ \A i \in DOMAIN list : list[i].target \in Nat /\ list[i].status \in UpdateStatuses
           /\ list # <<>> => 1 \in DOMAIN list /\ Head(list) = list[1]
<1>1. DOMAIN list = 1 .. Len(list) /\ Len(list) \in Nat OBVIOUS
<1>2. \A i \in DOMAIN list : list[i] \in Updates BY <1>1, ElementOfSeq
<1>3. list # <<>> => Len(list) # 0 BY EmptySeq
<1> QED BY <1>1, <1>2, <1>3 DEF Updates

\* A new update in front of the others.
LEMMA ListGrows ==
    ASSUME NEW list \in Seq(Updates), NEW cap \in Nat, NEW target \in Nat, ListSound(list, cap),
           cap < target, list # <<>> => list[1].status \in {"COMPLETED", "FAILED"}
    PROVE  ListSound(<<[target |-> target, status |-> "PENDING"]>> \o list, cap)
<1> DEFINE new == [target |-> target, status |-> "PENDING"]
           longer == <<new>> \o list
<1>1. /\ DOMAIN list = 1 .. Len(list) /\ Len(list) \in Nat
      /\ \A i \in DOMAIN list : list[i].target \in Nat /\ list[i].status \in UpdateStatuses
  BY ListType
<1>2. new \in Updates BY DEF Updates, UpdateStatuses
<1>3. /\ DOMAIN longer = 1 .. Len(list) + 1
      /\ longer[1] = new
      /\ \A i \in 2 .. Len(list) + 1 : longer[i] = list[i - 1]
  BY <1>2
<1> HIDE DEF longer
<1>4. \A i \in DOMAIN list : list[i].status \in {"COMPLETED", "FAILED"}
  BY <1>1 DEF ListSound
<1>5. \A i \in DOMAIN list : list[i].status = "COMPLETED" => list[i].target <= cap
  BY DEF ListSound
<1>6. ASSUME NEW i \in DOMAIN longer
      PROVE  /\ i > 1 => longer[i].status \in {"COMPLETED", "FAILED"}
             /\ longer[i].status \in {"PENDING", "IN_PROGRESS"} => cap < longer[i].target
             /\ longer[i].status \in {"UPDATED_OPTIMIZING", "COMPLETED"} => longer[i].target <= cap
  BY <1>1, <1>3, <1>4, <1>5
<1>7. ASSUME NEW i \in DOMAIN longer, NEW j \in DOMAIN longer, i < j,
             longer[j].status = "COMPLETED"
      PROVE  longer[j].target < longer[i].target
  <2>1. j - 1 \in DOMAIN list /\ longer[j] = list[j - 1] BY <1>1, <1>3, <1>7
  <2>2. CASE i = 1
    BY <1>1, <1>3, <1>5, <1>7, <2>1, <2>2
  <2>3. CASE i # 1
    <3>1. i - 1 \in DOMAIN list /\ longer[i] = list[i - 1] /\ i - 1 < j - 1
      BY <1>1, <1>3, <1>7, <2>3
    <3> QED BY <1>7, <2>1, <3>1 DEF ListSound
  <2> QED BY <2>2, <2>3
<1>8. ListSound(longer, cap) BY <1>6, <1>7 DEF ListSound
<1> QED BY <1>8 DEF longer

\* The newest update gets another status.
LEMMA ListMovesOn ==
    ASSUME NEW list \in Seq(Updates), list # <<>>, NEW cap \in Nat, ListSound(list, cap),
           NEW status \in UpdateStatuses, NEW more \in Nat, cap <= more,
           status \in {"PENDING", "IN_PROGRESS"} => more < list[1].target,
           status \in {"UPDATED_OPTIMIZING", "COMPLETED"} => list[1].target <= more
    PROVE  ListSound([list EXCEPT ![1].status = status], more)
<1> DEFINE moved == [list EXCEPT ![1].status = status]
<1>1. /\ DOMAIN list = 1 .. Len(list) /\ Len(list) \in Nat /\ 1 \in DOMAIN list
      /\ \A i \in DOMAIN list : list[i] \in Updates
      /\ \A i \in DOMAIN list : list[i].target \in Nat /\ list[i].status \in UpdateStatuses
  BY ListType, ElementOfSeq
<1>2. /\ DOMAIN moved = DOMAIN list
      /\ moved[1].status = status /\ moved[1].target = list[1].target
      /\ \A i \in DOMAIN list : i # 1 => moved[i] = list[i]
  BY <1>1 DEF Updates
<1> HIDE DEF moved
<1>3. ASSUME NEW i \in DOMAIN moved
      PROVE  /\ i > 1 => moved[i].status \in {"COMPLETED", "FAILED"}
             /\ moved[i].status \in {"PENDING", "IN_PROGRESS"} => more < moved[i].target
             /\ moved[i].status \in {"UPDATED_OPTIMIZING", "COMPLETED"} => moved[i].target <= more
  <2>1. CASE i = 1 BY <1>2, <2>1
  <2>2. CASE i # 1
    <3>1. i \in Nat /\ i > 1 /\ moved[i] = list[i] /\ list[i].target \in Nat BY <1>1, <1>2, <2>2
    <3>2. list[i].status \in {"COMPLETED", "FAILED"} BY <1>2, <3>1 DEF ListSound
    <3>3. list[i].status = "COMPLETED" => list[i].target <= cap BY <1>2 DEF ListSound
    <3> QED BY <3>1, <3>2, <3>3
  <2> QED BY <2>1, <2>2
<1>4. ASSUME NEW i \in DOMAIN moved, NEW j \in DOMAIN moved, i < j, moved[j].status = "COMPLETED"
      PROVE  moved[j].target < moved[i].target
  <2>1. j # 1 BY <1>1, <1>2, <1>4
  <2>2. list[j].status = "COMPLETED" /\ moved[j].target = list[j].target
    BY <1>2, <1>4, <2>1
  <2>3. moved[i].target = list[i].target BY <1>2
  <2> QED BY <1>2, <1>4, <2>2, <2>3 DEF ListSound
<1>5. ListSound(moved, more) BY <1>3, <1>4 DEF ListSound
<1> QED BY <1>5 DEF moved

\* What a handler asks of FSx in one step.
LEMMA HandlerCalls ==
    ASSUME TypeInv, NEW c \in Calls, Handler(c)
    PROVE  \/ UNCHANGED fsxVars
           \/ \E in \in Inputs : \E id, reply : ApiCreate(in, reply, id)
           \/ \E id, reply : ApiDelete(id, reply)
           \/ \E f \in FsIds, target \in Nat : \E reply : ApiUpdate(f, target, reply)
<1>1. FSxTypeOK /\ DisturbancesOK /\ LockTypeOK /\ LocalTypeOK BY TypeParts DEF TypeInv
<1>2. req[c] \in Requests /\ rid[c] \in STRING BY <1>1, HandlerLock DEF LockTypeOK, LocalTypeOK
<1>3. ASSUME NEW in \in Inputs, NEW known, Create(c, in, known)
      PROVE  UNCHANGED fsxVars \/ \E id, reply : ApiCreate(in, reply, id)
  <2>1. PICK err, id : CreateResource(~canceled[c], known, in, err, id) BY <1>3 DEF Create
  <2> QED BY <1>1, <2>1, CreateResourceStep
<1>4. CASE CreateFileSystem(c) BY <1>2, <1>3, <1>4, InputType DEF CreateFileSystem
<1>5. CASE CreateVolume(c) BY <1>2, <1>3, <1>5, InputType DEF CreateVolume
<1>6. CASE CreateSnapshot(c) BY <1>2, <1>3, <1>6, InputType DEF CreateSnapshot
<1>7. CASE DeleteVolume(c) \/ DeleteSnapshot(c)
  <2>1. PICK err : DeleteResource(~canceled[c], req[c].id, err)
    BY <1>7 DEF DeleteVolume, DeleteSnapshot
  <2> QED BY <1>1, <2>1, DeleteResourceStep
<1>8. CASE ResizeFileSystem(c)
  <2>1. PICK err : UpdateFileSystem(~canceled[c], req[c].id, NewCapacity(req[c]), err)
    BY <1>8 DEF ResizeFileSystem
  <2>2. req[c].id \in FsIds BY <1>8 DEF ResizeFileSystem, TypeInv, StepMatchesOp
  <2>3. NewCapacity(req[c]) \in Nat BY <1>2, CapacityType
  <2> QED BY <1>1, <2>1, <2>2, <2>3, UpdateFileSystemStep
<1>9. ASSUME NEW live, NEW id, NEW err,
             getResource(live, id, err) \/ getTagsForResource(live, id, err)
      PROVE  UNCHANGED fsxVars
  BY <1>1, <1>9, ReadStep
<1>10. CASE Begin(c) \/ Validate(c) BY <1>10 DEF Begin, Validate
<1>11. CASE DescribeSnapshot(c) \/ GetVolumeId(c) BY <1>9, <1>11 DEF DescribeSnapshot, GetVolumeId
<1>12. CASE WaitForAvailable(c) \/ DescribeParent(c)
  BY <1>9, <1>12 DEF WaitForAvailable, DescribeParent
<1>13. CASE DescribeForDelete(c) \/ ListTags(c) BY <1>9, <1>13 DEF DescribeForDelete, ListTags
<1>14. CASE DescribeFileSystem(c) \/ FindUpdate(c)
  BY <1>9, <1>14 DEF DescribeFileSystem, FindUpdate
<1>15. CASE WaitForFileSystemResize(c) \/ DescribeVolume(c)
  BY <1>9, <1>15 DEF WaitForFileSystemResize, DescribeVolume
<1> QED BY <1>4, <1>5, <1>6, <1>7, <1>8, <1>10, <1>11, <1>12, <1>13, <1>14, <1>15 DEF Handler

\* FSx changes by what the handlers and administrators ask of it and by itself.
LEMMA NextCalls ==
    ASSUME TypeInv, [Next]_vars
    PROVE  \/ UNCHANGED fsxVars
           \/ \E in \in Inputs : \E id, reply : ApiCreate(in, reply, id)
           \/ \E id, reply : ApiDelete(id, reply)
           \/ \E f \in FsIds, target \in Nat : \E reply : ApiUpdate(f, target, reply)
           \/ FSxNext
<1>1. CASE UNCHANGED vars BY <1>1 DEF vars
<1>2. ASSUME NEW c \in Calls, NEW r \in Requests, Call(c, r) PROVE UNCHANGED fsxVars
  BY <1>2 DEF Call
<1>3. ASSUME NEW c \in Calls, Cancel(c) PROVE UNCHANGED fsxVars BY <1>3 DEF Cancel
<1>4. ASSUME NEW p \in Procs, Crash(p) PROVE UNCHANGED fsxVars BY <1>4 DEF Crash
<1>5. ASSUME NEW id \in Ids, ManualDelete(id) PROVE \E reply : ApiDelete(id, reply)
  BY <1>5 DEF ManualDelete
<1>6. CASE FSxStep BY <1>6 DEF FSxStep
<1> QED BY <1>1, <1>2, <1>3, <1>4, <1>5, <1>6, HandlerCalls DEF Next

\* Every step keeps the lists of updates sound and shrinks no file system.
LEMMA NextUpdates ==
    ASSUME TypeInv, UpdatesSound, [Next]_vars
    PROVE  UpdatesSound' /\ Grows
<1>1. /\ lifecycle \in [Ids -> Lifecycles] /\ capacity \in [FsIds -> Nat]
      /\ updates \in [FsIds -> Seq(Updates)]
      /\ FSxTypeOK
  BY DEF TypeInv, TypeOK, FSxTypeOK
<1>2. FsIds \subseteq Ids BY DEF Ids
<1>3. ASSUME UNCHANGED <<capacity, updates>>,
             \A f \in FsIds : lifecycle'[f] = "ABSENT" => lifecycle[f] = "ABSENT"
      PROVE  UpdatesSound' /\ Grows
  BY <1>1, <1>3 DEF UpdatesSound, Grows
<1>4. CASE UNCHANGED fsxVars BY <1>3, <1>4 DEF fsxVars
<1>5. ASSUME NEW in \in Inputs, NEW id, NEW reply, ApiCreate(in, reply, id), ~UNCHANGED fsxVars
      PROVE  UpdatesSound' /\ Grows
  <2>1. /\ id \in IdsOf(in.kind) /\ lifecycle[id] = "ABSENT"
        /\ lifecycle' = [lifecycle EXCEPT ![id] =
               IF in.kind = "filesystem" THEN "CREATING" ELSE "PENDING"]
        /\ capacity' = IF in.kind = "filesystem"
                       THEN [capacity EXCEPT ![id] = in.gib] ELSE capacity
        /\ updates' = updates
    BY <1>1, <1>5, ApiCreateStep
  <2>2. ASSUME NEW f \in FsIds PROVE /\ lifecycle'[f] = "ABSENT" => lifecycle[f] = "ABSENT"
                                     /\ f # id => capacity'[f] = capacity[f]
    BY <1>1, <1>2, <2>1
  <2>3. id \in FsIds => updates[id] = <<>> BY <2>1 DEF UpdatesSound
  <2>4. \A cap : ListSound(<<>>, cap) BY DEF ListSound
  <2> QED BY <1>1, <2>1, <2>2, <2>3, <2>4 DEF UpdatesSound, Grows
<1>6. ASSUME NEW id, NEW reply, ApiDelete(id, reply) PROVE UpdatesSound' /\ Grows
  BY <1>1, <1>2, <1>3, <1>6 DEF ApiDelete, fsxVars
<1>7. ASSUME NEW f \in FsIds, NEW target \in Nat, NEW reply, ApiUpdate(f, target, reply),
             ~UNCHANGED fsxVars
      PROVE  UpdatesSound' /\ Grows
  <2> DEFINE new == <<[target |-> target, status |-> "PENDING"]>> \o updates[f]
  <2>1. /\ lifecycle[f] = "AVAILABLE" /\ ~InProgress(f) /\ target > capacity[f]
        /\ updates' = [updates EXCEPT ![f] = new]
        /\ UNCHANGED <<lifecycle, capacity>>
    BY <1>7 DEF ApiUpdate, fsxVars
  <2>2. updates[f] # <<>> => updates[f][1].status \in {"COMPLETED", "FAILED"}
    <3>1. ASSUME updates[f] # <<>>
          PROVE  Head(updates[f]) = updates[f][1] /\ updates[f][1].status \in UpdateStatuses
      BY <1>1, <3>1, ListType
    <3> QED BY <2>1, <3>1 DEF InProgress, UpdateStatuses
  <2>3. ListSound(new, capacity[f]) BY <1>1, <2>1, <2>2, ListGrows DEF UpdatesSound
  <2> HIDE DEF new
  <2> QED BY <1>1, <2>1, <2>3 DEF UpdatesSound, Grows
<1>8. ASSUME NEW id \in Ids, Progress(id) \/ FailCreate(id) PROVE UpdatesSound' /\ Grows
  <2>1. UNCHANGED <<capacity, updates>> BY <1>8 DEF Progress, FailCreate
  <2>2. \A f \in FsIds : lifecycle'[f] = "ABSENT" => lifecycle[f] = "ABSENT"
    BY <1>1, <1>2, <1>8 DEF Progress, FailCreate
  <2> QED BY <1>3, <2>1, <2>2
<1>9. ASSUME NEW f \in FsIds, UpdateProgress(f) \/ FailUpdate(f) PROVE UpdatesSound' /\ Grows
  <2> DEFINE list == updates[f]
             moved(status) == [list EXCEPT ![1].status = status]
  <2>1. list \in Seq(Updates) /\ ListSound(list, capacity[f]) /\ capacity[f] \in Nat
    BY <1>1 DEF UpdatesSound
  <2>2. list # <<>> BY <1>9 DEF UpdateProgress, FailUpdate, InProgress
  <2>3. /\ Head(list) = list[1] /\ 1 \in DOMAIN list
        /\ list[1].target \in Nat /\ list[1].status \in UpdateStatuses
    BY <2>1, <2>2, ListType
  <2>4. /\ list[1].status \in {"PENDING", "IN_PROGRESS"} => capacity[f] < list[1].target
        /\ list[1].status = "UPDATED_OPTIMIZING" => list[1].target <= capacity[f]
    BY <2>1, <2>3 DEF ListSound
  <2>5. ASSUME NEW status \in UpdateStatuses, NEW more \in Nat, SetStatus(f, status),
               capacity' = [capacity EXCEPT ![f] = more], capacity[f] <= more,
               UNCHANGED lifecycle,
               status \in {"PENDING", "IN_PROGRESS"} => more < list[1].target,
               status \in {"UPDATED_OPTIMIZING", "COMPLETED"} => list[1].target <= more
        PROVE  UpdatesSound' /\ Grows
    <3>1. ListSound(moved(status), more) BY <2>1, <2>2, <2>5, ListMovesOn
    <3>2. updates' = [updates EXCEPT ![f] = moved(status)] BY <2>5 DEF SetStatus
    <3> HIDE DEF moved, list
    <3> QED BY <1>1, <2>2, <2>5, <3>1, <3>2 DEF UpdatesSound, Grows, list
  <2>6. ASSUME UNCHANGED capacity PROVE capacity' = [capacity EXCEPT ![f] = capacity[f]]
    BY <1>1, <2>6
  <2> HIDE DEF list
  <2> USE DEF UpdateStatuses
  <2>7. CASE FailUpdate(f)
    <3>1. SetStatus(f, "FAILED") /\ UNCHANGED <<lifecycle, capacity>> BY <2>7 DEF FailUpdate
    <3> QED BY <2>1, <2>5, <2>6, <3>1
  <2>8. CASE UpdateProgress(f) /\ list[1].status = "PENDING"
    <3>1. SetStatus(f, "IN_PROGRESS") /\ UNCHANGED <<lifecycle, capacity>>
      BY <2>3, <2>8 DEF UpdateProgress, list
    <3> QED BY <2>1, <2>4, <2>5, <2>6, <2>8, <3>1
  <2>9. CASE UpdateProgress(f) /\ list[1].status = "IN_PROGRESS"
    <3>1. /\ SetStatus(f, "UPDATED_OPTIMIZING") /\ UNCHANGED lifecycle
          /\ capacity' = [capacity EXCEPT ![f] = list[1].target]
      BY <2>3, <2>9 DEF UpdateProgress, list
    <3>2. PICK more \in Nat : more = list[1].target BY <2>3
    <3>3. capacity[f] <= more BY <2>1, <2>4, <2>9, <3>2
    <3>4. list[1].target <= more BY <3>2
    <3>5. capacity' = [capacity EXCEPT ![f] = more] BY <3>1, <3>2
    <3> QED BY <2>5, <3>1, <3>3, <3>4, <3>5
  <2>10. CASE UpdateProgress(f) /\ list[1].status = "UPDATED_OPTIMIZING"
    <3>1. SetStatus(f, "COMPLETED") /\ UNCHANGED <<lifecycle, capacity>>
      BY <2>3, <2>10 DEF UpdateProgress, list
    <3> QED BY <2>1, <2>4, <2>5, <2>6, <2>10, <3>1
  <2> QED BY <1>9, <2>3, <2>7, <2>8, <2>9, <2>10 DEF UpdateProgress, list
<1>10. CASE FSxNext BY <1>8, <1>9, <1>10 DEF FSxNext
<1> QED BY <1>4, <1>5, <1>6, <1>7, <1>10, NextCalls

\* No file system has been updated at start.
LEMMA InitUpdates == Init => UpdatesSound
BY DEF Init, FSxInit, UpdatesSound, ListSound

\* Updates are sound in every reachable state.
THEOREM UpdatesInvariance == Spec => []UpdatesSound
<1>1. TypeInv /\ UpdatesSound /\ [Next]_vars => UpdatesSound' BY NextUpdates
<1> QED BY <1>1, InitUpdates, TypeInvariance, PTL DEF Spec

-----------------------------------------------------------------------------
(* The way of a goroutine through its handler.                             *)

\* The next step is the one of the place the goroutine is at.
LEMMA HandlerAt ==
    ASSUME NEW c, Handler(c)
    PROVE  /\ pc[c] = "received" => Begin(c)
           /\ pc[c] = "validate" => Validate(c)
           /\ pc[c] = "describeSnapshot" => DescribeSnapshot(c)
           /\ pc[c] = "createFileSystem" => CreateFileSystem(c)
           /\ pc[c] = "createVolume" => CreateVolume(c)
           /\ pc[c] = "getVolumeId" => GetVolumeId(c)
           /\ pc[c] = "createSnapshot" => CreateSnapshot(c)
           /\ pc[c] = "waitAvailable" => WaitForAvailable(c)
           /\ pc[c] = "describeParent" => DescribeParent(c)
           /\ pc[c] = "describe" => DescribeForDelete(c)
           /\ pc[c] = "listTags" => ListTags(c)
           /\ pc[c] = "delete" => DeleteVolume(c)
           /\ pc[c] = "deleteSnapshot" => DeleteSnapshot(c)
           /\ pc[c] = "describeFileSystem" => DescribeFileSystem(c)
           /\ pc[c] = "resize" => ResizeFileSystem(c)
           /\ pc[c] = "findUpdate" => FindUpdate(c)
           /\ pc[c] = "waitResize" => WaitForFileSystemResize(c)
           /\ pc[c] = "describeVolume" => DescribeVolume(c)
<1>1. Begin(c) => pc[c] = "received" BY DEF Begin
<1>2. Validate(c) => pc[c] = "validate" BY DEF Validate
<1>3. DescribeSnapshot(c) => pc[c] = "describeSnapshot" BY DEF DescribeSnapshot
<1>4. CreateFileSystem(c) => pc[c] = "createFileSystem" BY DEF CreateFileSystem
<1>5. CreateVolume(c) => pc[c] = "createVolume" BY DEF CreateVolume
<1>6. GetVolumeId(c) => pc[c] = "getVolumeId" BY DEF GetVolumeId
<1>7. CreateSnapshot(c) => pc[c] = "createSnapshot" BY DEF CreateSnapshot
<1>8. WaitForAvailable(c) => pc[c] = "waitAvailable" BY DEF WaitForAvailable
<1>9. DescribeParent(c) => pc[c] = "describeParent" BY DEF DescribeParent
<1>10. DescribeForDelete(c) => pc[c] = "describe" BY DEF DescribeForDelete
<1>11. ListTags(c) => pc[c] = "listTags" BY DEF ListTags
<1>12. DeleteVolume(c) => pc[c] = "delete" BY DEF DeleteVolume
<1>13. DeleteSnapshot(c) => pc[c] = "deleteSnapshot" BY DEF DeleteSnapshot
<1>14. DescribeFileSystem(c) => pc[c] = "describeFileSystem" BY DEF DescribeFileSystem
<1>15. ResizeFileSystem(c) => pc[c] = "resize" BY DEF ResizeFileSystem
<1>16. FindUpdate(c) => pc[c] = "findUpdate" BY DEF FindUpdate
<1>17. WaitForFileSystemResize(c) => pc[c] = "waitResize" BY DEF WaitForFileSystemResize
<1>18. DescribeVolume(c) => pc[c] = "describeVolume" BY DEF DescribeVolume
<1> QED
  BY <1>1, <1>2, <1>3, <1>4, <1>5, <1>6, <1>7, <1>8, <1>9,
     <1>10, <1>11, <1>12, <1>13, <1>14, <1>15, <1>16, <1>17, <1>18 DEF Handler

\* Where a goroutine comes from when it gets to a step of a creation, or answers
\* with OK or with an error of updates.
Flow(c) ==
    /\ \A d \in Calls \ {c} : rid'[d] = rid[d] /\ gib'[d] = gib[d] /\ resp'[d] = resp[d]
    /\ pc'[c] # "done" => resp'[c] = resp[c]
    /\ pc'[c] \in {"describeSnapshot", "createFileSystem"} => pc[c] = "validate"
    /\ pc'[c] = "createSnapshot" => pc[c] = "getVolumeId"
    /\ pc'[c] = "createVolume" => pc[c] \in {"validate", "describeSnapshot"}
    /\ pc'[c] = "waitAvailable" =>
          \/ pc[c] \in {"createFileSystem", "createVolume", "createSnapshot"}
          \/ pc[c] = "waitAvailable" /\ rid'[c] = rid[c] /\ gib'[c] = gib[c]
    /\ pc'[c] = "describeParent" => pc[c] = "waitAvailable"
    /\ pc'[c] = "done" /\ resp'[c].code = "OK" =>
          pc[c] \in {"waitAvailable", "describeParent", "delete", "deleteSnapshot",
                    "describeFileSystem", "waitResize", "describeVolume"}
    /\ pc'[c] = "done" /\ resp'[c].err \in ResizeErrors =>
          pc[c] \in {"findUpdate", "waitResize"}

\* Every step of a handler goes that way.
LEMMA HandlerFlow == ASSUME TypeInv, NEW c \in Calls, Handler(c) PROVE Flow(c)
<1>1. LockTypeOK /\ LocalTypeOK BY TypeParts DEF TypeInv
<1>2. /\ pc \in [Calls -> PCs] /\ rid \in [Calls -> STRING] /\ gib \in [Calls -> Nat]
      /\ resp \in [Calls -> Responses]
  BY <1>1 DEF LockTypeOK, LocalTypeOK
<1> USE <1>2, RequestErrors DEF Flow, Goto, Return, Answer, Continue, ResizeErrors
<1>3. ASSUME NEW in, NEW known, Create(c, in, known),
              pc[c] \in {"createFileSystem", "createVolume", "createSnapshot"}
       PROVE  Flow(c)
  <2>1. PICK err, id :
           /\ CreateResource(~canceled[c], known, in, err, id)
           /\ \/ /\ err = "none" /\ Goto(c, "waitAvailable") /\ rid' = [rid EXCEPT ![c] = id]
                 /\ \E n : gib' = [gib EXCEPT ![c] = n]
                 /\ UNCHANGED resp
              \/ err # "none" /\ Answer(c, CreateCode(err), err, NoId, 0)
    BY <1>3 DEF Create
  <2>2. err \notin ResizeErrors BY <2>1
  <2> QED BY <1>3, <2>1, <2>2 DEF CreateCode
<1>4. CASE Begin(c) BY <1>4 DEF Begin
<1>5. CASE Validate(c) BY <1>5 DEF Validate, FirstStep
<1>6. CASE DescribeSnapshot(c) BY <1>6 DEF DescribeSnapshot
<1>7. CASE CreateFileSystem(c) BY <1>7, <1>3 DEF CreateFileSystem
<1>8. CASE CreateVolume(c) BY <1>8, <1>3 DEF CreateVolume
<1>9. CASE GetVolumeId(c) BY <1>9 DEF GetVolumeId
<1>10. CASE CreateSnapshot(c) BY <1>10, <1>3 DEF CreateSnapshot
<1>11. CASE WaitForAvailable(c) BY <1>11 DEF WaitForAvailable, PollAgain
<1>12. CASE DescribeParent(c) BY <1>12 DEF DescribeParent
<1>13. CASE DescribeForDelete(c) BY <1>13 DEF DescribeForDelete
<1>14. CASE ListTags(c) BY <1>14 DEF ListTags
<1>15. CASE DeleteVolume(c) BY <1>15 DEF DeleteVolume, DeleteCode
<1>16. CASE DeleteSnapshot(c) BY <1>16 DEF DeleteSnapshot, DeleteCode
<1>17. CASE DescribeFileSystem(c) BY <1>17 DEF DescribeFileSystem
<1>18. CASE ResizeFileSystem(c)
  <2>1. PICK err \in Errors :
          /\ UpdateFileSystem(~canceled[c], req[c].id, NewCapacity(req[c]), err)
          /\ CASE err = "none" -> Continue(c, "waitResize")
               [] err = "UpdateInProgress" -> Continue(c, "findUpdate")
               [] OTHER -> Return(c, "Internal", err, NoId, 0)
    BY <1>18 DEF ResizeFileSystem
  <2>2. err \in ResizeErrors => err = "UpdateInProgress" BY <2>1
  <2>3. pc[c] = "resize" BY <1>18 DEF ResizeFileSystem
  <2>4. CASE err = "none" \/ err = "UpdateInProgress" BY <2>1, <2>3, <2>4
  <2>5. CASE ~(err = "none" \/ err = "UpdateInProgress") BY <2>1, <2>2, <2>3, <2>5
  <2> QED BY <2>4, <2>5
<1>19. CASE FindUpdate(c) BY <1>19 DEF FindUpdate
<1>20. CASE WaitForFileSystemResize(c) BY <1>20 DEF WaitForFileSystemResize, PollAgain
<1>21. CASE DescribeVolume(c) BY <1>21 DEF DescribeVolume
<1> QED
  BY <1>4, <1>5, <1>6, <1>7, <1>8, <1>9, <1>10, <1>11, <1>12,
     <1>13, <1>14, <1>15, <1>16, <1>17, <1>18, <1>19, <1>20, <1>21 DEF Handler

-----------------------------------------------------------------------------
(* Only what passed every check is created.  The strengthening: what the   *)
(* checks let through, at every step from the checks to the create.  The   *)
(* parameters of a volume restored from a snapshot are collapsed only once *)
(* the snapshot is described, and the fields only when the input is        *)
(* populated, which is when the last flaws are met.                        *)

CreatesChecked ==
    \A c \in Calls :
        /\ pc[c] \in {"createFileSystem", "createVolume"} =>
              /\ req[c].params.flaw \in {"none", "unknownField"}
              /\ StorageCapacity(req[c]) <= MaxInt32
        /\ pc[c] = "describeSnapshot" =>
              /\ req[c].params.flaw \in {"none", "unknownField", "openZFSConfiguration"}
              /\ StorageCapacity(req[c]) <= MaxInt32

\* What the checks of CreateVolume let through.
LEMMA CreateVerdict ==
    ASSUME NEW r \in Requests, r.op = "CreateVolume", Verdict(r) = "OK"
    PROVE  /\ r.resourceType \in {"filesystem", "volume"}
           /\ \/ r.params.flaw \in {"none", "unknownField"}
              \/ /\ r.resourceType = "volume" /\ r.source # NoId
                 /\ r.params.flaw = "openZFSConfiguration"
           /\ StorageCapacity(r) <= MaxInt32
           /\ r.resourceType = "filesystem" => r.source = NoId
<1> DEFINE checks == CreateVolumeChecks(r)
<1>1. DOMAIN checks = 1 .. 12 BY DEF CreateVolumeChecks
<1>2. \A i \in 1 .. 12 : checks[i].code \in Codes \ {"OK"} BY DEF CreateVolumeChecks, Check, Codes
<1>3. /\ checks[2].fails <=> r.hasRange /\ Overflows(r.required)
      /\ checks[3].fails <=> r.resourceType \notin {"filesystem", "volume"}
      /\ checks[4].fails <=> r.params.flaw = "driverProvided"
      /\ checks[5].fails <=> r.params.flaw \in {"tags", "deletion"}
      /\ checks[6].fails <=> r.resourceType = "filesystem" /\ r.source # NoId
      /\ checks[8].fails <=> /\ r.resourceType = "filesystem"
                             /\ r.params.flaw \in {"openZFSConfiguration", "originSnapshot"}
      /\ checks[11].fails <=> /\ r.resourceType = "volume" /\ r.source # NoId
                              /\ r.params.flaw = "originSnapshot"
      /\ checks[12].fails <=> /\ r.resourceType = "volume" /\ r.source = NoId
                              /\ r.params.flaw \in {"originSnapshot", "openZFSConfiguration"}
  BY DEF CreateVolumeChecks, Check
<1>4. Verdict(r) = FirstFailure(checks) BY DEF Verdict
<1> HIDE DEF checks
<1>5. \A i \in 1 .. 12 : ~checks[i].fails BY <1>1, <1>2, <1>4, FirstFailureVerdict
<1>6. r.params.flaw \in Flaws BY RequestType, ControllerAssumption
<1>7. r.hasRange => ~Overflows(r.required) BY <1>3, <1>5
<1>8. StorageCapacity(r) <= MaxInt32
  <2>1. MaxInt32 \in Nat /\ r.required \in Nat BY UtilAssumption, RequestType
  <2>2. BytesToGiB(r.required) \in Nat BY <2>1, BytesToGiBType
  <2>3. Overflows(r.required) <=> BytesToGiB(r.required) > MaxInt32
    BY DEF Overflows, BytesToGiB
  <2> QED BY <1>7, <2>1, <2>2, <2>3 DEF StorageCapacity
<1>9. /\ r.resourceType \in {"filesystem", "volume"}
      /\ r.params.flaw \notin {"driverProvided", "tags", "deletion"}
      /\ r.resourceType = "filesystem" =>
            r.source = NoId /\ r.params.flaw \notin {"openZFSConfiguration", "originSnapshot"}
      /\ r.resourceType = "volume" => r.params.flaw # "originSnapshot"
      /\ r.resourceType = "volume" /\ r.source = NoId => r.params.flaw # "openZFSConfiguration"
  BY <1>3, <1>5
<1> QED BY <1>6, <1>8, <1>9 DEF Flaws

\* Every step keeps what is about to be created checked.
LEMMA NextChecked == ASSUME TypeInv, CreatesChecked, [Next]_vars PROVE CreatesChecked'
<1>1. LockTypeOK BY TypeParts DEF TypeInv
<1>2. pc \in [Calls -> PCs] /\ req \in [Calls -> Requests \cup {NoRequest}]
  BY <1>1 DEF LockTypeOK
<1>3. CASE UNCHANGED vars BY <1>3 DEF vars, ctlVars, callVars, CreatesChecked, StorageCapacity
<1>4. ASSUME NEW c \in Calls, NEW r \in Requests, Call(c, r) PROVE CreatesChecked'
  BY <1>2, <1>4 DEF Call, CreatesChecked, StorageCapacity
<1>5. ASSUME NEW c \in Calls, Handler(c) PROVE CreatesChecked'
  <2>1. req' = req /\ \A d \in Calls \ {c} : pc'[d] = pc[d] BY <1>1, <1>5, HandlerLock
  <2>2. req[c] \in Requests BY <1>1, <1>5, HandlerLock DEF LockTypeOK
  <2>3. ASSUME pc[c] = "validate",
               pc'[c] \in {"createFileSystem", "createVolume", "describeSnapshot"}
        PROVE  /\ req[c].op = "CreateVolume" /\ Verdict(req[c]) = "OK"
               /\ pc'[c] = FirstStep(req[c])
    <3>1. Validate(c) BY <1>5, <2>3, HandlerAt
    <3>2. Verdict(req[c]) = "OK" /\ pc'[c] = FirstStep(req[c])
      BY <1>2, <2>3, <3>1 DEF Validate, Return, Answer, Continue, Goto
    <3>3. req[c].op \in Ops BY <2>2, RequestType
    <3> QED BY <2>3, <3>2, <3>3 DEF FirstStep, Ops
  <2>4. ASSUME pc[c] = "describeSnapshot", pc'[c] = "createVolume"
        PROVE  req[c].params.flaw # "openZFSConfiguration"
    <3>1. DescribeSnapshot(c) BY <1>5, <2>4, HandlerAt
    <3> QED BY <1>2, <2>4, <3>1 DEF DescribeSnapshot, Return, Answer
  <2>5. ASSUME pc'[c] \in {"createFileSystem", "createVolume"}
        PROVE  /\ req[c].params.flaw \in {"none", "unknownField"}
               /\ StorageCapacity(req[c]) <= MaxInt32
    <3>1. CASE pc[c] = "validate"
      <4>1. req[c].op = "CreateVolume" /\ Verdict(req[c]) = "OK" /\ pc'[c] = FirstStep(req[c])
        BY <2>3, <2>5, <3>1
      <4>2. ~(req[c].resourceType = "volume" /\ req[c].source # NoId) BY <2>5, <4>1 DEF FirstStep
      <4> QED BY <2>2, <4>1, <4>2, CreateVerdict
    <3>2. CASE pc[c] # "validate"
      <4>1. pc[c] = "describeSnapshot" /\ pc'[c] = "createVolume"
        BY <1>5, <2>5, <3>2, HandlerFlow DEF Flow
      <4> QED BY <2>4, <4>1 DEF CreatesChecked
    <3> QED BY <3>1, <3>2
  <2>6. ASSUME pc'[c] = "describeSnapshot"
        PROVE  /\ req[c].params.flaw \in {"none", "unknownField", "openZFSConfiguration"}
               /\ StorageCapacity(req[c]) <= MaxInt32
    <3>1. pc[c] = "validate" BY <1>5, <2>6, HandlerFlow DEF Flow
    <3>2. req[c].op = "CreateVolume" /\ Verdict(req[c]) = "OK" BY <2>3, <2>6, <3>1
    <3> QED BY <2>2, <3>2, CreateVerdict
  <2> QED BY <2>1, <2>5, <2>6 DEF CreatesChecked, StorageCapacity
<1>6. ASSUME NEW c \in Calls, Cancel(c) PROVE CreatesChecked'
  BY <1>6 DEF Cancel, CreatesChecked, StorageCapacity
<1>7. ASSUME NEW p \in Procs, Crash(p) PROVE CreatesChecked'
  BY <1>7 DEF Crash, CreatesChecked, StorageCapacity
<1>8. ASSUME NEW id \in Ids, ManualDelete(id) PROVE CreatesChecked'
  BY <1>8 DEF ManualDelete, ctlVars, callVars, CreatesChecked, StorageCapacity
<1>9. CASE FSxStep BY <1>9 DEF FSxStep, ctlVars, callVars, CreatesChecked, StorageCapacity
<1> QED BY <1>3, <1>4, <1>5, <1>6, <1>7, <1>8, <1>9 DEF Next

FlawInv == CreatesChecked /\ NoFlawedResource

\* Every step keeps FSx free of flawed resources.
LEMMA NextFlaw == ASSUME TypeInv, NameInv, FlawInv, [Next]_vars PROVE FlawInv'
<1>1. CreatesChecked' BY NextChecked DEF FlawInv
<1>2. /\ created \in [Ids -> Inputs \cup {NoInput}] /\ owner \in [Ids -> Names \cup {NoToken}]
      /\ TypeOK
  BY DEF TypeInv, TypeOK, FSxTypeOK
<1>3. ASSUME NEW id \in Ids, owner[id] # NoToken
      PROVE  created'[id] = created[id]
  <2>1. lifecycle[id] # "ABSENT" BY <1>3 DEF NameInv, OwnerIsToken
  <2> QED BY <1>2, <2>1, NextEvolves DEF Evolves
<1>4. ASSUME NoBirth, owner' = owner PROVE NoFlawedResource'
  BY <1>3, <1>4 DEF FlawInv, NoFlawedResource
<1>5. ASSUME NEW c \in Calls, NEW in \in Inputs, NEW b \in Ids, Sends(c, in), Born(c, in, b)
      PROVE  NoFlawedResource'
  <2>1. in.params = req[c].params /\ in.gib \in {0, StorageCapacity(req[c])}
    BY <1>5 DEF Sends, FileSystemInput, VolumeInput, SnapshotInput, Input
  <2>2. in.params.flaw = "none" BY <1>5, <2>1 DEF Sends, FlawInv, CreatesChecked
  <2>3. in.gib <= MaxInt32
    <3>1. MaxInt32 \in Nat BY UtilAssumption
    <3>2. CASE pc[c] \in {"createFileSystem", "createVolume"}
      BY <2>1, <3>1, <3>2 DEF FlawInv, CreatesChecked
    <3>3. CASE pc[c] = "createSnapshot"
      BY <1>5, <3>1, <3>3 DEF Sends, SnapshotInput, Input
    <3> QED BY <1>5, <3>2, <3>3 DEF Sends
  <2>4. created'[b] = in BY <1>2, <1>5 DEF Born
  <2>5. \A id \in Ids \ {b} : owner'[id] = owner[id] BY <1>2, <1>5 DEF Born
  <2> QED BY <1>3, <2>2, <2>3, <2>4, <2>5 DEF FlawInv, NoFlawedResource
<1>6. NoFlawedResource' BY <1>2, <1>4, <1>5, NextEvolves
<1> QED BY <1>1, <1>6 DEF FlawInv

\* What is there at start is not flawed, if this driver made it.
LEMMA InitFlaw == Init => FlawInv
<1> SUFFICES ASSUME Init PROVE FlawInv OBVIOUS
<1>1. CreatesChecked BY DEF Init, CreatesChecked
<1>2. ASSUME NEW id \in Ids, owner[id] # NoToken
      PROVE  created[id].params.flaw = "none" /\ created[id].gib <= MaxInt32
  <2>1. id \in DOMAIN Preexisting /\ owner[id] = Preexisting[id].token
        /\ created[id] = Preexisting[id]
    BY <1>2 DEF Init, FSxInit
  <2> QED BY <1>2, <2>1, ControllerAssumption
<1> QED BY <1>1, <1>2 DEF FlawInv, NoFlawedResource

\* Whatever way a creation takes through the checks of CreateVolume or
\* CreateSnapshot, the lookup of the snapshot and the conversion of the parameters,
\* FSx is never left with a resource made from parameters that some check refuses
\* or with a capacity that is not an int32.
THEOREM NoFlawCorrect == Spec => []NoFlawedResource
<1>1. TypeInv /\ NameInv /\ FlawInv /\ [Next]_vars => FlawInv' BY NextFlaw
<1>2. FlawInv => NoFlawedResource BY DEF FlawInv
<1> QED BY <1>1, <1>2, InitFlaw, NameInvariance, PTL DEF Spec

-----------------------------------------------------------------------------
(* A creation answered with OK is the creation that was asked for.  The    *)
(* strengthening: the volume a snapshot is about to be made of is the one  *)
(* that was asked for, and while a goroutine waits, the resource it waits  *)
(* for is one made for its request, and the capacity it will report is     *)
(* there.                                                                  *)

\* The resource id was made for request r, by whomever.
Made(r, id) ==
    /\ id \in Ids /\ lifecycle[id] # "ABSENT"
    /\ owner[id] = r.name /\ created[id].params = r.params
    /\ created[id].source = SourceOf(r)

BecameAvailable(id) == lifecycle[id] \in {"AVAILABLE", "DELETING", "DELETED"}

CreationSound(c) ==
    /\ pc[c] = "createFileSystem" => SourceOf(req[c]) = NoId
    /\ pc[c] = "createSnapshot" => rid[c] = SourceOf(req[c])
    /\ pc[c] \in {"waitAvailable", "describeParent"} =>
          Made(req[c], rid[c]) /\ (rid[c] \in FsIds => gib[c] <= capacity[rid[c]])
    /\ pc[c] = "describeParent" => BecameAvailable(rid[c])
    /\ AnsweredOK(c, {"CreateVolume", "CreateSnapshot"}) =>
          /\ Made(req[c], resp[c].id) /\ BecameAvailable(resp[c].id)
          /\ resp[c].id \in FsIds => resp[c].bytes <= GiBToBytes(capacity[resp[c].id])

CreateInv == \A c \in Calls : CreationSound(c)

\* What was made for a request stays so, and what became available did so.
LEMMA MadeStays ==
    ASSUME TypeInv, NameInv, UpdatesSound, [Next]_vars, NEW id \in Ids, lifecycle[id] # "ABSENT"
    PROVE  /\ lifecycle'[id] # "ABSENT" /\ created'[id] = created[id] /\ owner'[id] = owner[id]
           /\ BecameAvailable(id) => BecameAvailable(id)'
           /\ id \in FsIds => /\ capacity[id] \in Nat /\ capacity'[id] \in Nat
                              /\ capacity[id] <= capacity'[id]
<1>1. Evolves /\ NameInv' BY NextEvolves, NextName DEF TypeInv
<1>2. TypeInv' BY NextType
<1>3. id \in FsIds => capacity[id] \in Nat /\ capacity'[id] \in Nat
  BY <1>2 DEF TypeInv, TypeOK, FSxTypeOK
<1>4. lifecycle'[id] # "ABSENT" /\ created'[id] = created[id] BY <1>1 DEF Evolves
<1>5. owner'[id] = owner[id] BY <1>1, <1>4 DEF NameInv, OwnerIsToken
<1>6. BecameAvailable(id) => BecameAvailable(id)' BY <1>1 DEF Evolves, BecameAvailable
<1>7. id \in FsIds => capacity[id] <= capacity'[id] BY NextUpdates DEF Grows
<1> QED BY <1>3, <1>4, <1>5, <1>6, <1>7

\* A goroutine that the step leaves alone.
LEMMA OthersCreation ==
    ASSUME TypeInv, NameInv, UpdatesSound, [Next]_vars, NEW d \in Calls, CreationSound(d),
           pc'[d] = pc[d], req'[d] = req[d], rid'[d] = rid[d], gib'[d] = gib[d], resp'[d] = resp[d]
    PROVE  CreationSound(d)'
<1>1. gib[d] \in Nat /\ resp[d].bytes \in Nat
  BY DEF TypeInv, TypeOK, Responses
<1>2. ASSUME NEW id, Made(req[d], id) PROVE Made(req[d], id)'
  BY <1>2, MadeStays DEF Made
<1>3. ASSUME NEW id \in FsIds, Made(req[d], id)
      PROVE  /\ gib[d] <= capacity[id] => gib[d] <= capacity'[id]
             /\ resp[d].bytes <= GiBToBytes(capacity[id])
                   => resp[d].bytes <= GiBToBytes(capacity'[id])
  <2>1. capacity[id] \in Nat /\ capacity'[id] \in Nat /\ capacity[id] <= capacity'[id]
    BY <1>3, MadeStays DEF Made
  <2>2. /\ GiBToBytes(capacity[id]) \in Nat /\ GiBToBytes(capacity'[id]) \in Nat
        /\ GiBToBytes(capacity[id]) <= GiBToBytes(capacity'[id])
    BY <2>1, GiBToBytesType
  <2> QED BY <1>1, <2>1, <2>2
<1>4. ASSUME NEW id, Made(req[d], id), BecameAvailable(id) PROVE BecameAvailable(id)'
  BY <1>4, MadeStays DEF Made
<1>5. pc'[d] \in {"waitAvailable", "describeParent"} =>
          Made(req[d], rid[d])' /\ (rid'[d] \in FsIds => gib'[d] <= capacity'[rid'[d]])
  BY <1>2, <1>3 DEF CreationSound, Made
<1>6. pc'[d] = "describeParent" => BecameAvailable(rid[d])'
  BY <1>4 DEF CreationSound, BecameAvailable
<1>7. ASSUME AnsweredOK(d, {"CreateVolume", "CreateSnapshot"})'
      PROVE  /\ Made(req[d], resp[d].id)' /\ BecameAvailable(resp[d].id)'
             /\ resp'[d].id \in FsIds => resp'[d].bytes <= GiBToBytes(capacity'[resp'[d].id])
  <2>1. AnsweredOK(d, {"CreateVolume", "CreateSnapshot"}) BY <1>7 DEF AnsweredOK
  <2>2. /\ Made(req[d], resp[d].id) /\ BecameAvailable(resp[d].id)
        /\ resp[d].id \in FsIds => resp[d].bytes <= GiBToBytes(capacity[resp[d].id])
    BY <2>1 DEF CreationSound
  <2> QED BY <1>2, <1>3, <1>4, <2>2 DEF Made, BecameAvailable
<1>8. /\ pc'[d] = "createFileSystem" => SourceOf(req[d])' = NoId
      /\ pc'[d] = "createSnapshot" => rid'[d] = SourceOf(req[d])'
  BY DEF CreationSound, SourceOf
<1> QED BY <1>5, <1>6, <1>7, <1>8 DEF CreationSound

\* A create that returns no error leaves the goroutine waiting for a resource made
\* for its request: by this step, or by an earlier one under the same token.
LEMMA CreateWaits ==
    ASSUME TypeInv, NameInv', NEW c \in Calls, Handler(c), NEW in \in Inputs, NEW known,
           Create(c, in, known), req[c] \in Requests,
           in.token = req[c].name, in.params = req[c].params,
           in.source = SourceOf(req[c]),
           pc'[c] = "waitAvailable"
    PROVE  /\ Made(req[c], rid[c])'
           /\ rid'[c] \in FsIds => gib'[c] <= capacity'[rid'[c]]
<1>1. FSxTypeOK /\ DisturbancesOK /\ LockTypeOK /\ LocalTypeOK BY TypeParts DEF TypeInv
<1>2. /\ pc \in [Calls -> PCs] /\ rid \in [Calls -> STRING] /\ gib \in [Calls -> Nat]
      /\ req' = req
  BY <1>1, HandlerLock DEF LockTypeOK, LocalTypeOK
<1>3. PICK err \in Errors, id \in Ids \cup {NoId} :
         /\ CreateResource(~canceled[c], known, in, err, id)
         /\ IF err = "none"
            THEN /\ Goto(c, "waitAvailable") /\ rid' = [rid EXCEPT ![c] = id]
                 /\ gib' = [gib EXCEPT ![c] =
                              IF id \in FsIds THEN capacity'[id] ELSE StorageCapacity(req[c])]
            ELSE Answer(c, CreateCode(err), err, NoId, 0)
  BY DEF Create
<1>4. err = "none" BY <1>2, <1>3 DEF Answer
<1>5. /\ FSxTypeOK' /\ id \in IdsOf(in.kind) /\ id \in Ids
      /\ created'[id] = in /\ Present(id)'
  BY <1>1, <1>3, <1>4, CreateResourceStep
<1>6. rid'[c] = id /\ (id \in FsIds => gib'[c] = capacity'[id]) BY <1>2, <1>3, <1>4
<1>7. lifecycle'[id] # "ABSENT" BY <1>5 DEF Present
<1>8. owner'[id] = req[c].name BY <1>5, <1>7 DEF NameInv, OwnerIsToken
<1>9. created'[id].params = req[c].params /\ created'[id].source = SourceOf(req[c]) BY <1>5
<1>10. id \in FsIds => capacity'[id] \in Nat BY <1>5 DEF FSxTypeOK
<1> QED BY <1>2, <1>5, <1>6, <1>7, <1>8, <1>9, <1>10 DEF Made

\* A step of a creation.
LEMMA HandlerCreation ==
    ASSUME TypeInv, NameInv, UpdatesSound, NEW c \in Calls, Handler(c), CreationSound(c)
    PROVE  CreationSound(c)'
<1>1. FSxTypeOK /\ DisturbancesOK /\ LockTypeOK /\ LocalTypeOK BY TypeParts DEF TypeInv
<1>2. /\ pc \in [Calls -> PCs] /\ rid \in [Calls -> STRING] /\ gib \in [Calls -> Nat]
      /\ resp \in [Calls -> Responses] /\ capacity \in [FsIds -> Nat]
  BY <1>1 DEF LockTypeOK, LocalTypeOK, FSxTypeOK
<1>3. req' = req /\ req[c] \in Requests BY <1>1, HandlerLock DEF LockTypeOK
<1>4. [Next]_vars BY DEF Next
<1>5. NameInv' BY <1>4, NextName DEF TypeInv
<1>6. Flow(c) BY HandlerFlow
<1>7. ASSUME pc[c] \in {"createFileSystem", "createVolume", "createSnapshot"},
             pc'[c] = "waitAvailable"
      PROVE  /\ Made(req[c], rid[c])'
             /\ rid'[c] \in FsIds => gib'[c] <= capacity'[rid'[c]]
  <2>1. /\ FileSystemInput(req[c]) \in Inputs /\ FileSystemInput(req[c]).kind = "filesystem"
        /\ VolumeInput(req[c]) \in Inputs
        /\ SnapshotInput(req[c], rid[c]) \in Inputs
        /\ SnapshotInput(req[c], rid[c]).kind = "snapshot"
    BY <1>2, <1>3, InputType
  <2>2. /\ FileSystemInput(req[c]).token = req[c].name
        /\ FileSystemInput(req[c]).params = req[c].params
        /\ VolumeInput(req[c]).token = req[c].name
        /\ VolumeInput(req[c]).params = req[c].params
        /\ FileSystemInput(req[c]).source = NoId
        /\ VolumeInput(req[c]).source = req[c].source
        /\ SnapshotInput(req[c], rid[c]).source = rid[c]
        /\ SnapshotInput(req[c], rid[c]).token = req[c].name
        /\ SnapshotInput(req[c], rid[c]).params = req[c].params
    BY DEF FileSystemInput, VolumeInput, SnapshotInput, Input, ClientRequestToken
  <2>3. CASE CreateFileSystem(c)
    <3>1. SourceOf(req[c]) = NoId BY <2>3 DEF CreateFileSystem, CreationSound
    <3> QED BY <1>3, <1>5, <1>7, <2>1, <2>2, <2>3, <3>1, CreateWaits DEF CreateFileSystem
  <2>4. CASE CreateVolume(c)
    <3>1. req[c].op = "CreateVolume" BY <2>4 DEF CreateVolume, TypeInv, StepMatchesOp
    <3>2. SourceOf(req[c]) = req[c].source BY <3>1 DEF SourceOf
    <3> QED BY <1>3, <1>5, <1>7, <2>1, <2>2, <2>4, <3>2, CreateWaits DEF CreateVolume
  <2>5. CASE CreateSnapshot(c)
    <3>1. SourceOf(req[c]) = rid[c] BY <2>5 DEF CreateSnapshot, CreationSound
    <3> QED BY <1>3, <1>5, <1>7, <2>1, <2>2, <2>5, <3>1, CreateWaits DEF CreateSnapshot
  <2> QED BY <1>7, <2>3, <2>4, <2>5, HandlerAt
<1>8. ASSUME pc[c] \in {"waitAvailable", "describeParent"}
      PROVE  /\ UNCHANGED fsxVars /\ owner' = owner
             /\ pc'[c] \in {"waitAvailable", "describeParent"} =>
                   rid'[c] = rid[c] /\ gib'[c] = gib[c]
             /\ pc'[c] = "describeParent" => BecameAvailable(rid[c])
             /\ pc'[c] = "done" /\ resp'[c].code = "OK" =>
                   /\ BecameAvailable(rid[c])
                   /\ resp'[c].id = rid[c] /\ resp'[c].bytes = GiBToBytes(gib[c])
  <2>1. ASSUME NEW live, NEW id, NEW err, getResource(live, id, err) PROVE UNCHANGED fsxVars
    BY <1>1, <2>1, ReadStep
  <2>2. AvailableCondition(rid[c]) \in {"again", "UnexpectedState"} \/ BecameAvailable(rid[c])
    BY DEF AvailableCondition, BecameAvailable
  <2>3. CASE pc[c] = "waitAvailable"
    <3>1. WaitForAvailable(c) BY <2>3, HandlerAt
    <3>2. UNCHANGED fsxVars BY <2>1, <3>1 DEF WaitForAvailable
    <3> QED BY <1>2, <2>2, <2>3, <3>1, <3>2
            DEF WaitForAvailable, PollAgain, Return, Answer, Continue, Goto
  <2>4. CASE pc[c] = "describeParent"
    <3>1. DescribeParent(c) BY <2>4, HandlerAt
    <3>2. UNCHANGED fsxVars BY <2>1, <3>1 DEF DescribeParent
    <3>3. BecameAvailable(rid[c]) BY <2>4 DEF CreationSound
    <3> QED BY <1>2, <2>4, <3>1, <3>2, <3>3 DEF DescribeParent, Return, Answer
  <2> QED BY <1>8, <2>3, <2>4
<1>9. ASSUME pc[c] \in {"waitAvailable", "describeParent"}
      PROVE  /\ Made(req[c], rid[c]) /\ (rid[c] \in FsIds => gib[c] <= capacity[rid[c]])
             /\ \A id : Made(req[c], id) => Made(req[c], id)'
             /\ \A id : BecameAvailable(id) => BecameAvailable(id)'
             /\ capacity' = capacity
  BY <1>3, <1>8, <1>9 DEF CreationSound, Made, BecameAvailable, fsxVars
<1>10. pc'[c] \in {"waitAvailable", "describeParent"} =>
          Made(req[c], rid[c])' /\ (rid'[c] \in FsIds => gib'[c] <= capacity'[rid'[c]])
  BY <1>3, <1>6, <1>7, <1>8, <1>9 DEF Flow, Made
<1>11. pc'[c] = "describeParent" => BecameAvailable(rid[c])'
  BY <1>6, <1>8, <1>9 DEF Flow, BecameAvailable
<1>12. ASSUME AnsweredOK(c, {"CreateVolume", "CreateSnapshot"})'
       PROVE  /\ Made(req[c], resp[c].id)' /\ BecameAvailable(resp[c].id)'
              /\ resp'[c].id \in FsIds => resp'[c].bytes <= GiBToBytes(capacity'[resp'[c].id])
  <2>1. /\ pc'[c] = "done" /\ resp'[c].code = "OK"
        /\ req[c].op \in {"CreateVolume", "CreateSnapshot"}
    BY <1>3, <1>12 DEF AnsweredOK
  <2>2. pc[c] \in {"waitAvailable", "describeParent"}
    BY <1>6, <2>1 DEF Flow, TypeInv, StepMatchesOp
  <2>3. /\ BecameAvailable(rid[c]) /\ resp'[c].id = rid[c] /\ resp'[c].bytes = GiBToBytes(gib[c])
        /\ Made(req[c], rid[c]) /\ (rid[c] \in FsIds => gib[c] <= capacity[rid[c]])
    BY <1>8, <1>9, <2>1, <2>2
  <2>4. rid[c] \in FsIds => GiBToBytes(gib[c]) <= GiBToBytes(capacity[rid[c]])
    BY <1>2, <2>3, GiBToBytesType
  <2> QED BY <1>3, <1>9, <2>2, <2>3, <2>4 DEF Made, BecameAvailable
<1>13. ASSUME pc'[c] = "createFileSystem" PROVE SourceOf(req[c])' = NoId
  <2>1. Validate(c) BY <1>6, <1>13, HandlerAt DEF Flow
  <2>2. Verdict(req[c]) = "OK" /\ FirstStep(req[c]) = "createFileSystem"
    BY <1>2, <1>13, <2>1 DEF Validate, Return, Answer, Continue, Goto
  <2>3. req[c].op = "CreateVolume" /\ req[c].resourceType = "filesystem"
    BY <2>2 DEF FirstStep
  <2>4. req[c].source = NoId BY <1>3, <2>2, <2>3, CreateVerdict
  <2> QED BY <1>3, <2>3, <2>4 DEF SourceOf
<1>14. ASSUME pc'[c] = "createSnapshot" PROVE rid'[c] = SourceOf(req[c])'
  <2> DEFINE id == req[c].id
  <2>1. pc[c] = "getVolumeId" /\ GetVolumeId(c) BY <1>6, <1>14, HandlerAt DEF Flow
  <2>2. /\ id \in FsIds => rid'[c] = RootVolume[id]
        /\ id \notin FsIds => rid'[c] = id
    <3>1. PICK err \in Errors, volumeId \in {id, NoId} \cup {RootVolume[f] : f \in FsIds} :
             /\ CASE id \in FsIds ->
                        \/ /\ getResource(~canceled[c], id, err)
                           /\ volumeId = IF err = "none" THEN RootVolume[id] ELSE NoId
                        \/ /\ getResource(~canceled[c], id, "none")
                           /\ lifecycle[id] # "AVAILABLE"
                           /\ err = "NoRootVolume" /\ volumeId = NoId
                  [] id \in VolIds -> /\ err = "none" /\ volumeId = id
                                     /\ UNCHANGED <<fsxVars, disturbances>>
                  [] OTHER -> /\ err = "BadFormat" /\ volumeId = NoId
                              /\ UNCHANGED <<fsxVars, disturbances>>
             /\ IF err = "none"
                THEN /\ Goto(c, "createSnapshot")
                     /\ rid' = [rid EXCEPT ![c] = volumeId]
                     /\ UNCHANGED <<req, canceled, gib, polls, resp, inFlight, owner>>
                ELSE Return(c, "Internal", err, NoId, 0)
      BY <2>1 DEF GetVolumeId
    <3>2. err = "none" /\ rid'[c] = volumeId BY <1>2, <1>14, <3>1 DEF Return, Answer
    <3>3. id \notin FsIds \/ id \notin VolIds BY FSxAssumption
    <3>4. CASE id \in FsIds BY <3>1, <3>2, <3>3, <3>4
    <3>5. CASE id \notin FsIds BY <3>1, <3>2, <3>5
    <3> QED BY <3>4, <3>5
  <2>3. req[c].op = "CreateSnapshot" BY <2>1 DEF TypeInv, StepMatchesOp
  <2> QED BY <1>3, <2>2, <2>3 DEF SourceOf
<1> QED BY <1>10, <1>11, <1>12, <1>13, <1>14 DEF CreationSound

\* Every step keeps every creation sound.
LEMMA NextCreation ==
    ASSUME TypeInv, NameInv, UpdatesSound, CreateInv, [Next]_vars
    PROVE  CreateInv'
<1>1. LockTypeOK /\ LocalTypeOK BY TypeParts DEF TypeInv
<1>2. /\ pc \in [Calls -> PCs] /\ req \in [Calls -> Requests \cup {NoRequest}]
      /\ resp \in [Calls -> Responses]
  BY <1>1 DEF LockTypeOK, LocalTypeOK
<1>3. ASSUME NEW d \in Calls, pc'[d] = pc[d], req'[d] = req[d], rid'[d] = rid[d],
             gib'[d] = gib[d], resp'[d] = resp[d]
      PROVE  CreationSound(d)'
  BY <1>3, OthersCreation DEF CreateInv
<1>4. ASSUME NEW d \in Calls, pc'[d] \in {"idle", "received"} PROVE CreationSound(d)'
  BY <1>4 DEF CreationSound, AnsweredOK
<1>5. CASE UNCHANGED callVars BY <1>3, <1>5 DEF callVars, CreateInv
<1>6. ASSUME NEW c \in Calls, NEW r \in Requests, Call(c, r) PROVE CreateInv'
  BY <1>2, <1>3, <1>4, <1>6 DEF Call, CreateInv
<1>7. ASSUME NEW c \in Calls, Handler(c) PROVE CreateInv'
  <2>1. CreationSound(c)' BY <1>7, HandlerCreation DEF CreateInv
  <2>2. /\ req' = req /\ \A d \in Calls \ {c} : pc'[d] = pc[d]
        /\ \A d \in Calls \ {c} : rid'[d] = rid[d] /\ gib'[d] = gib[d] /\ resp'[d] = resp[d]
    BY <1>1, <1>7, HandlerLock, HandlerFlow DEF Flow
  <2> QED BY <1>3, <2>1, <2>2 DEF CreateInv
<1>8. ASSUME NEW c \in Calls, Cancel(c) PROVE CreateInv' BY <1>3, <1>8 DEF Cancel, CreateInv
<1>9. ASSUME NEW p \in Procs, Crash(p) PROVE CreateInv'
  <2>1. \A d \in Calls :
           \/ pc'[d] = "idle"
           \/ /\ pc'[d] = pc[d] /\ req'[d] = req[d] /\ rid'[d] = rid[d]
              /\ gib'[d] = gib[d] /\ resp'[d] = resp[d]
    BY <1>9 DEF Crash
  <2> QED BY <1>3, <1>4, <2>1 DEF CreateInv
<1>10. ASSUME NEW id \in Ids, ManualDelete(id) PROVE CreateInv'
  BY <1>5, <1>10 DEF ManualDelete, ctlVars
<1>11. CASE FSxStep BY <1>5, <1>11 DEF FSxStep, ctlVars
<1>12. CASE UNCHANGED vars BY <1>5, <1>12 DEF vars, ctlVars
<1> QED BY <1>6, <1>7, <1>8, <1>9, <1>10, <1>11, <1>12 DEF Next

\* A creation answered with OK, on the first attempt or on one of many after lost
\* replies and crashes, names a resource that became available and was made for
\* this name with the parameters and the source of this very request; the file
\* system has at least the capacity the answer says.
THEOREM CreateAnswerCorrect == Spec => []CreateAnswerSound
<1>1. Init => CreateInv BY DEF Init, CreateInv, CreationSound, AnsweredOK
<1>2. TypeInv /\ NameInv /\ UpdatesSound /\ CreateInv /\ [Next]_vars => CreateInv'
  BY NextCreation
<1>3. CreateInv => CreateAnswerSound
  BY DEF CreateInv, CreationSound, Made, BecameAvailable, CreateAnswerSound
<1> QED BY <1>1, <1>2, <1>3, NameInvariance, UpdatesInvariance, PTL DEF Spec

-----------------------------------------------------------------------------
(* The answers of an expansion.                                            *)

ExpansionSound(c) ==
    AnsweredOK(c, {"ControllerExpandVolume"}) =>
        /\ req[c].id \in FsIds /\ lifecycle[req[c].id] # "ABSENT"
        /\ GiBToBytes(NewCapacity(req[c])) <= resp[c].bytes
        /\ resp[c].bytes <= GiBToBytes(capacity[req[c].id])

ExpandInv == \A c \in Calls : ExpansionSound(c)

\* What the positions of the updates to a capacity are.
LEMMA UpdatesToType ==
    ASSUME TypeInv, NEW f \in FsIds, NEW target
    PROVE  /\ updates[f] \in Seq(Updates) /\ UpdatesTo(f, target) \subseteq Nat
           /\ \A i \in UpdatesTo(f, target) : /\ i \in DOMAIN updates[f]
                                             /\ updates[f][i].target = target
                                             /\ updates[f][i].status \in UpdateStatuses
<1>1. updates[f] \in Seq(Updates) BY DEF TypeInv, TypeOK, FSxTypeOK
<1>2. /\ DOMAIN updates[f] = 1 .. Len(updates[f]) /\ Len(updates[f]) \in Nat
      /\ \A i \in DOMAIN updates[f] : updates[f][i].status \in UpdateStatuses
  BY <1>1, ListType
<1> QED BY <1>1, <1>2 DEF UpdatesTo

\* The wait ends well only when the file system has the capacity, and reports a
\* failure only when every update to the capacity has failed.
LEMMA ResizeConditionSound ==
    ASSUME TypeInv, UpdatesSound, NEW f \in FsIds, NEW target \in Nat
    PROVE  /\ ResizeCondition(f, target) \in {"NoSuchUpdate", "again", "done", "UpdateFailed"}
           /\ ResizeCondition(f, target) = "done" => target <= capacity[f]
           /\ ResizeCondition(f, target) \in {"NoSuchUpdate", "UpdateFailed"} =>
                 \A i \in UpdatesTo(f, target) : updates[f][i].status = "FAILED"
<1> DEFINE S == UpdatesTo(f, target)
<1>1. /\ S \subseteq Nat
      /\ \A i \in S : /\ i \in DOMAIN updates[f] /\ updates[f][i].target = target
                      /\ updates[f][i].status \in UpdateStatuses
  BY UpdatesToType
<1>2. ListSound(updates[f], capacity[f]) BY DEF UpdatesSound
<1>3. CASE S = {} BY <1>3 DEF ResizeCondition
<1>4. CASE S # {}
  <2>1. Min(S) \in S /\ \A y \in S : Min(S) <= y BY <1>1, <1>4, MinExists
  <2> DEFINE m == Min(S)
             status == updates[f][m].status
  <2>2. ResizeCondition(f, target) =
           CASE status \in {"PENDING", "IN_PROGRESS"} -> "again"
             [] status \in {"UPDATED_OPTIMIZING", "COMPLETED"} -> "done"
             [] OTHER -> "UpdateFailed"
    BY <1>4 DEF ResizeCondition, ResizeAction
  <2>3. m \in S /\ m \in Nat /\ status \in UpdateStatuses BY <1>1, <2>1
  <2>4. \A y \in S : m <= y BY <2>1
  <2> HIDE DEF m, S
  <2>5. status \in {"UPDATED_OPTIMIZING", "COMPLETED"} => target <= capacity[f]
    BY <1>1, <1>2, <2>3 DEF ListSound
  <2>6. ASSUME status = "FAILED", NEW i \in S PROVE updates[f][i].status = "FAILED"
    <3>1. CASE i = m BY <2>6, <3>1
    <3>2. CASE i # m
      <4>1. i \in Nat /\ m < i /\ (m = 0 \/ i > 1) BY <1>1, <2>3, <2>4, <3>2
      <4>2. m \in 1 .. Len(updates[f]) BY <1>1, <2>3, ListType DEF TypeInv, TypeOK, FSxTypeOK
      <4>3. updates[f][i].status \in {"COMPLETED", "FAILED"} BY <1>1, <1>2, <4>1, <4>2 DEF ListSound
      <4>4. updates[f][i].status = "COMPLETED" => updates[f][i].target < updates[f][m].target
        BY <1>1, <1>2, <2>3, <4>1 DEF ListSound
      <4> QED BY <1>1, <2>3, <4>3, <4>4
    <3> QED BY <3>1, <3>2
  <2>7. /\ status \in {"PENDING", "IN_PROGRESS"} => ResizeCondition(f, target) = "again"
        /\ status \in {"UPDATED_OPTIMIZING", "COMPLETED"} => ResizeCondition(f, target) = "done"
        /\ status = "FAILED" => ResizeCondition(f, target) = "UpdateFailed"
    BY <2>2
  <2> HIDE DEF status
  <2> QED BY <2>3, <2>5, <2>6, <2>7 DEF UpdateStatuses, S
<1> QED BY <1>3, <1>4

\* A step of an expansion.
LEMMA HandlerExpansion ==
    ASSUME TypeInv, UpdatesSound, NEW c \in Calls, Handler(c)
    PROVE  ExpansionSound(c)'
<1>1. FSxTypeOK /\ DisturbancesOK /\ LockTypeOK /\ LocalTypeOK BY TypeParts DEF TypeInv
<1>2. pc \in [Calls -> PCs] /\ resp \in [Calls -> Responses] /\ capacity \in [FsIds -> Nat]
  BY <1>1 DEF LockTypeOK, LocalTypeOK, FSxTypeOK
<1>3. req' = req /\ req[c] \in Requests BY <1>1, HandlerLock DEF LockTypeOK
<1>4. NewCapacity(req[c]) \in Nat BY <1>3, CapacityType
<1> SUFFICES ASSUME AnsweredOK(c, {"ControllerExpandVolume"})'
             PROVE  /\ req[c].id \in FsIds /\ lifecycle'[req[c].id] # "ABSENT"
                    /\ GiBToBytes(NewCapacity(req[c])) <= resp'[c].bytes
                    /\ resp'[c].bytes <= GiBToBytes(capacity'[req[c].id])
  BY <1>3 DEF ExpansionSound, NewCapacity
<1> DEFINE id == req[c].id
<1>5. pc'[c] = "done" /\ resp'[c].code = "OK" /\ req[c].op = "ControllerExpandVolume"
  BY <1>3 DEF AnsweredOK
<1>6. pc[c] \in {"describeFileSystem", "waitResize"}
  BY <1>5, HandlerFlow DEF Flow, TypeInv, StepMatchesOp
<1>7. id \in FsIds /\ capacity[id] \in Nat BY <1>2, <1>6 DEF TypeInv, StepMatchesOp
<1>8. ASSUME NEW err, getResource(~canceled[c], id, err)
      PROVE  UNCHANGED fsxVars /\ (err = "none" => lifecycle[id] # "ABSENT")
  BY <1>1, <1>8, ReadStep DEF Present
<1>9. ASSUME NEW gained \in Nat, NewCapacity(req[c]) <= gained, gained <= capacity[id],
             resp'[c].bytes = GiBToBytes(gained), UNCHANGED fsxVars, lifecycle[id] # "ABSENT"
      PROVE  /\ lifecycle'[id] # "ABSENT"
             /\ GiBToBytes(NewCapacity(req[c])) <= resp'[c].bytes
             /\ resp'[c].bytes <= GiBToBytes(capacity'[id])
  BY <1>4, <1>7, <1>9, GiBToBytesType DEF fsxVars
<1>10. CASE pc[c] = "describeFileSystem"
  <2>1. DescribeFileSystem(c) BY <1>10, HandlerAt
  <2>2. PICK err \in Errors :
           /\ getResource(~canceled[c], id, err)
           /\ CASE err = "ErrNotFound" -> Return(c, "NotFound", err, NoId, 0)
                [] err \notin {"ErrNotFound", "none"} -> Return(c, "Internal", err, NoId, 0)
                [] err = "none" /\ IntelligentTiering(created[id].params) ->
                      Return(c, "Unimplemented", "rejected", NoId, 0)
                [] err = "none" /\ ~IntelligentTiering(created[id].params)
                                /\ NewCapacity(req[c]) <= capacity[id] ->
                      Return(c, "OK", "none", id, GiBToBytes(capacity[id]))
                [] OTHER -> Continue(c, "resize")
    BY <2>1 DEF DescribeFileSystem
  <2>3. /\ err = "none" /\ NewCapacity(req[c]) <= capacity[id]
        /\ resp'[c].bytes = GiBToBytes(capacity[id])
    BY <1>2, <1>5, <2>2 DEF Return, Answer, Continue, Goto
  <2>4. UNCHANGED fsxVars /\ lifecycle[id] # "ABSENT" BY <1>8, <2>2, <2>3
  <2>5. capacity[id] <= capacity[id] BY <1>7
  <2> QED BY <1>7, <1>9, <2>3, <2>4, <2>5
<1>11. CASE pc[c] = "waitResize"
  <2>1. WaitForFileSystemResize(c) BY <1>11, HandlerAt
  <2>2. PICK err \in Errors :
           /\ getResource(~canceled[c], id, err)
           /\ IF err # "none" THEN Return(c, "Internal", err, NoId, 0)
              ELSE CASE ResizeCondition(id, NewCapacity(req[c])) = "again" -> PollAgain(c)
                     [] ResizeCondition(id, NewCapacity(req[c])) = "done" ->
                           Return(c, "OK", "none", id, GiBToBytes(NewCapacity(req[c])))
                     [] OTHER -> Return(c, "Internal", ResizeCondition(id, NewCapacity(req[c])),
                                        NoId, 0)
    BY <2>1 DEF WaitForFileSystemResize
  <2>3. /\ err = "none" /\ ResizeCondition(id, NewCapacity(req[c])) = "done"
        /\ resp'[c].bytes = GiBToBytes(NewCapacity(req[c]))
    BY <1>2, <1>5, <1>11, <2>2 DEF Return, Answer, PollAgain
  <2>4. UNCHANGED fsxVars /\ lifecycle[id] # "ABSENT" BY <1>8, <2>2, <2>3
  <2>5. NewCapacity(req[c]) <= capacity[id] BY <1>4, <1>7, <2>3, ResizeConditionSound
  <2>6. NewCapacity(req[c]) <= NewCapacity(req[c]) BY <1>4
  <2> QED BY <1>4, <1>7, <1>9, <2>3, <2>4, <2>5, <2>6
<1> QED BY <1>6, <1>10, <1>11

\* Every step keeps every expansion that was answered with OK sound.
LEMMA NextExpansion ==
    ASSUME TypeInv, UpdatesSound, ExpandInv, [Next]_vars
    PROVE  ExpandInv'
<1>1. LockTypeOK /\ LocalTypeOK BY TypeParts DEF TypeInv
<1>2. /\ pc \in [Calls -> PCs] /\ req \in [Calls -> Requests \cup {NoRequest}]
      /\ resp \in [Calls -> Responses]
  BY <1>1 DEF LockTypeOK, LocalTypeOK
<1>3. /\ capacity \in [FsIds -> Nat] /\ capacity' \in [FsIds -> Nat]
  BY NextType DEF TypeInv, TypeOK, FSxTypeOK
<1>4. Evolves /\ Grows BY NextEvolves, NextUpdates DEF TypeInv
<1>5. ASSUME NEW d \in Calls, pc'[d] = pc[d], req'[d] = req[d], resp'[d] = resp[d]
      PROVE  ExpansionSound(d)'
  <2> SUFFICES ASSUME AnsweredOK(d, {"ControllerExpandVolume"})'
               PROVE  /\ req[d].id \in FsIds /\ lifecycle'[req[d].id] # "ABSENT"
                      /\ GiBToBytes(NewCapacity(req[d])) <= resp[d].bytes
                      /\ resp[d].bytes <= GiBToBytes(capacity'[req[d].id])
    BY <1>5 DEF ExpansionSound, NewCapacity
  <2> DEFINE id == req[d].id
  <2>1. AnsweredOK(d, {"ControllerExpandVolume"}) BY <1>5 DEF AnsweredOK
  <2>2. /\ id \in FsIds /\ lifecycle[id] # "ABSENT"
        /\ GiBToBytes(NewCapacity(req[d])) <= resp[d].bytes
        /\ resp[d].bytes <= GiBToBytes(capacity[id])
    BY <2>1 DEF ExpandInv, ExpansionSound
  <2>3. lifecycle'[id] # "ABSENT" BY <1>4, <2>2 DEF Evolves, Ids
  <2>4. capacity[id] \in Nat /\ capacity'[id] \in Nat /\ capacity[id] <= capacity'[id]
    BY <1>3, <1>4, <2>2 DEF Grows
  <2>5. /\ GiBToBytes(capacity[id]) \in Nat /\ GiBToBytes(capacity'[id]) \in Nat
        /\ GiBToBytes(capacity[id]) <= GiBToBytes(capacity'[id])
    BY <2>4, GiBToBytesType
  <2>6. resp[d].bytes \in Nat BY <1>2 DEF Responses
  <2> HIDE DEF id
  <2>7. resp[d].bytes <= GiBToBytes(capacity'[id]) BY <2>2, <2>5, <2>6
  <2> QED BY <2>2, <2>3, <2>7 DEF id
<1>6. ASSUME NEW d \in Calls, pc'[d] \in {"idle", "received"} PROVE ExpansionSound(d)'
  BY <1>6 DEF ExpansionSound, AnsweredOK
<1>7. CASE UNCHANGED callVars BY <1>5, <1>7 DEF callVars, ExpandInv
<1>8. ASSUME NEW c \in Calls, NEW r \in Requests, Call(c, r) PROVE ExpandInv'
  BY <1>2, <1>5, <1>6, <1>8 DEF Call, ExpandInv
<1>9. ASSUME NEW c \in Calls, Handler(c) PROVE ExpandInv'
  <2>1. ExpansionSound(c)' BY <1>9, HandlerExpansion
  <2>2. /\ req' = req /\ \A d \in Calls \ {c} : pc'[d] = pc[d] /\ resp'[d] = resp[d]
    BY <1>1, <1>9, HandlerLock, HandlerFlow DEF Flow
  <2> QED BY <1>5, <2>1, <2>2 DEF ExpandInv
<1>10. ASSUME NEW c \in Calls, Cancel(c) PROVE ExpandInv' BY <1>5, <1>10 DEF Cancel, ExpandInv
<1>11. ASSUME NEW p \in Procs, Crash(p) PROVE ExpandInv'
  <2>1. \A d \in Calls : \/ pc'[d] = "idle"
                         \/ pc'[d] = pc[d] /\ req'[d] = req[d] /\ resp'[d] = resp[d]
    BY <1>11 DEF Crash
  <2> QED BY <1>5, <1>6, <2>1 DEF ExpandInv
<1>12. ASSUME NEW id \in Ids, ManualDelete(id) PROVE ExpandInv'
  BY <1>7, <1>12 DEF ManualDelete, ctlVars
<1>13. CASE FSxStep BY <1>7, <1>13 DEF FSxStep, ctlVars
<1>14. CASE UNCHANGED vars BY <1>7, <1>14 DEF vars, ctlVars
<1> QED BY <1>8, <1>9, <1>10, <1>11, <1>12, <1>13, <1>14 DEF Next

\* An expansion is answered with OK only once the file system has the capacity the
\* answer reports, which is at least what was asked for in whole GiB: whether the
\* capacity was there, or this or another replica's update brought it.
THEOREM ExpandAnswerCorrect == Spec => []ExpandAnswerSound
<1>1. Init => ExpandInv BY DEF Init, ExpandInv, ExpansionSound, AnsweredOK
<1>2. TypeInv /\ UpdatesSound /\ ExpandInv /\ [Next]_vars => ExpandInv' BY NextExpansion
<1>3. ExpandInv => ExpandAnswerSound
  BY DEF ExpandInv, ExpansionSound, ExpandAnswerSound
<1> QED BY <1>1, <1>2, <1>3, TypeInvariance, UpdatesInvariance, PTL DEF Spec

-----------------------------------------------------------------------------
(* The errors of an expansion.  What the property needs: a goroutine that  *)
(* has not answered yet holds no answer.                                   *)

Quiet == \A c \in Calls : pc[c] # "done" => resp[c] = NoResp

\* Every step keeps unanswered goroutines without an answer.
LEMMA NextQuiet == ASSUME TypeInv, Quiet, [Next]_vars PROVE Quiet'
<1>1. LockTypeOK /\ LocalTypeOK BY TypeParts DEF TypeInv
<1>2. pc \in [Calls -> PCs] /\ resp \in [Calls -> Responses]
  BY <1>1 DEF LockTypeOK, LocalTypeOK
<1>3. CASE UNCHANGED callVars BY <1>3 DEF callVars, Quiet
<1>4. ASSUME NEW c \in Calls, NEW r \in Requests, Call(c, r) PROVE Quiet'
  BY <1>2, <1>4 DEF Call, Quiet
<1>5. ASSUME NEW c \in Calls, Handler(c) PROVE Quiet'
  <2>1. pc[c] # "done"
    BY <1>5 DEF Handler, Begin, Validate, DescribeSnapshot, CreateFileSystem, CreateVolume,
       GetVolumeId, CreateSnapshot, WaitForAvailable, DescribeParent, DescribeForDelete,
       ListTags, DeleteVolume, DeleteSnapshot, DescribeFileSystem, ResizeFileSystem,
       FindUpdate, WaitForFileSystemResize, DescribeVolume
  <2>2. \A d \in Calls \ {c} : pc'[d] = pc[d] BY <1>1, <1>5, HandlerLock
  <2> QED BY <1>5, <2>1, <2>2, HandlerFlow DEF Flow, Quiet
<1>6. ASSUME NEW c \in Calls, Cancel(c) PROVE Quiet' BY <1>6 DEF Cancel, Quiet
<1>7. ASSUME NEW p \in Procs, Crash(p) PROVE Quiet' BY <1>7 DEF Crash, Quiet
<1>8. ASSUME NEW id \in Ids, ManualDelete(id) PROVE Quiet'
  BY <1>3, <1>8 DEF ManualDelete, ctlVars
<1>9. CASE FSxStep BY <1>3, <1>9 DEF FSxStep, ctlVars
<1>10. CASE UNCHANGED vars BY <1>3, <1>10 DEF vars, ctlVars
<1> QED BY <1>4, <1>5, <1>6, <1>7, <1>8, <1>9, <1>10 DEF Next

\* A step that answers with an error of updates.
LEMMA ResizeErrorReal ==
    ASSUME TypeInv, UpdatesSound, Quiet, [Next]_vars, NEW c \in Calls, pc[c] # "done",
           resp'[c].err \in ResizeErrors
    PROVE  \A i \in UpdatesTo(req[c].id, NewCapacity(req[c])) :
              updates[req[c].id][i].status = "FAILED"
<1>1. FSxTypeOK /\ DisturbancesOK /\ LockTypeOK /\ LocalTypeOK BY TypeParts DEF TypeInv
<1>2. pc \in [Calls -> PCs] /\ resp \in [Calls -> Responses]
  BY <1>1 DEF LockTypeOK, LocalTypeOK
<1>3. resp'[c] # NoResp /\ resp'[c] # resp[c] BY DEF Quiet, NoResp, ResizeErrors
<1>4. ASSUME NEW d \in Calls, Handler(d), d # c PROVE FALSE
  BY <1>3, <1>4, HandlerFlow DEF Flow
<1>5. Handler(c)
  <2>1. ASSUME NEW d \in Calls, NEW r \in Requests, Call(d, r) PROVE FALSE
    BY <1>2, <1>3, <2>1 DEF Call
  <2>2. ASSUME NEW d \in Calls, Cancel(d) PROVE FALSE BY <1>3, <2>2 DEF Cancel
  <2>3. ASSUME NEW p \in Procs, Crash(p) PROVE FALSE BY <1>3, <2>3 DEF Crash
  <2>4. ASSUME NEW id \in Ids, ManualDelete(id) PROVE FALSE
    BY <1>3, <2>4 DEF ManualDelete, ctlVars, callVars
  <2>5. ~FSxStep BY <1>3 DEF FSxStep, ctlVars, callVars
  <2>6. ~UNCHANGED vars BY <1>3 DEF vars, ctlVars, callVars
  <2> QED BY <1>4, <2>1, <2>2, <2>3, <2>4, <2>5, <2>6 DEF Next
<1>6. req[c] \in Requests BY <1>1, <1>5, HandlerLock DEF LockTypeOK
<1>7. NewCapacity(req[c]) \in Nat BY <1>6, CapacityType
<1>8. pc[c] \in {"findUpdate", "waitResize"} BY <1>3, <1>5, HandlerFlow DEF Flow
<1> DEFINE id == req[c].id
           condition == ResizeCondition(id, NewCapacity(req[c]))
<1>9. id \in FsIds BY <1>8 DEF TypeInv, StepMatchesOp
<1>10. \A err : getResource(~canceled[c], id, err) => err \notin ResizeErrors BY RequestErrors
<1>11. CASE pc[c] = "findUpdate"
  <2>1. FindUpdate(c) BY <1>5, <1>11, HandlerAt
  <2>2. UpdatesTo(id, NewCapacity(req[c])) = {}
    BY <1>2, <1>3, <1>10, <2>1 DEF FindUpdate, Return, Answer, Continue
  <2> QED BY <2>2
<1>12. CASE pc[c] = "waitResize"
  <2>1. WaitForFileSystemResize(c) BY <1>5, <1>12, HandlerAt
  <2>2. PICK err \in Errors :
           /\ getResource(~canceled[c], id, err)
           /\ IF err # "none" THEN Return(c, "Internal", err, NoId, 0)
              ELSE CASE condition = "again" -> PollAgain(c)
                     [] condition = "done" ->
                           Return(c, "OK", "none", id, GiBToBytes(NewCapacity(req[c])))
                     [] OTHER -> Return(c, "Internal", condition, NoId, 0)
    BY <2>1 DEF WaitForFileSystemResize
  <2> HIDE DEF condition
  <2>3. condition \notin {"again", "done"}
    BY <1>2, <1>3, <1>10, <2>2 DEF Return, Answer, PollAgain, ResizeErrors
  <2>4. condition \in {"NoSuchUpdate", "again", "done", "UpdateFailed"}
    BY <1>7, <1>9, ResizeConditionSound DEF condition
  <2>5. condition \in {"NoSuchUpdate", "UpdateFailed"} BY <2>3, <2>4
  <2> QED BY <1>7, <1>9, <2>5, ResizeConditionSound DEF condition
<1> QED BY <1>8, <1>11, <1>12

\* The driver reports an update as missing or failed only when every update to the
\* requested capacity that FSx lists has failed: never while one is under way or
\* after one has succeeded, whoever asked for it.
THEOREM ResizeErrorsCorrect == Spec => ResizeErrorsAreReal
<1>1. Init => Quiet BY DEF Init, Quiet
<1>2. TypeInv /\ Quiet /\ [Next]_vars => Quiet' BY NextQuiet
<1>3. TypeInv /\ UpdatesSound /\ Quiet /\ [Next]_vars
         => [\A c \in Calls :
               pc[c] # "done" /\ resp'[c].err \in {"NoSuchUpdate", "UpdateFailed"}
                   => \A i \in UpdatesTo(req[c].id, NewCapacity(req[c])) :
                         updates[req[c].id][i].status = "FAILED"]_vars
  BY ResizeErrorReal DEF ResizeErrors
<1> QED BY <1>1, <1>2, <1>3, TypeInvariance, UpdatesInvariance, PTL DEF Spec, ResizeErrorsAreReal

=============================================================================
