----------------------- MODULE ControllerAnswerProofs -----------------------
(***************************************************************************)
(* What the controller service leaves in FSx and what it answers, proved   *)
(* for every number of replicas and goroutines and every set of requests   *)
(* and resources: at most one resource per name, and no deletion reported  *)
(* that did not happen.                                                    *)
(***************************************************************************)
EXTENDS ControllerServiceProofs

-----------------------------------------------------------------------------
(* How the resources of FSx evolve, whoever takes the step.                *)

\* An id is assigned once, its input never changes, what is being deleted does
\* not come back, and what became available only goes on to be deleted.
Evolves ==
    \A id \in Ids :
        /\ lifecycle[id] # "ABSENT" => lifecycle'[id] # "ABSENT" /\ created'[id] = created[id]
        /\ lifecycle[id] \in {"AVAILABLE", "DELETING", "DELETED"}
              => lifecycle'[id] \in {"AVAILABLE", "DELETING", "DELETED"}
        /\ lifecycle[id] \in {"DELETING", "DELETED"} => lifecycle'[id] \in {"DELETING", "DELETED"}
        /\ lifecycle[id] = "DELETED" => lifecycle'[id] = "DELETED"

\* No id is assigned.
NoBirth == \A id \in Ids : lifecycle[id] = "ABSENT" => lifecycle'[id] = "ABSENT"

\* The create that goroutine c is about to make, if it makes one.
Sends(c, in) ==
    \/ /\ pc[c] = "createFileSystem" /\ in = FileSystemInput(req[c])
       /\ req[c].params.flaw # "unknownField"
    \/ /\ pc[c] = "createVolume" /\ in = VolumeInput(req[c])
       /\ req[c].params.flaw # "unknownField"
    \/ /\ pc[c] = "createSnapshot" /\ in = SnapshotInput(req[c], rid[c])
       /\ req[c].params.flaw = "none"

\* Goroutine c's create is accepted and assigns the id b to the input in.
Born(c, in, b) ==
    /\ in.token = req[c].name
    /\ b \in IdsOf(in.kind) /\ lifecycle[b] = "ABSENT" /\ SameToken(in) = {}
    /\ lifecycle'[b] # "ABSENT"
    /\ \A id \in Ids \ {b} : lifecycle'[id] = lifecycle[id]
    /\ created' = [created EXCEPT ![b] = in]
    /\ owner' = [owner EXCEPT ![b] = req[c].name]

\* Nothing evolves where nothing changes.
LEMMA UnchangedEvolves == UNCHANGED fsxVars => Evolves /\ NoBirth
BY DEF fsxVars, Evolves, NoBirth

\* A delete.
LEMMA DeleteEvolves ==
    ASSUME FSxTypeOK, NEW id, NEW reply, ApiDelete(id, reply)
    PROVE  Evolves /\ NoBirth
BY DEF ApiDelete, Present, fsxVars, FSxTypeOK, Evolves, NoBirth

\* An update.
LEMMA UpdateEvolves ==
    ASSUME NEW f, NEW target, NEW reply, ApiUpdate(f, target, reply)
    PROVE  Evolves /\ NoBirth
BY DEF ApiUpdate, Evolves, NoBirth

\* FSx's own steps.
LEMMA FSxEvolves == ASSUME FSxTypeOK, FSxNext PROVE Evolves /\ NoBirth
<1>1. ASSUME NEW id \in Ids, Progress(id) \/ FailCreate(id) PROVE Evolves /\ NoBirth
  BY <1>1 DEF Progress, FailCreate, FSxTypeOK, Evolves, NoBirth
<1>2. ASSUME NEW f \in FsIds, UpdateProgress(f) \/ FailUpdate(f) PROVE Evolves /\ NoBirth
  BY <1>2 DEF UpdateProgress, FailUpdate, Evolves, NoBirth
<1> QED BY <1>1, <1>2 DEF FSxNext

\* The common part of the creates: nothing is assigned, or one id, to this name.
LEMMA CreateEvolves ==
    ASSUME FSxTypeOK, DisturbancesOK, LocalTypeOK, NEW c \in Calls, NEW in \in Inputs,
           in.token = req[c].name, NEW known, Create(c, in, known)
    PROVE  /\ Evolves
           /\ (NoBirth /\ owner' = owner) \/ (known /\ \E b \in Ids : Born(c, in, b))
<1>1. PICK err \in Errors, id \in Ids \cup {NoId} :
         CreateResource(~canceled[c], known, in, err, id)
  BY DEF Create
<1>2. owner' = [i \in Ids |-> IF lifecycle[i] = "ABSENT" /\ lifecycle'[i] # "ABSENT"
                              THEN req[c].name ELSE owner[i]]
  BY DEF Create
<1>3. owner \in [Ids -> Names \cup {NoToken}] BY DEF LocalTypeOK
<1>4. lifecycle \in [Ids -> Lifecycles] /\ created \in [Ids -> Inputs \cup {NoInput}]
  BY DEF FSxTypeOK
<1>5. CASE UNCHANGED fsxVars
  <2>1. Evolves /\ NoBirth BY <1>5, UnchangedEvolves
  <2>2. lifecycle' = lifecycle BY <1>5 DEF fsxVars
  <2>3. owner' = owner BY <1>2, <1>3, <2>2
  <2> QED BY <2>1, <2>3
<1>6. CASE ~UNCHANGED fsxVars
  <2>1. PICK b, reply : ApiCreate(in, reply, b) BY <1>1, <1>6, CreateResourceStep
  <2>2. /\ b \in IdsOf(in.kind) /\ lifecycle[b] = "ABSENT" /\ SameToken(in) = {}
        /\ lifecycle' = [lifecycle EXCEPT ![b] =
               IF in.kind = "filesystem" THEN "CREATING" ELSE "PENDING"]
        /\ created' = [created EXCEPT ![b] = in]
    BY <1>6, <2>1, ApiCreateStep
  <2>3. b \in Ids BY <2>2, KindType DEF Inputs
  <2>4. lifecycle'[b] # "ABSENT" /\ \A i \in Ids \ {b} : lifecycle'[i] = lifecycle[i]
    BY <1>4, <2>2, <2>3
  <2>5. owner' = [owner EXCEPT ![b] = req[c].name] BY <1>2, <1>3, <2>2, <2>3, <2>4
  <2>6. Evolves BY <1>4, <2>2, <2>3, <2>4 DEF Evolves
  <2>7. known BY <1>1, <1>6, CreateResourceStep
  <2> QED BY <2>2, <2>3, <2>4, <2>5, <2>6, <2>7 DEF Born
<1> QED BY <1>5, <1>6

\* A step of a handler.
LEMMA HandlerEvolves ==
    ASSUME TypeOK, NEW c \in Calls, Handler(c)
    PROVE  /\ Evolves
           /\ \/ NoBirth /\ owner' = owner
              \/ \E in \in Inputs, b \in Ids : Sends(c, in) /\ Born(c, in, b)
<1>1. FSxTypeOK /\ DisturbancesOK /\ LockTypeOK /\ LocalTypeOK BY TypeParts
<1>2. req[c] \in Requests /\ rid[c] \in STRING BY <1>1, HandlerLock DEF LockTypeOK, LocalTypeOK
<1>3. ASSUME NEW in \in Inputs, in.token = req[c].name, NEW known, Create(c, in, known),
             known => Sends(c, in)
      PROVE  /\ Evolves
             /\ \/ NoBirth /\ owner' = owner
                \/ \E i \in Inputs, b \in Ids : Sends(c, i) /\ Born(c, i, b)
  BY <1>1, <1>3, CreateEvolves
<1>4. /\ FileSystemInput(req[c]).token = req[c].name
      /\ VolumeInput(req[c]).token = req[c].name
      /\ \A v : SnapshotInput(req[c], v).token = req[c].name
  BY DEF FileSystemInput, VolumeInput, SnapshotInput, Input, ClientRequestToken
<1>5. CASE CreateFileSystem(c) BY <1>2, <1>3, <1>4, <1>5, InputType DEF CreateFileSystem, Sends
<1>6. CASE CreateVolume(c) BY <1>2, <1>3, <1>4, <1>6, InputType DEF CreateVolume, Sends
<1>7. CASE CreateSnapshot(c) BY <1>2, <1>3, <1>4, <1>7, InputType DEF CreateSnapshot, Sends
<1>8. CASE DeleteVolume(c) \/ DeleteSnapshot(c)
  <2>1. PICK err : DeleteResource(~canceled[c], req[c].id, err)
    BY <1>8 DEF DeleteVolume, DeleteSnapshot
  <2>2. Evolves /\ NoBirth
    BY <1>1, <2>1, DeleteResourceStep, UnchangedEvolves, DeleteEvolves
  <2> QED BY <1>8, <2>2 DEF DeleteVolume, DeleteSnapshot, Return
<1>9. CASE ResizeFileSystem(c)
  <2>1. PICK err : UpdateFileSystem(~canceled[c], req[c].id, NewCapacity(req[c]), err)
    BY <1>9 DEF ResizeFileSystem
  <2>2. Evolves /\ NoBirth
    BY <1>1, <1>2, <2>1, CapacityType, UpdateFileSystemStep, UnchangedEvolves, UpdateEvolves
  <2> QED BY <1>9, <2>2 DEF ResizeFileSystem, Return, Continue
<1>10. ASSUME NEW live, NEW id, NEW err,
              getResource(live, id, err) \/ getTagsForResource(live, id, err)
       PROVE  UNCHANGED fsxVars
  BY <1>1, <1>10, ReadStep
<1>11. CASE \/ Begin(c) \/ Validate(c) \/ DescribeSnapshot(c) \/ GetVolumeId(c)
            \/ WaitForAvailable(c) \/ DescribeParent(c) \/ DescribeForDelete(c) \/ ListTags(c)
            \/ DescribeFileSystem(c) \/ FindUpdate(c) \/ WaitForFileSystemResize(c)
            \/ DescribeVolume(c)
  <2> USE <1>10 DEF Return, Answer, Continue
  <2>1. CASE Begin(c) \/ Validate(c)
    <3>1. UNCHANGED fsxVars BY <2>1 DEF Begin, Validate
    <3>2. owner' = owner BY <2>1 DEF Begin, Validate
    <3> QED BY <3>1, <3>2, UnchangedEvolves
  <2>2. CASE DescribeSnapshot(c) \/ GetVolumeId(c)
    <3>1. UNCHANGED fsxVars BY <2>2 DEF DescribeSnapshot, GetVolumeId
    <3>2. owner' = owner BY <2>2 DEF DescribeSnapshot, GetVolumeId
    <3> QED BY <3>1, <3>2, UnchangedEvolves
  <2>3. CASE WaitForAvailable(c) \/ DescribeParent(c)
    <3>1. UNCHANGED fsxVars BY <2>3 DEF WaitForAvailable, DescribeParent
    <3>2. owner' = owner BY <2>3 DEF WaitForAvailable, DescribeParent, PollAgain
    <3> QED BY <3>1, <3>2, UnchangedEvolves
  <2>4. CASE DescribeForDelete(c) \/ ListTags(c)
    <3>1. UNCHANGED fsxVars BY <2>4 DEF DescribeForDelete, ListTags
    <3>2. owner' = owner BY <2>4 DEF DescribeForDelete, ListTags
    <3> QED BY <3>1, <3>2, UnchangedEvolves
  <2>5. CASE DescribeFileSystem(c) \/ FindUpdate(c)
    <3>1. UNCHANGED fsxVars BY <2>5 DEF DescribeFileSystem, FindUpdate
    <3>2. owner' = owner BY <2>5 DEF DescribeFileSystem, FindUpdate
    <3> QED BY <3>1, <3>2, UnchangedEvolves
  <2>6. CASE WaitForFileSystemResize(c) \/ DescribeVolume(c)
    <3>1. UNCHANGED fsxVars BY <2>6 DEF WaitForFileSystemResize, DescribeVolume
    <3>2. owner' = owner BY <2>6 DEF WaitForFileSystemResize, DescribeVolume, PollAgain
    <3> QED BY <3>1, <3>2, UnchangedEvolves
  <2> QED BY <1>11, <2>1, <2>2, <2>3, <2>4, <2>5, <2>6
<1> QED BY <1>5, <1>6, <1>7, <1>8, <1>9, <1>11 DEF Handler

\* Every step of the system.
LEMMA NextEvolves ==
    ASSUME TypeOK, [Next]_vars
    PROVE  /\ Evolves
           /\ \/ NoBirth /\ owner' = owner
              \/ \E c \in Calls, in \in Inputs, b \in Ids : Sends(c, in) /\ Born(c, in, b)
<1>1. FSxTypeOK BY TypeParts
<1>2. CASE UNCHANGED vars BY <1>2, UnchangedEvolves DEF vars, ctlVars
<1>3. ASSUME NEW c \in Calls, NEW r \in Requests, Call(c, r)
      PROVE  Evolves /\ NoBirth /\ owner' = owner
  BY <1>3, UnchangedEvolves DEF Call
<1>4. ASSUME NEW c \in Calls, Handler(c)
      PROVE  /\ Evolves
             /\ \/ NoBirth /\ owner' = owner
                \/ \E in \in Inputs, b \in Ids : Sends(c, in) /\ Born(c, in, b)
  BY <1>4, HandlerEvolves
<1>5. ASSUME NEW c \in Calls, Cancel(c) PROVE Evolves /\ NoBirth /\ owner' = owner
  BY <1>5, UnchangedEvolves DEF Cancel
<1>6. ASSUME NEW p \in Procs, Crash(p) PROVE Evolves /\ NoBirth /\ owner' = owner
  BY <1>6, UnchangedEvolves DEF Crash
<1>7. ASSUME NEW id \in Ids, ManualDelete(id) PROVE Evolves /\ NoBirth /\ owner' = owner
  BY <1>1, <1>7, DeleteEvolves DEF ManualDelete, ctlVars
<1>8. CASE FSxStep BY <1>1, <1>8, FSxEvolves DEF FSxStep, ctlVars
<1> QED BY <1>2, <1>3, <1>4, <1>5, <1>6, <1>7, <1>8 DEF Next

-----------------------------------------------------------------------------
(* At most one resource per name.  The strengthening: a resource carries   *)
(* the name it was made for as its token, which is what FSx looks for when *)
(* the creation is repeated.                                               *)

OwnerIsToken ==
    \A id \in Ids : owner[id] = IF lifecycle[id] = "ABSENT" THEN NoToken ELSE created[id].token

NameInv == OwnerIsToken /\ OneResourcePerName

\* No id is of two kinds.
LEMMA KindsDisjoint ==
    ASSUME NEW k \in Kinds, NEW m \in Kinds, NEW id \in IdsOf(k), id \in IdsOf(m)
    PROVE  k = m
<1>1. FsIds \cap VolIds = {} /\ FsIds \cap SnapIds = {} /\ VolIds \cap SnapIds = {}
  BY Zenon, FSxAssumption
<1> QED BY <1>1 DEF Kinds, IdsOf

\* Every step keeps names apart: one that assigns an id found no other resource
\* of the kind under the token.
LEMMA NextName ==
    ASSUME TypeOK, NameInv, [Next]_vars
    PROVE  NameInv'
<1>1. FSxTypeOK /\ LocalTypeOK BY TypeParts
<1>2. /\ lifecycle \in [Ids -> Lifecycles] /\ created \in [Ids -> Inputs \cup {NoInput}]
      /\ owner \in [Ids -> Names \cup {NoToken}]
  BY <1>1 DEF FSxTypeOK, LocalTypeOK
<1>3. Evolves BY NextEvolves
<1>4. ASSUME NEW id \in Ids, Present(id)', lifecycle[id] # "ABSENT" PROVE Present(id)
  BY <1>3, <1>4 DEF Evolves, Present
<1>5. CASE NoBirth /\ owner' = owner
  <2>1. OwnerIsToken' BY <1>3, <1>5 DEF NameInv, OwnerIsToken, Evolves, NoBirth
  <2>2. ASSUME NEW id \in Ids, Present(id)' PROVE Present(id)
    BY <1>4, <1>5, <2>2 DEF NoBirth, Present
  <2>3. OneResourcePerName' BY <1>5, <2>2, KindType DEF NameInv, OneResourcePerName
  <2> QED BY <2>1, <2>3 DEF NameInv
<1>6. ASSUME NEW c \in Calls, NEW in \in Inputs, NEW b \in Ids, Born(c, in, b) PROVE NameInv'
  <2> DEFINE name == req[c].name
  <2>1. /\ in.token = name /\ b \in IdsOf(in.kind) /\ SameToken(in) = {}
        /\ lifecycle[b] = "ABSENT" /\ lifecycle'[b] # "ABSENT"
        /\ \A i \in Ids \ {b} : lifecycle'[i] = lifecycle[i]
        /\ created' = [created EXCEPT ![b] = in]
        /\ owner' = [owner EXCEPT ![b] = name]
    BY <1>6 DEF Born
  <2> HIDE DEF name
  <2>2. OwnerIsToken' BY <1>2, <2>1 DEF NameInv, OwnerIsToken
  <2>3. in.kind \in Kinds BY DEF Inputs
  <2>4. ASSUME NEW kind \in Kinds, NEW j \in IdsOf(kind), j # b, b \in IdsOf(kind),
               Present(j)', owner'[j] = name, name # NoToken
        PROVE  FALSE
    <3>1. kind = in.kind BY <2>1, <2>3, <2>4, KindsDisjoint
    <3>2. j \in Ids BY <2>4, KindType
    <3>3. owner[j] = name /\ Present(j) BY <1>2, <2>1, <2>4, <3>2 DEF Present
    <3>4. created[j].token = in.token BY <2>1, <2>4, <3>2, <3>3 DEF NameInv, OwnerIsToken
    <3>5. j \in SameToken(in) BY <2>1, <2>4, <3>1, <3>3, <3>4 DEF SameToken
    <3> QED BY <2>1, <3>5
  <2>5. ASSUME NEW kind \in Kinds, NEW i \in IdsOf(kind), NEW j \in IdsOf(kind),
               Present(i)', Present(j)', owner'[i] = owner'[j], owner'[i] # NoToken
        PROVE  i = j
    <3>1. i \in Ids /\ j \in Ids BY KindType
    <3>2. owner'[b] = name BY <1>2, <2>1
    <3>3. CASE i = b BY <2>4, <2>5, <3>2, <3>3
    <3>4. CASE j = b BY <2>4, <2>5, <3>2, <3>4
    <3>5. CASE i # b /\ j # b
      <4>1. Present(i) /\ Present(j) BY <2>1, <2>5, <3>1, <3>5 DEF Present
      <4>2. owner'[i] = owner[i] /\ owner'[j] = owner[j] BY <1>2, <2>1, <3>1, <3>5
      <4> QED BY <2>5, <4>1, <4>2 DEF NameInv, OneResourcePerName
    <3> QED BY <3>3, <3>4, <3>5
  <2>6. OneResourcePerName' BY <2>5 DEF OneResourcePerName
  <2> QED BY <2>2, <2>6 DEF NameInv
<1> QED BY <1>5, <1>6, NextEvolves

\* What is there at start keeps names apart.
LEMMA InitName == Init => NameInv
<1> SUFFICES ASSUME Init PROVE NameInv OBVIOUS
<1>1. /\ lifecycle = [id \in Ids |-> IF id \in DOMAIN Preexisting THEN "AVAILABLE" ELSE "ABSENT"]
      /\ created = [id \in Ids |-> IF id \in DOMAIN Preexisting THEN Preexisting[id] ELSE NoInput]
      /\ owner = [id \in Ids |-> IF id \in DOMAIN Preexisting THEN Preexisting[id].token
                                 ELSE NoToken]
  BY DEF Init, FSxInit
<1>2. OwnerIsToken BY <1>1 DEF OwnerIsToken
<1>3. ASSUME NEW kind \in Kinds, NEW i \in IdsOf(kind), NEW j \in IdsOf(kind),
             owner[i] = owner[j], owner[i] # NoToken
      PROVE  i = j
  <2>1. i \in Ids /\ j \in Ids BY KindType
  <2>2. /\ i \in DOMAIN Preexisting /\ j \in DOMAIN Preexisting
        /\ Preexisting[i].token = Preexisting[j].token /\ Preexisting[i].token # NoToken
    BY <1>1, <1>3, <2>1
  <2>3. /\ Preexisting[i].kind \in Kinds /\ i \in IdsOf(Preexisting[i].kind)
        /\ Preexisting[j].kind \in Kinds /\ j \in IdsOf(Preexisting[j].kind)
    BY <2>2, PreexistingType
  <2>4. Preexisting[i].kind = Preexisting[j].kind BY <2>3, KindsDisjoint
  <2> QED BY <2>2, <2>4, PreexistingTokens
<1>4. OneResourcePerName BY <1>3 DEF OneResourcePerName
<1> QED BY <1>2, <1>4 DEF NameInv

\* Tokens and names agree in every reachable state.
THEOREM NameInvariance == Spec => [](TypeInv /\ NameInv)
<1>1. TypeInv /\ NameInv /\ [Next]_vars => NameInv' BY NextName DEF TypeInv
<1> QED BY <1>1, InitName, TypeInvariance, PTL DEF Spec

\* However often and by however many replicas a creation is retried, after lost
\* replies, timeouts and crashes, its name never has two resources of a kind.
THEOREM OneResourceCorrect == Spec => []OneResourcePerName
<1>1. NameInv => OneResourcePerName BY DEF NameInv
<1> QED BY <1>1, NameInvariance, PTL

-----------------------------------------------------------------------------
(* No deletion is reported that did not happen.  The strengthening: what a *)
(* request names was assigned before the request was sent.                 *)

Deletions == {"DeleteVolume", "DeleteSnapshot"}

NamedExists ==
    \A c \in Calls : pc[c] # "idle" /\ req[c].id \in Ids => lifecycle[req[c].id] # "ABSENT"

DeleteInv == NamedExists /\ DeleteAnswerSound

\* A handler answers a deletion with OK only in the step that made the delete
\* request, and only if FSx took it or no longer knew the resource.
LEMMA HandlerDelete ==
    ASSUME TypeInv, NamedExists, NEW c \in Calls, Handler(c)
    PROVE  /\ \A d \in Calls \ {c} : resp'[d] = resp[d]
           /\ AnsweredOK(c, Deletions)' /\ req[c].id \in Ids
                 => lifecycle'[req[c].id] \in {"DELETING", "DELETED"}
<1>1. FSxTypeOK /\ DisturbancesOK /\ LockTypeOK /\ LocalTypeOK BY TypeParts DEF TypeInv
<1>2. req' = req /\ pc[c] # "idle" /\ req[c] \in Requests
  BY <1>1, HandlerLock DEF LockTypeOK
<1>3. pc \in [Calls -> PCs] /\ resp \in [Calls -> Responses]
  BY <1>1 DEF LockTypeOK, LocalTypeOK
<1>4. StepMatchesOp BY DEF TypeInv
<1> USE <1>2, <1>3 DEF Deletions, AnsweredOK, Goto, Return, Answer, Continue
<1>5. CASE pc[c] \in {"describeSnapshot", "createFileSystem", "createVolume", "getVolumeId",
              "createSnapshot", "waitAvailable", "describeParent", "describeFileSystem",
              "resize", "findUpdate", "waitResize", "describeVolume"}
  <2>1. req[c].op \notin Deletions BY <1>4, <1>5 DEF StepMatchesOp
  <2>2. ~AnsweredOK(c, Deletions)' BY <2>1
  <2>3. \A d \in Calls \ {c} : resp'[d] = resp[d]
    <3>1. CASE DescribeSnapshot(c) BY <3>1 DEF DescribeSnapshot
    <3>2. CASE CreateFileSystem(c) BY <3>2 DEF CreateFileSystem, Create
    <3>3. CASE CreateVolume(c) BY <3>3 DEF CreateVolume, Create
    <3>4. CASE GetVolumeId(c) BY <3>4 DEF GetVolumeId
    <3>5. CASE CreateSnapshot(c) BY <3>5 DEF CreateSnapshot, Create
    <3>6. CASE WaitForAvailable(c) BY <3>6 DEF WaitForAvailable, PollAgain
    <3>7. CASE DescribeParent(c) BY <3>7 DEF DescribeParent
    <3>8. CASE DescribeFileSystem(c) BY <3>8 DEF DescribeFileSystem
    <3>9. CASE ResizeFileSystem(c) BY <3>9 DEF ResizeFileSystem
    <3>10. CASE FindUpdate(c) BY <3>10 DEF FindUpdate
    <3>11. CASE WaitForFileSystemResize(c) BY <3>11 DEF WaitForFileSystemResize, PollAgain
    <3>12. CASE DescribeVolume(c) BY <3>12 DEF DescribeVolume
    <3>13. ~(\/ Begin(c) \/ Validate(c) \/ DescribeForDelete(c) \/ ListTags(c)
             \/ DeleteVolume(c) \/ DeleteSnapshot(c))
      BY <1>5 DEF Begin, Validate, DescribeForDelete, ListTags, DeleteVolume, DeleteSnapshot
    <3> QED BY <3>1, <3>2, <3>3, <3>4, <3>5, <3>6, <3>7, <3>8, <3>9, <3>10, <3>11, <3>12,
               <3>13 DEF Handler
  <2> QED BY <2>2, <2>3
<1>6. CASE Begin(c) BY <1>6 DEF Begin
<1>7. CASE Validate(c) BY <1>7 DEF Validate, FirstStep
<1>8. CASE DescribeForDelete(c) BY <1>8 DEF DescribeForDelete
<1>9. CASE ListTags(c) BY <1>9 DEF ListTags
<1>10. CASE DeleteVolume(c) \/ DeleteSnapshot(c)
  <2>1. PICK err : /\ DeleteResource(~canceled[c], req[c].id, err)
                   /\ Return(c, DeleteCode(err), err, NoId, 0)
    BY <1>10 DEF DeleteVolume, DeleteSnapshot
  <2>2. \A d \in Calls \ {c} : resp'[d] = resp[d] BY <2>1
  <2>3. ASSUME AnsweredOK(c, Deletions)', req[c].id \in Ids
        PROVE  lifecycle'[req[c].id] \in {"DELETING", "DELETED"}
    <3>1. err \in {"none", "ErrNotFound"} BY <2>1, <2>3 DEF DeleteCode
    <3>2. lifecycle'[req[c].id] \in {"DELETING", "DELETED", "ABSENT"}
      BY <1>1, <2>1, <2>3, <3>1, DeleteResourceStep
    <3>3. lifecycle[req[c].id] # "ABSENT" BY <2>3 DEF NamedExists
    <3>4. Evolves BY HandlerEvolves DEF TypeInv
    <3> QED BY <2>3, <3>2, <3>3, <3>4 DEF Evolves
  <2> QED BY <2>2, <2>3
<1>11. \/ Begin(c) \/ Validate(c) \/ DescribeForDelete(c) \/ ListTags(c)
       \/ DeleteVolume(c) \/ DeleteSnapshot(c)
       \/ pc[c] \in {"describeSnapshot", "createFileSystem", "createVolume", "getVolumeId",
              "createSnapshot", "waitAvailable", "describeParent", "describeFileSystem",
              "resize", "findUpdate", "waitResize", "describeVolume"}
  BY DEF Handler, DescribeSnapshot, CreateFileSystem, CreateVolume, GetVolumeId, CreateSnapshot,
         WaitForAvailable, DescribeParent, DescribeFileSystem, ResizeFileSystem, FindUpdate,
         WaitForFileSystemResize, DescribeVolume
<1> QED BY <1>5, <1>6, <1>7, <1>8, <1>9, <1>10, <1>11

\* Every step keeps the reported deletions true.
LEMMA NextDelete ==
    ASSUME TypeInv, DeleteInv, [Next]_vars
    PROVE  DeleteInv'
<1>1. FSxTypeOK /\ LockTypeOK /\ LocalTypeOK BY TypeParts DEF TypeInv
<1>2. pc \in [Calls -> PCs] /\ resp \in [Calls -> Responses]
      /\ req \in [Calls -> Requests \cup {NoRequest}]
  BY <1>1 DEF LockTypeOK, LocalTypeOK
<1>3. Evolves BY NextEvolves DEF TypeInv
<1>4. NamedExists /\ DeleteAnswerSound BY DEF DeleteInv
<1>5. \* A goroutine whose request and answer stay the same.
      ASSUME NEW d \in Calls, pc'[d] # "idle", req'[d] = req[d], pc[d] # "idle",
             req[d].id \in Ids
      PROVE  lifecycle'[req[d].id] # "ABSENT"
  BY <1>3, <1>4, <1>5 DEF NamedExists, Evolves
<1>6. ASSUME NEW d \in Calls, pc'[d] = pc[d], req'[d] = req[d], resp'[d] = resp[d],
             AnsweredOK(d, Deletions)', req[d].id \in Ids
      PROVE  lifecycle'[req[d].id] \in {"DELETING", "DELETED"}
  BY <1>3, <1>4, <1>6 DEF DeleteAnswerSound, AnsweredOK, Deletions, Evolves
<1>7. ASSUME \A d \in Calls : pc'[d] = pc[d] /\ req'[d] = req[d] /\ resp'[d] = resp[d]
      PROVE  DeleteInv'
  BY <1>5, <1>6, <1>7 DEF DeleteInv, NamedExists, DeleteAnswerSound, Deletions
<1>8. CASE UNCHANGED vars BY <1>7, <1>8 DEF vars, ctlVars, callVars
<1>9. ASSUME NEW c \in Calls, NEW r \in Requests, Call(c, r) PROVE DeleteInv'
  <2>1. /\ \A d \in Calls \ {c} : pc'[d] = pc[d] /\ req'[d] = req[d] /\ resp'[d] = resp[d]
        /\ pc'[c] = "received" /\ req'[c] = r /\ lifecycle' = lifecycle
        /\ r.id \in Ids => lifecycle[r.id] # "ABSENT"
    BY <1>2, <1>9 DEF Call, fsxVars
  <2>2. NamedExists' BY <1>5, <2>1 DEF NamedExists
  <2>3. DeleteAnswerSound' BY <1>6, <2>1 DEF DeleteAnswerSound, AnsweredOK, Deletions
  <2> QED BY <2>2, <2>3 DEF DeleteInv
<1>10. ASSUME NEW c \in Calls, Handler(c) PROVE DeleteInv'
  <2>1. /\ req' = req /\ pc[c] # "idle"
        /\ \A d \in Calls \ {c} : pc'[d] = pc[d]
    BY <1>1, <1>10, HandlerLock
  <2>2. /\ \A d \in Calls \ {c} : resp'[d] = resp[d]
        /\ AnsweredOK(c, Deletions)' /\ req[c].id \in Ids
              => lifecycle'[req[c].id] \in {"DELETING", "DELETED"}
    BY <1>4, <1>10, HandlerDelete
  <2>3. NamedExists' BY <1>5, <2>1 DEF NamedExists
  <2>4. DeleteAnswerSound' BY <1>6, <2>1, <2>2 DEF DeleteAnswerSound, AnsweredOK, Deletions
  <2> QED BY <2>3, <2>4 DEF DeleteInv
<1>11. ASSUME NEW c \in Calls, Cancel(c) PROVE DeleteInv' BY <1>7, <1>11 DEF Cancel
<1>12. ASSUME NEW p \in Procs, Crash(p) PROVE DeleteInv'
  <2>1. \A d \in Calls : \/ pc'[d] = "idle"
                         \/ pc'[d] = pc[d] /\ req'[d] = req[d] /\ resp'[d] = resp[d]
    BY <1>12 DEF Crash
  <2>2. NamedExists' BY <1>5, <2>1 DEF NamedExists
  <2>3. DeleteAnswerSound' BY <1>6, <2>1 DEF DeleteAnswerSound, AnsweredOK, Deletions
  <2> QED BY <2>2, <2>3 DEF DeleteInv
<1>13. ASSUME NEW id \in Ids, ManualDelete(id) PROVE DeleteInv'
  BY <1>7, <1>13 DEF ManualDelete, ctlVars, callVars
<1>14. CASE FSxStep BY <1>7, <1>14 DEF FSxStep, ctlVars, callVars
<1> QED BY <1>8, <1>9, <1>10, <1>11, <1>12, <1>13, <1>14 DEF Next

\* A deletion is answered with OK only if the resource is gone or going, and it
\* stays so: whatever API requests failed or lost their reply on the way,
\* whoever else deletes or creates at the same time.
THEOREM DeleteAnswerCorrect == Spec => []DeleteAnswerSound
<1>1. Init => DeleteInv
  BY DEF Init, DeleteInv, NamedExists, DeleteAnswerSound, AnsweredOK
<1>2. TypeInv /\ DeleteInv /\ [Next]_vars => DeleteInv' BY NextDelete
<1>3. DeleteInv => DeleteAnswerSound BY DEF DeleteInv
<1> QED BY <1>1, <1>2, <1>3, TypeInvariance, PTL DEF Spec

=============================================================================
