----------------------- MODULE ControllerServiceProofs -----------------------
(***************************************************************************)
(* The invariants of ControllerService and its refinement of KeyedLock,    *)
(* proved for every number of replicas and goroutines, every set of        *)
(* requests and resources, and every bound.                                *)
(***************************************************************************)
EXTENDS ControllerService, CloudProofs

-----------------------------------------------------------------------------
(* What a step of a handler does to the InFlight of its process: nothing,  *)
(* or it takes or gives up the key of its own request.                     *)

\* The types the argument about keys needs.
LockTypeOK ==
    /\ pc \in [Calls -> PCs]
    /\ req \in [Calls -> Requests \cup {NoRequest}]
    /\ \A c \in Calls : pc[c] # "idle" => req[c] \in Requests
    /\ inFlight \in [Procs -> SUBSET STRING]

Took(c) ==
    /\ ~Holding(c) /\ Holding(c)' /\ ~MissingArgument(req[c])
    /\ KeyOf(req[c]) \notin inFlight[ProcOf[c]]
    /\ inFlight' = [inFlight EXCEPT ![ProcOf[c]] = @ \cup {KeyOf(req[c])}]
GaveUp(c) ==
    /\ Holding(c) /\ ~Holding(c)'
    /\ inFlight' = [inFlight EXCEPT ![ProcOf[c]] = @ \ {KeyOf(req[c])}]
Kept(c) == Holding(c)' = Holding(c) /\ inFlight' = inFlight

\* Every goroutine belongs to a process.
LEMMA ProcType == ASSUME NEW c \in Calls PROVE ProcOf[c] \in Procs
BY ControllerAssumption

\* What the assumptions say of the fields of one request.
LEMMA RequestType ==
    ASSUME NEW r \in Requests
    PROVE  /\ r.op \in Ops /\ r.name \in Names \cup {NoToken} /\ r.id \in STRING
           /\ r.source \in STRING /\ r.required \in Nat /\ r.params \in Params
           /\ r.hasRange \in BOOLEAN
BY ControllerAssumption

\* Keys are strings.
LEMMA KeyType == ASSUME NEW r \in Requests PROVE KeyOf(r) \in STRING
BY NameType, IdType, RequestType DEF KeyOf

\* Every step of a handler takes the key of its own request, gives it up, or
\* leaves the InFlight alone, and moves no other goroutine.
LEMMA HandlerLock ==
    ASSUME LockTypeOK, NEW c \in Calls, Handler(c)
    PROVE  /\ req' = req /\ pc[c] # "idle"
           /\ pc' \in [Calls -> PCs] /\ pc'[c] # "idle"
           /\ \A d \in Calls \ {c} : pc'[d] = pc[d]
           /\ Took(c) \/ GaveUp(c) \/ Kept(c)
<1>1. pc \in [Calls -> PCs] BY DEF LockTypeOK
<1> USE <1>1 DEF Goto, Return, Answer, Continue, DeferredDelete, Delete, Holding,
      Took, GaveUp, Kept, PCs
<1>2. CASE Begin(c) BY <1>2 DEF Begin, CanInsert, Insert
<1>3. CASE Validate(c) BY <1>3 DEF Validate, FirstStep
<1>4. CASE DescribeSnapshot(c) BY <1>4 DEF DescribeSnapshot
<1>5. CASE CreateFileSystem(c) BY <1>5 DEF CreateFileSystem, Create
<1>6. CASE CreateVolume(c) BY <1>6 DEF CreateVolume, Create
<1>7. CASE GetVolumeId(c) BY <1>7 DEF GetVolumeId
<1>8. CASE CreateSnapshot(c) BY <1>8 DEF CreateSnapshot, Create
<1>9. CASE WaitForAvailable(c) BY <1>9 DEF WaitForAvailable, PollAgain
<1>10. CASE DescribeParent(c) BY <1>10 DEF DescribeParent
<1>11. CASE DescribeForDelete(c) BY <1>11 DEF DescribeForDelete
<1>12. CASE ListTags(c) BY <1>12 DEF ListTags
<1>13. CASE DeleteVolume(c) BY <1>13 DEF DeleteVolume
<1>14. CASE DeleteSnapshot(c) BY <1>14 DEF DeleteSnapshot
<1>15. CASE DescribeFileSystem(c) BY <1>15 DEF DescribeFileSystem
<1>16. CASE ResizeFileSystem(c) BY <1>16 DEF ResizeFileSystem
<1>17. CASE FindUpdate(c) BY <1>17 DEF FindUpdate
<1>18. CASE WaitForFileSystemResize(c) BY <1>18 DEF WaitForFileSystemResize, PollAgain
<1>19. CASE DescribeVolume(c) BY <1>19 DEF DescribeVolume
<1> QED
  BY <1>2, <1>3, <1>4, <1>5, <1>6, <1>7, <1>8, <1>9, <1>10, <1>11, <1>12, <1>13,
     <1>14, <1>15, <1>16, <1>17, <1>18, <1>19 DEF Handler

\* The types are kept by every step.
LEMMA NextLockType == LockTypeOK /\ [Next]_vars => LockTypeOK'
<1> SUFFICES ASSUME LockTypeOK, [Next]_vars PROVE LockTypeOK' OBVIOUS
<1>1. CASE UNCHANGED vars BY <1>1 DEF vars, ctlVars, callVars, LockTypeOK
<1>2. ASSUME NEW c \in Calls, NEW r \in Requests, Call(c, r) PROVE LockTypeOK'
  BY <1>2 DEF Call, LockTypeOK, PCs
<1>3. ASSUME NEW c \in Calls, Handler(c) PROVE LockTypeOK'
  <2>1. KeyOf(req[c]) \in STRING BY <1>3, HandlerLock, KeyType DEF LockTypeOK
  <2>2. inFlight' \in [Procs -> SUBSET STRING]
    <3> USE <2>1, ProcType DEF LockTypeOK
    <3>1. CASE Took(c) BY <3>1 DEF Took
    <3>2. CASE GaveUp(c) BY <3>2 DEF GaveUp
    <3>3. CASE Kept(c) BY <3>3 DEF Kept
    <3> QED BY <1>3, <3>1, <3>2, <3>3, HandlerLock
  <2> QED BY <1>3, <2>2, HandlerLock DEF LockTypeOK
<1>4. ASSUME NEW c \in Calls, Cancel(c) PROVE LockTypeOK'
  BY <1>4 DEF Cancel, LockTypeOK
<1>5. ASSUME NEW p \in Procs, Crash(p) PROVE LockTypeOK'
  BY <1>5 DEF Crash, NewInFlight, LockTypeOK, PCs
<1>6. ASSUME NEW id \in Ids, ManualDelete(id) PROVE LockTypeOK'
  BY <1>6 DEF ManualDelete, ctlVars, callVars, LockTypeOK
<1>7. CASE FSxStep BY <1>7 DEF FSxStep, ctlVars, callVars, LockTypeOK
<1> QED BY <1>1, <1>2, <1>3, <1>4, <1>5, <1>6, <1>7 DEF Next

-----------------------------------------------------------------------------
(* The keys.                                                               *)

KeysHeld == \A c \in Calls : Holding(c) => KeyOf(req[c]) \in inFlight[ProcOf[c]]

KeysOwned ==
    \A p \in Procs : \A k \in inFlight[p] :
        \E c \in Calls : Holding(c) /\ ProcOf[c] = p /\ KeyOf(req[c]) = k

LockInv == KeysHeld /\ KeysOwned /\ MutualExclusion

\* Keys that are held and owned make the InFlight exact.
LEMMA LockExact == LockInv => InFlightExact
<1> SUFFICES ASSUME LockInv, NEW p \in Procs
             PROVE  inFlight[p] = {KeyOf(req[c]) : c \in {d \in Calls : Holding(d) /\ ProcOf[d] = p}}
  BY DEF InFlightExact
<1> QED BY DEF LockInv, KeysHeld, KeysOwned

\* Every InFlight is empty at start and nobody holds a key.
LEMMA InitLock == Init => LockTypeOK /\ LockInv
BY DEF Init, LockTypeOK, LockInv, KeysHeld, KeysOwned, MutualExclusion, Holding,
    NewInFlight, PCs

\* Every step keeps the InFlight of every process exact and its holders apart.
LEMMA NextLock == LockTypeOK /\ LockInv /\ [Next]_vars => LockInv'
<1> SUFFICES ASSUME LockTypeOK, LockInv, [Next]_vars PROVE LockInv' OBVIOUS
<1> USE DEF LockInv, KeysHeld, KeysOwned, MutualExclusion
<1>1. CASE UNCHANGED vars BY <1>1 DEF vars, ctlVars, callVars, Holding
<1>2. ASSUME NEW c \in Calls, NEW r \in Requests, Call(c, r) PROVE LockInv'
  <2>1. ~Holding(c) /\ ~Holding(c)' BY <1>2 DEF Call, Holding, LockTypeOK
  <2>2. \A d \in Calls \ {c} : Holding(d)' = Holding(d) /\ req'[d] = req[d]
    BY <1>2 DEF Call, Holding, LockTypeOK
  <2>3. inFlight' = inFlight BY <1>2 DEF Call
  <2> QED BY <2>1, <2>2, <2>3
<1>3. ASSUME NEW c \in Calls, Handler(c) PROVE LockInv'
  <2>1. req' = req BY <1>3, HandlerLock
  <2>2. \A d \in Calls \ {c} : Holding(d)' = Holding(d) BY <1>3, HandlerLock DEF Holding
  <2>3. /\ \A d \in Calls : ProcOf[d] \in Procs
        /\ inFlight \in [Procs -> SUBSET STRING]
    BY ProcType DEF LockTypeOK
  <2>4. CASE Took(c)
    <3>1. KeysHeld' BY <2>1, <2>2, <2>3, <2>4 DEF Took
    <3>2. KeysOwned' BY <2>1, <2>2, <2>3, <2>4 DEF Took
    <3>3. MutualExclusion' BY <2>1, <2>2, <2>3, <2>4 DEF Took
    <3> QED BY <3>1, <3>2, <3>3
  <2>5. CASE GaveUp(c)
    <3>1. KeysHeld' BY <2>1, <2>2, <2>3, <2>5 DEF GaveUp
    <3>2. KeysOwned' BY <2>1, <2>2, <2>3, <2>5 DEF GaveUp
    <3>3. MutualExclusion' BY <2>1, <2>2, <2>3, <2>5 DEF GaveUp
    <3> QED BY <3>1, <3>2, <3>3
  <2>6. CASE Kept(c) BY <2>1, <2>2, <2>6 DEF Kept
  <2> QED BY <1>3, <2>4, <2>5, <2>6, HandlerLock
<1>4. ASSUME NEW c \in Calls, Cancel(c) PROVE LockInv' BY <1>4 DEF Cancel, Holding
<1>5. ASSUME NEW p \in Procs, Crash(p) PROVE LockInv'
  <2>1. \A d \in Calls : Holding(d)' <=> Holding(d) /\ ProcOf[d] # p
    BY <1>5 DEF Crash, Holding
  <2>2. \A d \in Calls : ProcOf[d] # p => req'[d] = req[d] BY <1>5 DEF Crash
  <2>3. /\ inFlight'[p] = {}
        /\ \A q \in Procs \ {p} : inFlight'[q] = inFlight[q]
    BY <1>5 DEF Crash, NewInFlight, LockTypeOK
  <2>4. \A d \in Calls : ProcOf[d] \in Procs BY ProcType
  <2>5. KeysHeld' BY <2>1, <2>2, <2>3, <2>4
  <2>6. KeysOwned' BY <2>1, <2>2, <2>3, <2>4
  <2>7. MutualExclusion' BY <2>1, <2>2
  <2> QED BY <2>5, <2>6, <2>7
<1>6. ASSUME NEW id \in Ids, ManualDelete(id) PROVE LockInv'
  BY <1>6 DEF ManualDelete, ctlVars, callVars, Holding
<1>7. CASE FSxStep BY <1>7 DEF FSxStep, ctlVars, callVars, Holding
<1> QED BY <1>1, <1>2, <1>3, <1>4, <1>5, <1>6, <1>7 DEF Next

\* The keys are exact and exclusive in every reachable state.
THEOREM LockInvariance == Spec => [](LockTypeOK /\ LockInv)
<1>1. LockTypeOK /\ LockInv /\ [Next]_vars => (LockTypeOK /\ LockInv)'
  BY NextLockType, NextLock
<1> QED BY <1>1, InitLock, PTL DEF Spec

\* Every return of a handler, early, with an error or with OK, gives up the key
\* its Insert took and no other, in every process and across crashes.
THEOREM InFlightCorrect == Spec => []InFlightExact
BY LockInvariance, LockExact, PTL

\* No two goroutines of a process ever work under the same key.
THEOREM ExclusionCorrect == Spec => []MutualExclusion
<1>1. LockInv => MutualExclusion BY DEF LockInv
<1> QED BY <1>1, LockInvariance, PTL

-----------------------------------------------------------------------------
(* The checks before the first API request, and the steps of each handler. *)

\* If every check has an error code, the verdict is one of them, or OK and no
\* check fails.
LEMMA FirstFailureVerdict ==
    ASSUME NEW checks, DOMAIN checks \subseteq Nat,
           \A i \in DOMAIN checks : checks[i].code \in Codes \ {"OK"}
    PROVE  /\ FirstFailure(checks) \in Codes
           /\ FirstFailure(checks) = "OK" => \A i \in DOMAIN checks : ~checks[i].fails
<1> DEFINE failed == {i \in DOMAIN checks : checks[i].fails}
<1>1. CASE failed = {}
  <2>1. FirstFailure(checks) = "OK" BY <1>1 DEF FirstFailure
  <2> QED BY <1>1, <2>1 DEF Codes
<1>2. CASE failed # {}
  <2>1. Min(failed) \in failed BY <1>2, MinExists
  <2>2. FirstFailure(checks) = checks[Min(failed)].code BY <1>2 DEF FirstFailure
  <2> QED BY <2>1, <2>2
<1> QED BY <1>1, <1>2

\* The verdict on a request is a status code, and only expansions of file
\* systems get past theirs.
LEMMA VerdictType ==
    ASSUME NEW r \in Requests
    PROVE  /\ Verdict(r) \in Codes
           /\ r.op = "ControllerExpandVolume" /\ Verdict(r) = "OK" => r.id \in FsIds
<1> USE DEF Check, Codes
<1>1. FirstFailure(CreateVolumeChecks(r)) \in Codes
  <2> DEFINE checks == CreateVolumeChecks(r)
  <2>1. DOMAIN checks = 1 .. 12 BY DEF CreateVolumeChecks
  <2>2. \A i \in 1 .. 12 : checks[i].code \in Codes \ {"OK"} BY DEF CreateVolumeChecks
  <2> HIDE DEF checks
  <2>3. FirstFailure(checks) \in Codes BY <2>1, <2>2, FirstFailureVerdict
  <2> QED BY <2>3 DEF checks
<1>2. FirstFailure(CreateSnapshotChecks(r)) \in Codes
  <2> DEFINE checks == CreateSnapshotChecks(r)
  <2>1. DOMAIN checks = 1 .. 2 BY DEF CreateSnapshotChecks
  <2>2. \A i \in 1 .. 2 : checks[i].code \in Codes \ {"OK"} BY DEF CreateSnapshotChecks
  <2> HIDE DEF checks
  <2>3. FirstFailure(checks) \in Codes BY <2>1, <2>2, FirstFailureVerdict
  <2> QED BY <2>3 DEF checks
<1>3. /\ FirstFailure(ControllerExpandVolumeChecks(r)) \in Codes
      /\ FirstFailure(ControllerExpandVolumeChecks(r)) = "OK" => r.id \in FsIds
  <2> DEFINE checks == ControllerExpandVolumeChecks(r)
  <2>1. DOMAIN checks = 1 .. 5 BY DEF ControllerExpandVolumeChecks
  <2>2. \A i \in 1 .. 5 : checks[i].code \in Codes \ {"OK"} BY DEF ControllerExpandVolumeChecks
  <2>3. checks[5].fails <=> r.id \notin FsIds BY DEF ControllerExpandVolumeChecks
  <2> HIDE DEF checks
  <2>4. /\ FirstFailure(checks) \in Codes
        /\ FirstFailure(checks) = "OK" => ~checks[5].fails
    BY <2>1, <2>2, FirstFailureVerdict
  <2> QED BY <2>3, <2>4 DEF checks
<1> QED BY <1>1, <1>2, <1>3 DEF Verdict

\* A goroutine is at a step of the handler of its own request.
StepMatchesOp ==
    \A c \in Calls :
        /\ pc[c] = "validate" => req[c].op # "ValidateVolumeCapabilities"
        /\ pc[c] \in {"describeSnapshot", "createFileSystem", "createVolume"}
              => req[c].op = "CreateVolume"
        /\ pc[c] \in {"getVolumeId", "createSnapshot"} => req[c].op = "CreateSnapshot"
        /\ pc[c] \in {"waitAvailable", "describeParent"}
              => req[c].op \in {"CreateVolume", "CreateSnapshot"}
        /\ pc[c] \in {"describe", "listTags", "delete"} => req[c].op = "DeleteVolume"
        /\ pc[c] = "deleteSnapshot" => req[c].op = "DeleteSnapshot"
        /\ pc[c] \in {"describeFileSystem", "resize", "findUpdate", "waitResize"}
              => req[c].op = "ControllerExpandVolume" /\ req[c].id \in FsIds
        /\ pc[c] = "describeVolume" => req[c].op = "ValidateVolumeCapabilities"

\* A handler stays with the steps of its own request.
LEMMA HandlerOp ==
    ASSUME LockTypeOK, StepMatchesOp, NEW c \in Calls, Handler(c)
    PROVE  StepMatchesOp'
<1>1. req' = req /\ \A d \in Calls \ {c} : pc'[d] = pc[d] BY HandlerLock
<1>2. pc \in [Calls -> PCs] BY DEF LockTypeOK
<1> USE <1>1, <1>2 DEF StepMatchesOp, Goto, Return, Answer, Continue
<1>3. CASE Begin(c) BY <1>3 DEF Begin
<1>4. CASE Validate(c)
  <2>1. req[c] \in Requests BY <1>4 DEF Validate, LockTypeOK
  <2>2. req[c].op \in Ops \ {"ValidateVolumeCapabilities"} BY <1>4, <2>1, RequestType DEF Validate
  <2>3. req[c].op = "ControllerExpandVolume" /\ Verdict(req[c]) = "OK" => req[c].id \in FsIds
    BY <2>1, VerdictType
  <2> QED BY <1>4, <2>2, <2>3 DEF Validate, FirstStep, Ops
<1>5. CASE DescribeSnapshot(c) BY <1>5 DEF DescribeSnapshot
<1>6. CASE CreateFileSystem(c) BY <1>6 DEF CreateFileSystem, Create
<1>7. CASE CreateVolume(c) BY <1>7 DEF CreateVolume, Create
<1>8. CASE GetVolumeId(c) BY <1>8 DEF GetVolumeId
<1>9. CASE CreateSnapshot(c) BY <1>9 DEF CreateSnapshot, Create
<1>10. CASE WaitForAvailable(c) BY <1>10 DEF WaitForAvailable, PollAgain
<1>11. CASE DescribeParent(c) BY <1>11 DEF DescribeParent
<1>12. CASE DescribeForDelete(c) BY <1>12 DEF DescribeForDelete
<1>13. CASE ListTags(c) BY <1>13 DEF ListTags
<1>14. CASE DeleteVolume(c) BY <1>14 DEF DeleteVolume
<1>15. CASE DeleteSnapshot(c) BY <1>15 DEF DeleteSnapshot
<1>16. CASE DescribeFileSystem(c) BY <1>16 DEF DescribeFileSystem
<1>17. CASE ResizeFileSystem(c) BY <1>17 DEF ResizeFileSystem
<1>18. CASE FindUpdate(c) BY <1>18 DEF FindUpdate
<1>19. CASE WaitForFileSystemResize(c) BY <1>19 DEF WaitForFileSystemResize, PollAgain
<1>20. CASE DescribeVolume(c) BY <1>20 DEF DescribeVolume
<1> QED
  BY <1>3, <1>4, <1>5, <1>6, <1>7, <1>8, <1>9, <1>10, <1>11, <1>12, <1>13, <1>14,
     <1>15, <1>16, <1>17, <1>18, <1>19, <1>20 DEF Handler

\* Every step keeps every goroutine at a step of the handler of its request.
LEMMA NextOp == LockTypeOK /\ StepMatchesOp /\ [Next]_vars => StepMatchesOp'
<1> SUFFICES ASSUME LockTypeOK, StepMatchesOp, [Next]_vars PROVE StepMatchesOp' OBVIOUS
<1>1. CASE UNCHANGED vars BY <1>1 DEF vars, ctlVars, callVars, StepMatchesOp
<1>2. ASSUME NEW c \in Calls, NEW r \in Requests, Call(c, r) PROVE StepMatchesOp'
  BY <1>2 DEF Call, LockTypeOK, StepMatchesOp
<1>3. ASSUME NEW c \in Calls, Handler(c) PROVE StepMatchesOp' BY <1>3, HandlerOp
<1>4. ASSUME NEW c \in Calls, Cancel(c) PROVE StepMatchesOp' BY <1>4 DEF Cancel, StepMatchesOp
<1>5. ASSUME NEW p \in Procs, Crash(p) PROVE StepMatchesOp' BY <1>5 DEF Crash, StepMatchesOp
<1>6. ASSUME NEW id \in Ids, ManualDelete(id) PROVE StepMatchesOp'
  BY <1>6 DEF ManualDelete, ctlVars, callVars, StepMatchesOp
<1>7. CASE FSxStep BY <1>7 DEF FSxStep, ctlVars, callVars, StepMatchesOp
<1> QED BY <1>1, <1>2, <1>3, <1>4, <1>5, <1>6, <1>7 DEF Next

-----------------------------------------------------------------------------
(* Type correctness.                                                       *)

\* What the handlers keep in local variables and answer with, and the history.
LocalTypeOK ==
    /\ canceled \in [Calls -> BOOLEAN]
    /\ rid \in [Calls -> STRING]
    /\ gib \in [Calls -> Nat]
    /\ polls \in [Calls -> 0 .. MaxPolls]
    /\ resp \in [Calls -> Responses]
    /\ owner \in [Ids -> Names \cup {NoToken}]

\* TypeOK is its parts together.
LEMMA TypeParts == TypeOK <=> FSxTypeOK /\ DisturbancesOK /\ LockTypeOK /\ LocalTypeOK
BY DEF TypeOK, DisturbancesOK, LockTypeOK, LocalTypeOK

\* The capacities a request asks for are natural numbers.
LEMMA CapacityType ==
    ASSUME NEW r \in Requests PROVE StorageCapacity(r) \in Nat /\ NewCapacity(r) \in Nat
<1>1. r.required \in Nat BY RequestType
<1> QED BY <1>1, BytesToGiBType DEF StorageCapacity, NewCapacity

\* The inputs of the three creates have their type.
LEMMA InputType ==
    ASSUME NEW r \in Requests, NEW source \in STRING
    PROVE  /\ FileSystemInput(r) \in Inputs /\ VolumeInput(r) \in Inputs
           /\ SnapshotInput(r, source) \in Inputs
           /\ FileSystemInput(r).kind = "filesystem" /\ VolumeInput(r).kind = "volume"
           /\ SnapshotInput(r, source).kind = "snapshot"
BY RequestType, CapacityType, IdType
   DEF FileSystemInput, VolumeInput, SnapshotInput, Input, ClientRequestToken, Inputs, Kinds

\* An answer with a code, an error, an id and a capacity keeps the types.
LEMMA AnswerType ==
    ASSUME LocalTypeOK, NEW c \in Calls, NEW code \in Codes,
           NEW err \in Errors \cup {"rejected"}, NEW id \in STRING, NEW bytes \in Nat,
           Answer(c, code, err, id, bytes), UNCHANGED owner
    PROVE  LocalTypeOK'
<1>1. [code |-> code, err |-> err, id |-> id, bytes |-> bytes] \in Responses BY DEF Responses
<1>2. resp' \in [Calls -> Responses] BY <1>1 DEF Answer, LocalTypeOK
<1>3. MaxPolls \in Nat BY CloudAssumption
<1> QED BY <1>2, <1>3, IdType DEF Answer, LocalTypeOK

\* A return, with its deferred Delete, keeps the types.
LEMMA ReturnType ==
    ASSUME LocalTypeOK, NEW c \in Calls, NEW code \in Codes,
           NEW err \in Errors \cup {"rejected"}, NEW id \in STRING, NEW bytes \in Nat,
           Return(c, code, err, id, bytes)
    PROVE  LocalTypeOK'
BY AnswerType DEF Return

\* Going on, or polling again, keeps the types.
LEMMA ContinueType ==
    ASSUME LocalTypeOK, NEW c \in Calls, NEW step, Continue(c, step)
    PROVE  LocalTypeOK'
BY DEF Continue, LocalTypeOK

LEMMA PollAgainType ==
    ASSUME LocalTypeOK, NEW c \in Calls, PollAgain(c)
    PROVE  LocalTypeOK'
<1>1. CASE polls[c] < MaxPolls
  <2>1. MaxPolls \in Nat BY CloudAssumption
  <2> QED BY <1>1, <2>1 DEF PollAgain, LocalTypeOK
<1>2. CASE ~(polls[c] < MaxPolls)
  BY <1>2, ReturnType, IdType DEF PollAgain, Codes, Errors
<1> QED BY <1>1, <1>2

\* The common part of the creates keeps the types, of FSx's resources too.
LEMMA CreateType ==
    ASSUME FSxTypeOK, DisturbancesOK, LocalTypeOK, NEW c \in Calls, req[c] \in Requests,
           NEW in \in Inputs, NEW known, Create(c, in, known)
    PROVE  FSxTypeOK' /\ DisturbancesOK' /\ LocalTypeOK'
<1>1. PICK err \in Errors, id \in Ids \cup {NoId} :
         /\ CreateResource(~canceled[c], known, in, err, id)
         /\ owner' = [i \in Ids |-> IF lifecycle[i] = "ABSENT" /\ lifecycle'[i] # "ABSENT"
                                    THEN req[c].name ELSE owner[i]]
         /\ IF err = "none"
            THEN /\ Goto(c, "waitAvailable")
                 /\ rid' = [rid EXCEPT ![c] = id]
                 /\ gib' = [gib EXCEPT ![c] =
                             IF id \in FsIds THEN capacity'[id] ELSE StorageCapacity(req[c])]
                 /\ UNCHANGED <<req, canceled, polls, resp, inFlight>>
            ELSE Answer(c, CreateCode(err), err, NoId, 0) /\ DeferredDelete(c)
  BY DEF Create
<1>2. FSxTypeOK' /\ DisturbancesOK' BY <1>1, CreateResourceStep
<1>3. owner' \in [Ids -> Names \cup {NoToken}] BY <1>1, RequestType DEF LocalTypeOK
<1>4. CASE err = "none"
  <2>1. capacity' \in [FsIds -> Nat] BY <1>2 DEF FSxTypeOK
  <2>2. StorageCapacity(req[c]) \in Nat BY CapacityType
  <2>3. gib' \in [Calls -> Nat] BY <1>1, <1>4, <2>1, <2>2 DEF LocalTypeOK
  <2>4. rid' \in [Calls -> STRING] BY <1>1, <1>4, IdType DEF LocalTypeOK
  <2> QED BY <1>1, <1>2, <1>3, <1>4, <2>3, <2>4 DEF LocalTypeOK
<1>5. CASE err # "none"
  <2>1. CreateCode(err) \in Codes BY DEF CreateCode, Codes
  <2>2. [code |-> CreateCode(err), err |-> err, id |-> NoId, bytes |-> 0] \in Responses
    BY <2>1, IdType DEF Responses
  <2>3. resp' \in [Calls -> Responses] BY <1>1, <1>5, <2>2 DEF Answer, LocalTypeOK
  <2>4. MaxPolls \in Nat BY CloudAssumption
  <2> QED BY <1>1, <1>2, <1>3, <1>5, <2>3, <2>4, IdType DEF Answer, LocalTypeOK
<1> QED BY <1>4, <1>5

\* A step of a handler keeps the types.
LEMMA HandlerType ==
    ASSUME TypeOK, StepMatchesOp, NEW c \in Calls, Handler(c)
    PROVE  FSxTypeOK' /\ DisturbancesOK' /\ LocalTypeOK'
<1>1. FSxTypeOK /\ DisturbancesOK /\ LockTypeOK /\ LocalTypeOK BY TypeParts
<1>2. req[c] \in Requests BY <1>1, HandlerLock DEF LockTypeOK
<1>3. rid[c] \in STRING /\ gib[c] \in Nat BY <1>1 DEF LocalTypeOK
<1>4. req[c].id \in STRING BY <1>2, RequestType
<1>5. ASSUME NEW code \in Codes, NEW err \in Errors \cup {"rejected"}, NEW id \in STRING,
             NEW bytes \in Nat, Return(c, code, err, id, bytes)
      PROVE  LocalTypeOK'
  BY <1>1, <1>5, ReturnType
<1>6. ASSUME NEW step, Continue(c, step) PROVE LocalTypeOK' BY <1>1, <1>6, ContinueType
<1>7. ASSUME PollAgain(c) PROVE LocalTypeOK' BY <1>1, <1>7, PollAgainType
<1>8. ASSUME UNCHANGED <<fsxVars, disturbances>> PROVE FSxTypeOK' /\ DisturbancesOK'
  BY <1>1, <1>8 DEF fsxVars, FSxTypeOK, DisturbancesOK
<1>9. ASSUME NEW live, NEW id, NEW err,
             getResource(live, id, err) \/ getTagsForResource(live, id, err)
      PROVE  FSxTypeOK' /\ DisturbancesOK'
  BY <1>1, <1>9, ReadStep
<1> USE IdType DEF Codes, Errors
<1>10. CASE Begin(c)
  <2>1. LocalTypeOK'
    BY <1>1, <1>6, <1>10, AnswerType DEF Begin, Goto, LocalTypeOK
  <2> QED BY <1>8, <1>10, <2>1 DEF Begin
<1>11. CASE Validate(c)
  <2>1. Verdict(req[c]) \in Codes BY <1>2, VerdictType
  <2> QED BY <1>5, <1>6, <1>8, <1>11, <2>1 DEF Validate
<1>12. CASE DescribeSnapshot(c) BY <1>5, <1>6, <1>9, <1>12 DEF DescribeSnapshot
<1>13. CASE CreateFileSystem(c) BY <1>1, <1>2, <1>13, CreateType, InputType DEF CreateFileSystem
<1>14. CASE CreateVolume(c) BY <1>1, <1>2, <1>14, CreateType, InputType DEF CreateVolume
<1>15. CASE CreateSnapshot(c)
  BY <1>1, <1>2, <1>3, <1>15, CreateType, InputType DEF CreateSnapshot
<1>16. CASE GetVolumeId(c)
  <2> DEFINE id == req[c].id
  <2>1. PICK err \in Errors, volumeId \in {id, NoId} \cup {RootVolume[f] : f \in FsIds} :
           /\ CASE id \in FsIds ->
                      \/ /\ getResource(~canceled[c], id, err)
                         /\ volumeId = IF err = "none" THEN RootVolume[id] ELSE NoId
                      \/ /\ getResource(~canceled[c], id, "none") /\ lifecycle[id] # "AVAILABLE"
                         /\ err = "NoRootVolume" /\ volumeId = NoId
                [] id \in VolIds -> /\ err = "none" /\ volumeId = id
                                   /\ UNCHANGED <<fsxVars, disturbances>>
                [] OTHER -> /\ err = "BadFormat" /\ volumeId = NoId
                            /\ UNCHANGED <<fsxVars, disturbances>>
           /\ IF err = "none"
              THEN /\ Goto(c, "createSnapshot")
                   /\ rid' = [rid EXCEPT ![c] = volumeId]
                   /\ UNCHANGED <<req, canceled, gib, polls, resp, inFlight, owner>>
              ELSE Return(c, "Internal", err, NoId, 0)
    BY <1>16 DEF GetVolumeId
  <2>2. volumeId \in STRING BY <1>4, <2>1, RootVolumeType
  <2>3. FSxTypeOK' /\ DisturbancesOK' BY <1>8, <1>9, <2>1
  <2>4. CASE err = "none" BY <1>1, <2>1, <2>2, <2>3, <2>4 DEF LocalTypeOK
  <2>5. CASE err # "none" BY <1>5, <2>1, <2>3, <2>5
  <2> QED BY <2>4, <2>5
<1>17. CASE WaitForAvailable(c)
  <2>1. GiBToBytes(gib[c]) \in Nat BY <1>3, GiBToBytesType
  <2> QED BY <1>3, <1>5, <1>6, <1>7, <1>9, <1>17, <2>1 DEF WaitForAvailable
<1>18. CASE DescribeParent(c)
  <2>1. GiBToBytes(gib[c]) \in Nat BY <1>3, GiBToBytesType
  <2> QED BY <1>3, <1>5, <1>9, <1>18, <2>1 DEF DescribeParent
<1>19. CASE DescribeForDelete(c) BY <1>5, <1>6, <1>9, <1>19 DEF DescribeForDelete
<1>20. CASE ListTags(c) BY <1>5, <1>6, <1>9, <1>20 DEF ListTags
<1>21. CASE DeleteVolume(c)
  BY <1>1, <1>5, <1>21, DeleteResourceStep DEF DeleteVolume, DeleteCode
<1>22. CASE DeleteSnapshot(c)
  BY <1>1, <1>5, <1>22, DeleteResourceStep DEF DeleteSnapshot, DeleteCode
<1>23. CASE DescribeFileSystem(c)
  <2>1. req[c].id \in FsIds BY <1>23 DEF DescribeFileSystem, StepMatchesOp
  <2>2. GiBToBytes(capacity[req[c].id]) \in Nat
    BY <1>1, <2>1, GiBToBytesType DEF FSxTypeOK
  <2> QED BY <1>4, <1>5, <1>6, <1>9, <1>23, <2>2 DEF DescribeFileSystem
<1>24. CASE ResizeFileSystem(c)
  BY <1>1, <1>2, <1>5, <1>6, <1>24, CapacityType, UpdateFileSystemStep DEF ResizeFileSystem
<1>25. CASE FindUpdate(c) BY <1>5, <1>6, <1>9, <1>25 DEF FindUpdate
<1>26. CASE WaitForFileSystemResize(c)
  <2> DEFINE condition == ResizeCondition(req[c].id, NewCapacity(req[c]))
  <2>1. condition \in {"NoSuchUpdate", "again", "done", "UpdateFailed"} BY DEF ResizeCondition
  <2>2. GiBToBytes(NewCapacity(req[c])) \in Nat BY <1>2, CapacityType, GiBToBytesType
  <2> HIDE DEF condition
  <2> QED BY <1>4, <1>5, <1>7, <1>9, <1>26, <2>1, <2>2 DEF WaitForFileSystemResize, condition
<1>27. CASE DescribeVolume(c)
  <2>1. PICK err \in Errors :
          /\ IF req[c].id \in FsIds \cup VolIds THEN getResource(~canceled[c], req[c].id, err)
             ELSE err = "ErrNotFound" /\ UNCHANGED <<fsxVars, disturbances>>
          /\ CASE err = "none" -> Answer(c, "OK", "none", req[c].id, 0)
               [] err = "ErrNotFound" -> Answer(c, "NotFound", err, NoId, 0)
               [] OTHER -> Answer(c, "Internal", err, NoId, 0)
          /\ UNCHANGED owner
    BY <1>27 DEF DescribeVolume
  <2>2. LocalTypeOK' BY <1>1, <1>4, <2>1, AnswerType
  <2> QED BY <1>8, <1>9, <2>1, <2>2
<1> QED
  BY <1>10, <1>11, <1>12, <1>13, <1>14, <1>15, <1>16, <1>17, <1>18, <1>19,
     <1>20, <1>21, <1>22, <1>23, <1>24, <1>25, <1>26, <1>27 DEF Handler

TypeInv == TypeOK /\ StepMatchesOp

\* The types and the order of the steps are kept by every step.
LEMMA NextType == TypeInv /\ [Next]_vars => TypeInv'
<1> SUFFICES ASSUME TypeOK, StepMatchesOp, [Next]_vars PROVE TypeOK' /\ StepMatchesOp'
  BY DEF TypeInv
<1>1. FSxTypeOK /\ DisturbancesOK /\ LockTypeOK /\ LocalTypeOK BY TypeParts
<1>2. StepMatchesOp' BY <1>1, NextOp
<1>3. LockTypeOK' BY <1>1, NextLockType
<1>4. FSxTypeOK' /\ DisturbancesOK' /\ LocalTypeOK'
  <2>1. CASE UNCHANGED vars
    BY <1>1, <2>1
       DEF vars, ctlVars, callVars, fsxVars, FSxTypeOK, DisturbancesOK, LocalTypeOK
  <2>2. ASSUME NEW c \in Calls, NEW r \in Requests, Call(c, r)
        PROVE  FSxTypeOK' /\ DisturbancesOK' /\ LocalTypeOK'
    <3>1. NoResp \in Responses BY IdType DEF NoResp, Responses, Codes, Errors
    <3> QED BY <1>1, <2>2, <3>1 DEF Call, fsxVars, FSxTypeOK, DisturbancesOK, LocalTypeOK
  <2>3. ASSUME NEW c \in Calls, Handler(c)
        PROVE  FSxTypeOK' /\ DisturbancesOK' /\ LocalTypeOK'
    BY <2>3, HandlerType
  <2>4. ASSUME NEW c \in Calls, Cancel(c)
        PROVE  FSxTypeOK' /\ DisturbancesOK' /\ LocalTypeOK'
    BY <1>1, <2>4, DisturbType DEF Cancel, fsxVars, FSxTypeOK, LocalTypeOK
  <2>5. ASSUME NEW p \in Procs, Crash(p)
        PROVE  FSxTypeOK' /\ DisturbancesOK' /\ LocalTypeOK'
    <3>1. NoResp \in Responses BY IdType DEF NoResp, Responses, Codes, Errors
    <3>2. MaxPolls \in Nat BY CloudAssumption
    <3>3. DisturbancesOK' BY <1>1, <2>5, DisturbType DEF Crash
    <3>4. FSxTypeOK' BY <1>1, <2>5 DEF Crash, fsxVars, FSxTypeOK
    <3>5. canceled' \in [Calls -> BOOLEAN] BY <1>1, <2>5 DEF Crash, LocalTypeOK
    <3>6. rid' \in [Calls -> STRING] BY <1>1, <2>5, IdType DEF Crash, LocalTypeOK
    <3>7. gib' \in [Calls -> Nat] BY <1>1, <2>5 DEF Crash, LocalTypeOK
    <3>8. polls' \in [Calls -> 0 .. MaxPolls] BY <1>1, <2>5, <3>2 DEF Crash, LocalTypeOK
    <3>9. resp' \in [Calls -> Responses] BY <1>1, <2>5, <3>1 DEF Crash, LocalTypeOK
    <3> QED BY <1>1, <2>5, <3>3, <3>4, <3>5, <3>6, <3>7, <3>8, <3>9 DEF Crash, LocalTypeOK
  <2>6. ASSUME NEW id \in Ids, ManualDelete(id)
        PROVE  FSxTypeOK' /\ DisturbancesOK' /\ LocalTypeOK'
    BY <1>1, <2>6, DisturbType, ApiDeleteType DEF ManualDelete, ctlVars, callVars, LocalTypeOK
  <2>7. CASE FSxStep
    BY <1>1, <2>7, FSxNextType DEF FSxStep, ctlVars, callVars, DisturbancesOK, LocalTypeOK
  <2> QED BY <2>1, <2>2, <2>3, <2>4, <2>5, <2>6, <2>7 DEF Next
<1> QED BY <1>2, <1>3, <1>4, TypeParts DEF TypeOK, DisturbancesOK, LockTypeOK, LocalTypeOK

\* The initial state has its type.
LEMMA InitType == Init => TypeInv
<1> SUFFICES ASSUME Init PROVE TypeOK /\ StepMatchesOp BY DEF TypeInv
<1>1. FSxTypeOK BY FSxInitType DEF Init
<1>2. DisturbancesOK BY CloudAssumption DEF Init, DisturbancesOK
<1>3. LockTypeOK BY InitLock
<1>4. LocalTypeOK
  <2>1. NoResp \in Responses BY IdType DEF NoResp, Responses, Codes, Errors
  <2>2. MaxPolls \in Nat BY CloudAssumption
  <2>3. \A id \in DOMAIN Preexisting : Preexisting[id].token \in Names \cup {NoToken}
    BY PreexistingType DEF Inputs
  <2>4. owner \in [Ids -> Names \cup {NoToken}] BY <2>3 DEF Init
  <2> QED BY <2>1, <2>2, <2>4, IdType DEF Init, LocalTypeOK
<1>5. StepMatchesOp BY DEF Init, StepMatchesOp
<1> QED BY <1>1, <1>2, <1>3, <1>4, <1>5, TypeParts

\* The types hold in every reachable state, with the order of the steps.
THEOREM TypeInvariance == Spec => []TypeInv
BY InitType, NextType, PTL DEF Spec

\* The state of the controller service and of FSx always has its type: no answer
\* without a status code, no capacity of anything but a file system, no poll
\* beyond its timeout.
THEOREM TypeCorrect == Spec => []TypeOK
<1>1. TypeInv => TypeOK BY DEF TypeInv
<1> QED BY <1>1, TypeInvariance, PTL

-----------------------------------------------------------------------------
(* The refinement of KeyedLock.  The argument rests on the exactness of    *)
(* the InFlight: a key is in it if and only if a goroutine of the process  *)
(* is between its Insert and its deferred Delete.                          *)

\* What KeyedLock sees of a goroutine: its phase and its key.
lockPhase == [c \in Calls |-> Phase(c)]
lockKey == [c \in Calls |-> IF pc[c] = "idle" THEN NoRequest ELSE KeyOf(req[c])]

\* No check before the first API request answers with Aborted.
LEMMA VerdictNotAborted == ASSUME NEW r \in Requests PROVE Verdict(r) # "Aborted"
<1> USE DEF Check, Codes
<1>1. ASSUME NEW checks, NEW n \in Nat, DOMAIN checks = 1 .. n,
             \A i \in 1 .. n : checks[i].code # "Aborted"
      PROVE  FirstFailure(checks) # "Aborted"
  <2> DEFINE failed == {i \in DOMAIN checks : checks[i].fails}
  <2>1. CASE failed = {} BY <2>1 DEF FirstFailure
  <2>2. CASE failed # {}
    <3>1. failed \subseteq Nat BY <1>1
    <3>2. Min(failed) \in failed BY <2>2, <3>1, MinExists
    <3>3. FirstFailure(checks) = checks[Min(failed)].code BY <2>2 DEF FirstFailure
    <3> QED BY <1>1, <3>2, <3>3
  <2> QED BY <2>1, <2>2
<1>2. FirstFailure(CreateVolumeChecks(r)) # "Aborted"
  <2> DEFINE checks == CreateVolumeChecks(r)
  <2>1. DOMAIN checks = 1 .. 12 BY DEF CreateVolumeChecks
  <2>2. \A i \in 1 .. 12 : checks[i].code # "Aborted" BY DEF CreateVolumeChecks
  <2> HIDE DEF checks
  <2>3. FirstFailure(checks) # "Aborted" BY <1>1, <2>1, <2>2
  <2> QED BY <2>3 DEF checks
<1>3. FirstFailure(CreateSnapshotChecks(r)) # "Aborted"
  <2> DEFINE checks == CreateSnapshotChecks(r)
  <2>1. DOMAIN checks = 1 .. 2 BY DEF CreateSnapshotChecks
  <2>2. \A i \in 1 .. 2 : checks[i].code # "Aborted" BY DEF CreateSnapshotChecks
  <2> HIDE DEF checks
  <2>3. FirstFailure(checks) # "Aborted" BY <1>1, <2>1, <2>2
  <2> QED BY <2>3 DEF checks
<1>4. FirstFailure(ControllerExpandVolumeChecks(r)) # "Aborted"
  <2> DEFINE checks == ControllerExpandVolumeChecks(r)
  <2>1. DOMAIN checks = 1 .. 5 BY DEF ControllerExpandVolumeChecks
  <2>2. \A i \in 1 .. 5 : checks[i].code # "Aborted" BY DEF ControllerExpandVolumeChecks
  <2> HIDE DEF checks
  <2>3. FirstFailure(checks) # "Aborted" BY <1>1, <2>1, <2>2
  <2> QED BY <2>3 DEF checks
<1> QED BY <1>2, <1>3, <1>4 DEF Verdict

RespTyped == resp \in [Calls -> Responses]

\* Only the step after the Insert failed answers with Aborted: every other step
\* of a handler goes on or is over, and answers for nobody else.
LEMMA LaterPhase ==
    ASSUME LockTypeOK, RespTyped, NEW c \in Calls, Handler(c), ~Begin(c)
    PROVE  /\ Phase(c) \in {"granted", "asked"} /\ Phase(c)' \in {Phase(c), "over"}
           /\ \A d \in Calls \ {c} : resp'[d] = resp[d]
<1>1. pc \in [Calls -> PCs] /\ resp \in [Calls -> Responses] BY DEF LockTypeOK, RespTyped
<1> USE <1>1 DEF Phase, Goto, Return, Answer, Continue
<1>2. CASE Validate(c)
  <2>1. req[c] \in Requests BY <1>2 DEF Validate, LockTypeOK
  <2>2. Verdict(req[c]) # "Aborted" BY <2>1, VerdictNotAborted
  <2> QED BY <1>2, <2>2 DEF Validate, FirstStep
<1>3. CASE DescribeSnapshot(c) BY <1>3 DEF DescribeSnapshot
<1>4. CASE CreateFileSystem(c) BY <1>4 DEF CreateFileSystem, Create, CreateCode
<1>5. CASE CreateVolume(c) BY <1>5 DEF CreateVolume, Create, CreateCode
<1>6. CASE GetVolumeId(c) BY <1>6 DEF GetVolumeId
<1>7. CASE CreateSnapshot(c) BY <1>7 DEF CreateSnapshot, Create, CreateCode
<1>8. CASE WaitForAvailable(c) BY <1>8 DEF WaitForAvailable, PollAgain
<1>9. CASE DescribeParent(c) BY <1>9 DEF DescribeParent
<1>10. CASE DescribeForDelete(c) BY <1>10 DEF DescribeForDelete
<1>11. CASE ListTags(c) BY <1>11 DEF ListTags
<1>12. CASE DeleteVolume(c) BY <1>12 DEF DeleteVolume, DeleteCode
<1>13. CASE DeleteSnapshot(c) BY <1>13 DEF DeleteSnapshot, DeleteCode
<1>14. CASE DescribeFileSystem(c) BY <1>14 DEF DescribeFileSystem
<1>15. CASE ResizeFileSystem(c) BY <1>15 DEF ResizeFileSystem
<1>16. CASE FindUpdate(c) BY <1>16 DEF FindUpdate
<1>17. CASE WaitForFileSystemResize(c) BY <1>17 DEF WaitForFileSystemResize, PollAgain
<1>18. CASE DescribeVolume(c) BY <1>18 DEF DescribeVolume
<1> QED
  BY <1>2, <1>3, <1>4, <1>5, <1>6, <1>7, <1>8, <1>9, <1>10, <1>11, <1>12, <1>13,
     <1>14, <1>15, <1>16, <1>17, <1>18 DEF Handler

\* A step that only moves goroutine c, from one phase to another, is a Become.
LEMMA BecomeStep ==
    ASSUME NEW c \in Calls, req' = req, pc[c] # "idle", pc'[c] # "idle",
           \A d \in Calls \ {c} : pc'[d] = pc[d] /\ resp'[d] = resp[d]
    PROVE  Lock!Become(c, Phase(c), Phase(c)')
<1>1. lockPhase' = [lockPhase EXCEPT ![c] = Phase(c)'] BY DEF lockPhase, Phase
<1>2. lockKey' = lockKey BY DEF lockKey
<1> QED BY <1>1, <1>2 DEF Lock!Become, lockPhase, lockKey

\* Another goroutine of the process works under the key of c exactly when the key
\* is in the InFlight of the process.
LEMMA BusyExact ==
    ASSUME LockTypeOK, LockInv, NEW c \in Calls, pc[c] = "received"
    PROVE  Lock!Busy(c) <=> KeyOf(req[c]) \in inFlight[ProcOf[c]]
<1>1. \A d \in Calls : Phase(d) = "granted" <=> Holding(d) BY DEF Phase, Holding
<1>2. ~Holding(c) BY DEF Holding
<1>3. \A d \in Calls : Holding(d) => KeyOf(req[d]) \in inFlight[ProcOf[d]] /\ pc[d] # "idle"
  BY DEF LockInv, KeysHeld, Holding
<1>4. \A k \in inFlight[ProcOf[c]] :
         \E d \in Calls : Holding(d) /\ ProcOf[d] = ProcOf[c] /\ KeyOf(req[d]) = k
  BY ProcType DEF LockInv, KeysOwned
<1>5. Lock!Busy(c) <=> \E d \in Calls : /\ d # c /\ ProcOf[d] = ProcOf[c]
                                        /\ Holding(d) /\ KeyOf(req[d]) = KeyOf(req[c])
  BY <1>1, <1>3 DEF Lock!Busy, Lock!Working
<1> QED BY <1>2, <1>3, <1>4, <1>5

\* Every step of a handler is a step of KeyedLock or changes nothing in it.
LEMMA HandlerRefines ==
    ASSUME LockTypeOK, RespTyped, LockInv, NEW c \in Calls, Handler(c)
    PROVE  Lock!Next \/ UNCHANGED Lock!lockVars
<1>1. /\ req' = req /\ pc[c] # "idle" /\ pc'[c] # "idle"
      /\ \A d \in Calls \ {c} : pc'[d] = pc[d]
  BY HandlerLock
<1>2. pc \in [Calls -> PCs] /\ resp \in [Calls -> Responses] BY DEF LockTypeOK, RespTyped
<1>3. ASSUME \A d \in Calls \ {c} : resp'[d] = resp[d], Phase(c)' = Phase(c)
      PROVE  UNCHANGED Lock!lockVars
  <2>1. lockPhase' = lockPhase /\ lockKey' = lockKey
    BY <1>1, <1>3 DEF lockPhase, lockKey, Phase
  <2> QED BY <2>1 DEF Lock!lockVars, lockPhase, lockKey
<1>4. CASE Begin(c)
  <2>1. \A d \in Calls \ {c} : resp'[d] = resp[d]
    BY <1>2, <1>4 DEF Begin, Answer, Continue
  <2>2. Phase(c) = "asked" BY <1>4 DEF Begin, Phase
  <2>3. Lock!Become(c, "asked", Phase(c)') BY <1>1, <2>1, <2>2, BecomeStep
  <2>4. \/ Phase(c)' \in {"over", "asked"}
        \/ Phase(c)' = "refused" /\ KeyOf(req[c]) \in inFlight[ProcOf[c]]
        \/ Phase(c)' = "granted" /\ KeyOf(req[c]) \notin inFlight[ProcOf[c]]
    BY <1>2, <1>4 DEF Begin, Answer, Continue, Goto, Phase, CanInsert
  <2>5. Lock!Busy(c) <=> KeyOf(req[c]) \in inFlight[ProcOf[c]] BY <1>4, BusyExact DEF Begin
  <2>6. CASE Phase(c)' = "asked" BY <1>3, <2>1, <2>2, <2>6
  <2>7. CASE Phase(c)' # "asked"
    <3>1. Lock!Reject(c) \/ Lock!Refuse(c) \/ Lock!Grant(c)
      BY <2>3, <2>4, <2>5, <2>7 DEF Lock!Reject, Lock!Refuse, Lock!Grant
    <3> QED BY <3>1 DEF Lock!Next
  <2> QED BY <2>6, <2>7
<1>5. CASE ~Begin(c)
  <2>1. /\ Phase(c) \in {"granted", "asked"} /\ Phase(c)' \in {Phase(c), "over"}
        /\ \A d \in Calls \ {c} : resp'[d] = resp[d]
    BY <1>5, LaterPhase
  <2>2. Lock!Become(c, Phase(c), Phase(c)') BY <1>1, <2>1, BecomeStep
  <2>3. CASE Phase(c)' = Phase(c) BY <1>3, <2>1, <2>3
  <2>4. CASE Phase(c)' = "over"
    <3>1. Lock!Finish(c) \/ Lock!Reject(c) BY <2>1, <2>2, <2>4 DEF Lock!Finish, Lock!Reject
    <3> QED BY <3>1 DEF Lock!Next
  <2> QED BY <2>1, <2>3, <2>4
<1> QED BY <1>4, <1>5

\* Every step of the system is a step of KeyedLock or changes nothing in it.
LEMMA NextRefines ==
    ASSUME LockTypeOK, RespTyped, LockInv, [Next]_vars
    PROVE  Lock!Next \/ UNCHANGED Lock!lockVars
<1>1. /\ pc \in [Calls -> PCs] /\ req \in [Calls -> Requests \cup {NoRequest}]
      /\ resp \in [Calls -> Responses]
  BY DEF LockTypeOK, RespTyped
<1>2. ASSUME UNCHANGED <<pc, req, resp>> PROVE UNCHANGED Lock!lockVars
  <2>1. lockPhase' = lockPhase BY <1>2 DEF lockPhase, Phase
  <2>2. lockKey' = lockKey BY <1>2 DEF lockKey
  <2> QED BY <2>1, <2>2 DEF Lock!lockVars, lockPhase, lockKey
<1>3. CASE UNCHANGED vars BY <1>2, <1>3 DEF vars, ctlVars, callVars
<1>4. ASSUME NEW c \in Calls, NEW r \in Requests, Call(c, r) PROVE Lock!Next
  <2>1. Phase(c) \notin {"asked", "granted"} BY <1>4 DEF Call, Phase
  <2>2. lockPhase' = [lockPhase EXCEPT ![c] = "asked"]
    BY <1>1, <1>4 DEF Call, lockPhase, Phase
  <2>3. lockKey' = [lockKey EXCEPT ![c] = KeyOf(r)]
    BY <1>1, <1>4 DEF Call, lockKey
  <2>4. Lock!Ask(c, KeyOf(r)) BY <2>1, <2>2, <2>3 DEF Lock!Ask, lockPhase, lockKey
  <2> QED BY <2>4 DEF Lock!Next
<1>5. ASSUME NEW c \in Calls, Handler(c) PROVE Lock!Next \/ UNCHANGED Lock!lockVars
  BY <1>5, HandlerRefines
<1>6. ASSUME NEW c \in Calls, Cancel(c) PROVE UNCHANGED Lock!lockVars
  BY <1>2, <1>6 DEF Cancel
<1>7. ASSUME NEW p \in Procs, Crash(p) PROVE Lock!Next
  <2>1. lockPhase' = [c \in Calls |-> IF ProcOf[c] = p THEN "idle" ELSE lockPhase[c]]
    BY <1>7 DEF Crash, lockPhase, Phase
  <2>2. lockKey' = [c \in Calls |-> IF ProcOf[c] = p THEN NoRequest ELSE lockKey[c]]
    BY <1>7 DEF Crash, lockKey
  <2>3. Lock!Die(p) BY <2>1, <2>2 DEF Lock!Die, lockPhase, lockKey
  <2> QED BY <2>3 DEF Lock!Next
<1>8. ASSUME NEW id \in Ids, ManualDelete(id) PROVE UNCHANGED Lock!lockVars
  BY <1>2, <1>8 DEF ManualDelete, ctlVars, callVars
<1>9. CASE FSxStep BY <1>2, <1>9 DEF FSxStep, ctlVars, callVars
<1> QED BY <1>3, <1>4, <1>5, <1>6, <1>7, <1>8, <1>9 DEF Next

\* The controller service implements KeyedLock: in every process a key is granted
\* exactly when no request under it is being served, whatever path the handlers
\* take, whatever FSx answers and whenever a replica dies.
THEOREM LockRefinement == Spec => ImplementsKeyedLock
<1>1. Init => Lock!Init BY DEF Init, Lock!Init, Phase
<1>2. LockTypeOK /\ RespTyped /\ LockInv /\ [Next]_vars => [Lock!Next]_(Lock!lockVars)
  BY NextRefines
<1>3. TypeInv => RespTyped BY DEF TypeInv, TypeOK, RespTyped
<1> QED
  BY <1>1, <1>2, <1>3, LockInvariance, TypeInvariance, PTL
     DEF Spec, ImplementsKeyedLock, Lock!Spec

=============================================================================
