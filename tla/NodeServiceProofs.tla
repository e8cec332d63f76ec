------------------------- MODULE NodeServiceProofs -------------------------
(***************************************************************************)
(* The invariants of NodeService, proved for every set of goroutines,      *)
(* target paths and requests, and for every bound.                         *)
(***************************************************************************)
EXTENDS NodeService, TLAPS

-----------------------------------------------------------------------------
(* The inductive invariant.                                                *)

\* A goroutine that holds a key serves a request with a volume and a path.
HoldersAreProper ==
    \A c \in Calls : Holding(c) => req[c].volumeId # "" /\ req[c].target \in Targets

\* No two goroutines that hold a key work on the same path.
PathExclusion ==
    \A c, d \in Calls :
        c # d /\ Holding(c) /\ Holding(d) => req[c].target # req[d].target

\* A goroutine is at a step of the handler of its own request.
StepMatchesOp ==
    \A c \in Calls :
        /\ pc[c] \in {"context", "makeDir", "isMounted", "pathExists",
                     "unmountCorrupted", "mount"} => req[c].op = "NodePublishVolume"
        /\ pc[c] \in {"check", "unmount", "removeAll"} => req[c].op = "NodeUnpublishVolume"

\* Nothing has been promised about a path that is being worked on.
NoPromiseWhileHeld ==
    \A c \in Calls : Holding(c) => promise[req[c].target] = "none"

\* What is mounted where.
MountsAreProper ==
    \A t \in Targets : /\ stack[t] <= 1
                       /\ stack[t] > 0 => t \in dir
                       /\ t \in stale => stack[t] > 0

\* The steps that must not meet a mount.
UnmountedAtStep ==
    \A c \in Calls : pc[c] \in {"mount", "removeAll"} => stack[req[c].target] = 0

\* A path whose mount always answers has no mount once it is unpublished.
HealthyUnpublish == stale \subseteq MayGoStale /\ UnpublishedIsUnmounted

-----------------------------------------------------------------------------
(* Type correctness.                                                       *)

\* The two halves of TypeOK: what the goroutines keep, and what they work on.
CallTypeOK ==
    /\ pc \in [Calls -> PCs]
    /\ req \in [Calls -> Requests \cup {NoRequest}]
    /\ \A c \in Calls : pc[c] # "idle" => req[c] \in Requests
    /\ code \in [Calls -> Codes]
    /\ inFlight \subseteq STRING \X Targets
    /\ promise \in [Targets -> {"none", "published", "unpublished"}]

MountTypeOK ==
    /\ dir \subseteq Targets
    /\ stack \in [Targets -> Nat]
    /\ stale \subseteq Targets
    /\ disturbances \in 0 .. MaxDisturbances

\* TypeOK is its two halves together.
LEMMA TypeHalves == TypeOK <=> CallTypeOK /\ MountTypeOK
BY DEF TypeOK, CallTypeOK, MountTypeOK

\* The bound is a natural number.
LEMMA BoundType == MaxDisturbances \in Nat
BY NodeAssumption

\* What the assumptions say of the fields of one request.
LEMMA RequestType ==
    ASSUME NEW r \in Requests
    PROVE  /\ r.volumeId \in STRING /\ r.target \in Targets \cup {""}
           /\ r.op \in {"NodePublishVolume", "NodeUnpublishVolume"}
BY NodeAssumption DEF NodeRequests

\* Going on to another step keeps the types of the goroutine's half.
LEMMA GotoType ==
    ASSUME CallTypeOK, NEW c \in Calls, pc[c] # "idle", NEW step \in PCs, Goto(c, step)
    PROVE  CallTypeOK'
BY DEF CallTypeOK, Goto

\* Returning, with the deferred Delete, keeps the types of the goroutine's half.
LEMMA ReturnType ==
    ASSUME CallTypeOK, NEW c \in Calls, pc[c] # "idle", NEW answer \in Codes, Return(c, answer)
    PROVE  CallTypeOK'
BY DEF CallTypeOK, Return, Delete, PCs

\* A disturbance stays within its bound.
LEMMA DisturbType ==
    ASSUME disturbances \in 0 .. MaxDisturbances, Disturb
    PROVE  disturbances' \in 0 .. MaxDisturbances
BY BoundType DEF Disturb

\* newNodeService starts in a state of the right types.
LEMMA InitType == Init => TypeOK
BY BoundType DEF Init, TypeOK, PCs, Codes, NewInFlight

\* No step of a handler puts a mount or a directory on anything but a target path.
LEMMA HandlerMountType ==
    ASSUME TypeOK, HoldersAreProper, NEW c \in Calls, Handler(c)
    PROVE  MountTypeOK'
<1> USE TypeHalves, DisturbType DEF MountTypeOK, mountVars
<1>1. CASE Begin(c) BY <1>1 DEF Begin, Refuse
<1>2. CASE CheckContext(c) BY <1>2 DEF CheckContext
<1>3. CASE MakeDir(c)
  <2>1. req[c].target \in Targets BY <1>3 DEF MakeDir, HoldersAreProper, Holding
  <2> QED BY <1>3, <2>1 DEF MakeDir
<1>4. CASE IsMounted(c) BY <1>4 DEF IsMounted
<1>5. CASE PathExists(c) BY <1>5 DEF PathExists
<1>6. CASE UnmountCorrupted(c) BY <1>6 DEF UnmountCorrupted, Unmounted
<1>7. CASE Mount(c) BY <1>7 DEF Mount
<1>8. CASE CheckMounted(c) BY <1>8 DEF CheckMounted
<1>9. CASE Unmount(c) BY <1>9 DEF Unmount, Unmounted
<1>10. CASE RemoveAll(c) BY <1>10 DEF RemoveAll
<1> QED BY <1>1, <1>2, <1>3, <1>4, <1>5, <1>6, <1>7, <1>8, <1>9, <1>10 DEF Handler

\* No step of a handler breaks the types of what the goroutines keep.
LEMMA HandlerCallType ==
    ASSUME TypeOK, NEW c \in Calls, Handler(c)
    PROVE  CallTypeOK'
<1>a. CallTypeOK BY TypeHalves
<1> USE <1>a, GotoType, ReturnType DEF PCs, Codes
<1>1. CASE Begin(c)
  <2>1. req[c] \in Requests BY <1>1 DEF Begin, CallTypeOK
  <2>2. ~MissingArgument(req[c]) => KeyOf(req[c]) \in STRING \X Targets
    BY <2>1, RequestType DEF MissingArgument, KeyOf
  <2> QED BY <1>1, <2>1, <2>2 DEF Begin, Refuse, Insert, CallTypeOK
<1>2. CASE CheckContext(c) BY <1>2 DEF CheckContext
<1>3. CASE MakeDir(c) BY <1>3 DEF MakeDir
<1>4. CASE IsMounted(c) BY <1>4 DEF IsMounted
<1>5. CASE PathExists(c) BY <1>5 DEF PathExists
<1>6. CASE UnmountCorrupted(c) BY <1>6 DEF UnmountCorrupted
<1>7. CASE Mount(c) BY <1>7 DEF Mount
<1>8. CASE CheckMounted(c) BY <1>8 DEF CheckMounted
<1>9. CASE Unmount(c) BY <1>9 DEF Unmount
<1>10. CASE RemoveAll(c) BY <1>10 DEF RemoveAll
<1> QED BY <1>1, <1>2, <1>3, <1>4, <1>5, <1>6, <1>7, <1>8, <1>9, <1>10 DEF Handler

-----------------------------------------------------------------------------
(* What a step does to the InFlight: nothing, or it takes or gives up the  *)
(* key of its own request.                                                 *)

Took(c) == /\ ~Holding(c) /\ Holding(c)'
           /\ KeyOf(req[c]) \notin inFlight /\ inFlight' = inFlight \cup {KeyOf(req[c])}
           /\ ~MissingArgument(req[c])
GaveUp(c) == /\ Holding(c) /\ ~Holding(c)'
             /\ inFlight' = inFlight \ {KeyOf(req[c])}
Kept(c) == /\ Holding(c)' = Holding(c)
           /\ inFlight' = inFlight

\* Every step of a handler takes the key of its own request, gives it up, or
\* leaves the InFlight alone, and moves no other goroutine.
LEMMA HandlerLock ==
    ASSUME TypeOK, NEW c \in Calls, Handler(c)
    PROVE  /\ req' = req /\ pc[c] # "idle" /\ pc'[c] # "idle"
           /\ \A d \in Calls \ {c} : pc'[d] = pc[d]
           /\ Took(c) \/ GaveUp(c) \/ Kept(c)
<1>1. pc \in [Calls -> PCs] BY DEF TypeOK
<1> USE <1>1 DEF Goto, Return, Refuse, Holding, Took, GaveUp, Kept, Delete
<1>2. CASE Begin(c) BY <1>2 DEF Begin, CanInsert, Insert
<1>3. CASE CheckContext(c) BY <1>3 DEF CheckContext
<1>4. CASE MakeDir(c) BY <1>4 DEF MakeDir
<1>5. CASE IsMounted(c) BY <1>5 DEF IsMounted
<1>6. CASE PathExists(c) BY <1>6 DEF PathExists
<1>7. CASE UnmountCorrupted(c) BY <1>7 DEF UnmountCorrupted
<1>8. CASE Mount(c) BY <1>8 DEF Mount
<1>9. CASE CheckMounted(c) BY <1>9 DEF CheckMounted
<1>10. CASE Unmount(c) BY <1>10 DEF Unmount
<1>11. CASE RemoveAll(c) BY <1>11 DEF RemoveAll
<1> QED BY <1>2, <1>3, <1>4, <1>5, <1>6, <1>7, <1>8, <1>9, <1>10, <1>11 DEF Handler

TypeInv == TypeOK /\ HoldersAreProper

\* The types are kept by every step, with the argument checks that come before
\* the Insert: nobody holds a key with an empty volume id or path.
LEMMA NextType == TypeInv /\ [Next]_vars => TypeInv'
<1> SUFFICES ASSUME TypeOK, HoldersAreProper, [Next]_vars
             PROVE  TypeOK' /\ HoldersAreProper'
  BY DEF TypeInv
<1>1. CASE UNCHANGED vars
  BY <1>1 DEF vars, callVars, mountVars, TypeOK, HoldersAreProper, Holding
<1>2. ASSUME NEW c \in Calls, NEW r \in Requests, Call(c, r)
      PROVE  TypeOK' /\ HoldersAreProper'
  <2>1. TypeOK' BY <1>2 DEF Call, mountVars, TypeOK, PCs, Codes
  <2>2. HoldersAreProper' BY <1>2 DEF Call, TypeOK, HoldersAreProper, Holding
  <2> QED BY <2>1, <2>2
<1>3. ASSUME NEW c \in Calls, Handler(c) PROVE TypeOK' /\ HoldersAreProper'
  <2>1. MountTypeOK' BY <1>3, HandlerMountType
  <2>2. CallTypeOK' BY <1>3, HandlerCallType
  <2>3. TypeOK' BY <2>1, <2>2 DEF TypeOK, CallTypeOK, MountTypeOK
  <2>4. HoldersAreProper'
    <3>1. ASSUME NEW d \in Calls, Holding(d)'
          PROVE  req'[d].volumeId # "" /\ req'[d].target \in Targets
      <4>1. req' = req BY <1>3, HandlerLock
      <4>2. CASE Holding(d) BY <4>1, <4>2 DEF HoldersAreProper
      <4>3. CASE ~Holding(d)
        <5>1. d = c /\ Took(c) BY <1>3, <3>1, <4>3, HandlerLock DEF Holding, GaveUp, Kept
        <5>2. req[c] \in Requests
          BY <2>3, <3>1, <4>1, <5>1 DEF TypeOK, Holding
        <5> QED BY <4>1, <5>1, <5>2, RequestType DEF Took, MissingArgument
      <4> QED BY <4>2, <4>3
    <3> QED BY <3>1 DEF HoldersAreProper
  <2> QED BY <2>3, <2>4
<1>4. ASSUME NEW t \in Targets, GoStale(t) \/ Recover(t) PROVE TypeOK' /\ HoldersAreProper'
  BY <1>4, DisturbType DEF GoStale, Recover, callVars, TypeOK, HoldersAreProper, Holding
<1>5. CASE Crash
  <2>1. TypeOK' BY <1>5, DisturbType DEF Crash, NewInFlight, mountVars, TypeOK, PCs, Codes
  <2>2. HoldersAreProper' BY <1>5 DEF Crash, HoldersAreProper, Holding
  <2> QED BY <2>1, <2>2
<1> QED BY <1>1, <1>2, <1>3, <1>4, <1>5 DEF Next

-----------------------------------------------------------------------------
(* The keys.                                                               *)

KeysHeld == \A c \in Calls : Holding(c) => KeyOf(req[c]) \in inFlight

KeysOwned == \A k \in inFlight : \E c \in Calls : Holding(c) /\ KeyOf(req[c]) = k

KeyExclusion ==
    \A c, d \in Calls : c # d /\ Holding(c) /\ Holding(d) => KeyOf(req[c]) # KeyOf(req[d])

LockInv == KeysHeld /\ KeysOwned /\ KeyExclusion

\* The three facts about keys make the InFlight exact.
LEMMA LockExact == LockInv => InFlightExact
BY DEF LockInv, KeysHeld, KeysOwned, InFlightExact

\* The InFlight of a new process is empty and nobody holds a key.
LEMMA InitLock == Init => LockInv
BY DEF Init, LockInv, KeysHeld, KeysOwned, KeyExclusion, Holding, NewInFlight

\* Every step keeps the InFlight exact and the holders of keys apart.
LEMMA NextLock == TypeOK /\ LockInv /\ [Next]_vars => LockInv'
<1> SUFFICES ASSUME TypeOK, LockInv, [Next]_vars PROVE LockInv' OBVIOUS
<1> USE DEF LockInv, KeysHeld, KeysOwned, KeyExclusion
<1>1. CASE UNCHANGED vars BY <1>1 DEF vars, callVars, Holding
<1>2. ASSUME NEW c \in Calls, NEW r \in Requests, Call(c, r) PROVE LockInv'
  BY <1>2 DEF Call, Holding, TypeOK
<1>3. ASSUME NEW c \in Calls, Handler(c) PROVE LockInv'
  <2>1. req' = req BY <1>3, HandlerLock
  <2>2. \A d \in Calls \ {c} : Holding(d)' = Holding(d) BY <1>3, HandlerLock DEF Holding
  <2>3. CASE Took(c) BY <2>1, <2>2, <2>3 DEF Took
  <2>4. CASE GaveUp(c) BY <2>1, <2>2, <2>4 DEF GaveUp
  <2>5. CASE Kept(c) BY <2>1, <2>2, <2>5 DEF Kept
  <2> QED BY <1>3, <2>3, <2>4, <2>5, HandlerLock
<1>4. ASSUME NEW t \in Targets, GoStale(t) \/ Recover(t) PROVE LockInv'
  BY <1>4 DEF GoStale, Recover, callVars, Holding
<1>5. CASE Crash BY <1>5 DEF Crash, NewInFlight, Holding
<1> QED BY <1>1, <1>2, <1>3, <1>4, <1>5 DEF Next

\* Different keys are different target paths: a path belongs to one volume.
LEMMA LockPaths ==
    TypeOK /\ HoldersAreProper /\ LockInv => PathExclusion
<1> SUFFICES ASSUME TypeOK, HoldersAreProper, LockInv,
                    NEW c \in Calls, NEW d \in Calls, c # d, Holding(c), Holding(d)
             PROVE  req[c].target # req[d].target
  BY DEF PathExclusion
<1>1. req[c] \in Requests /\ req[d] \in Requests BY DEF TypeOK, Holding
<1>2. req[c].volumeId # "" /\ req[d].volumeId # "" BY DEF HoldersAreProper
<1>3. KeyOf(req[c]) # KeyOf(req[d]) BY DEF LockInv, KeyExclusion
<1>4. \A r, s \in Requests : r.target = s.target /\ r.volumeId # "" /\ s.volumeId # ""
                                => r.volumeId = s.volumeId
  BY NodeAssumption
<1> QED BY <1>1, <1>2, <1>3, <1>4 DEF KeyOf

-----------------------------------------------------------------------------
(* The mounts.                                                             *)

MountInv ==
    /\ StepMatchesOp /\ NoPromiseWhileHeld /\ MountsAreProper /\ UnmountedAtStep
    /\ PublishedIsMounted /\ HealthyUnpublish

\* Nothing is mounted and nothing is promised on a new node.
LEMMA InitMount == Init => MountInv
BY DEF Init, MountInv, StepMatchesOp, NoPromiseWhileHeld, MountsAreProper, UnmountedAtStep,
    PublishedIsMounted, HealthyUnpublish, UnpublishedIsUnmounted, Holding

\* A handler stays with the steps of its own request.
LEMMA HandlerOp ==
    ASSUME TypeOK, StepMatchesOp, NEW c \in Calls, Handler(c)
    PROVE  StepMatchesOp'
<1>1. req' = req /\ \A d \in Calls \ {c} : pc'[d] = pc[d] BY HandlerLock
<1>2. pc \in [Calls -> PCs] BY DEF TypeOK
<1> USE <1>1, <1>2 DEF StepMatchesOp, Goto, Return, Refuse
<1>3. CASE Begin(c)
  <2>1. req[c].op \in {"NodePublishVolume", "NodeUnpublishVolume"}
    BY <1>3, RequestType DEF Begin, TypeOK
  <2> QED BY <1>3, <2>1 DEF Begin
<1>4. CASE CheckContext(c) BY <1>4 DEF CheckContext
<1>5. CASE MakeDir(c) BY <1>5 DEF MakeDir
<1>6. CASE IsMounted(c) BY <1>6 DEF IsMounted
<1>7. CASE PathExists(c) BY <1>7 DEF PathExists
<1>8. CASE UnmountCorrupted(c) BY <1>8 DEF UnmountCorrupted
<1>9. CASE Mount(c) BY <1>9 DEF Mount
<1>10. CASE CheckMounted(c) BY <1>10 DEF CheckMounted
<1>11. CASE Unmount(c) BY <1>11 DEF Unmount
<1>12. CASE RemoveAll(c) BY <1>12 DEF RemoveAll
<1> QED BY <1>3, <1>4, <1>5, <1>6, <1>7, <1>8, <1>9, <1>10, <1>11, <1>12 DEF Handler

\* Every step of a handler keeps the facts about mounts and answers: the other
\* goroutines that hold a key work on other paths.
LEMMA HandlerMount ==
    ASSUME TypeOK, HoldersAreProper, PathExclusion, MountInv, NEW c \in Calls, Handler(c)
    PROVE  MountInv'
<1> DEFINE t == req[c].target
<1>1. req' = req /\ \A d \in Calls \ {c} : pc'[d] = pc[d] BY HandlerLock
<1>2. \A d \in Calls \ {c} : Holding(c) /\ Holding(d) => req[d].target # t
  BY DEF PathExclusion
<1>3. \A d \in Calls : Holding(d) => req[d].target \in Targets BY DEF HoldersAreProper
<1>4. /\ pc \in [Calls -> PCs] /\ stack \in [Targets -> Nat]
      /\ promise \in [Targets -> {"none", "published", "unpublished"}]
  BY DEF TypeOK
<1>5. StepMatchesOp' BY HandlerOp DEF MountInv
<1> USE <1>1, <1>2, <1>3, <1>4, <1>5 DEF MountInv, NoPromiseWhileHeld, MountsAreProper,
      UnmountedAtStep, PublishedIsMounted, HealthyUnpublish, UnpublishedIsUnmounted,
      Holding, Goto, Return, Refuse, mountVars
<1>6. CASE Begin(c)
  <2>1. ~MissingArgument(req[c]) => t \in Targets
    BY <1>6, RequestType DEF Begin, TypeOK, MissingArgument
  <2>2. NoPromiseWhileHeld' BY <1>6, <2>1 DEF Begin
  <2>3. MountsAreProper' BY <1>6, <2>1 DEF Begin
  <2>4. UnmountedAtStep' BY <1>6, <2>1 DEF Begin
  <2>5. PublishedIsMounted' BY <1>6, <2>1 DEF Begin
  <2>6. HealthyUnpublish' BY <1>6, <2>1 DEF Begin
  <2> QED BY <2>2, <2>3, <2>4, <2>5, <2>6 DEF MountInv
<1>7. CASE CheckContext(c) BY <1>7 DEF CheckContext
<1>8. CASE MakeDir(c) BY <1>8 DEF MakeDir
<1>9. CASE IsMounted(c)
  <2>1. t \in Targets /\ req[c].op = "NodePublishVolume"
    BY <1>9 DEF IsMounted, StepMatchesOp
  <2>2. NoPromiseWhileHeld' BY <1>9, <2>1 DEF IsMounted
  <2>3. MountsAreProper' BY <1>9, <2>1 DEF IsMounted
  <2>4. UnmountedAtStep' BY <1>9, <2>1 DEF IsMounted
  <2>5. PublishedIsMounted' BY <1>9, <2>1 DEF IsMounted
  <2>6. HealthyUnpublish' BY <1>9, <2>1 DEF IsMounted
  <2> QED BY <2>2, <2>3, <2>4, <2>5, <2>6 DEF MountInv
<1>10. CASE PathExists(c) BY <1>10 DEF PathExists
<1>11. CASE UnmountCorrupted(c) BY <1>11 DEF UnmountCorrupted, Unmounted
<1>12. CASE Mount(c)
  <2>1. t \in Targets /\ req[c].op = "NodePublishVolume"
    BY <1>12 DEF Mount, StepMatchesOp
  <2>2. NoPromiseWhileHeld' BY <1>12, <2>1 DEF Mount
  <2>3. MountsAreProper' BY <1>12, <2>1 DEF Mount
  <2>4. UnmountedAtStep' BY <1>12, <2>1 DEF Mount
  <2>5. PublishedIsMounted' BY <1>12, <2>1 DEF Mount
  <2>6. HealthyUnpublish' BY <1>12, <2>1 DEF Mount
  <2> QED BY <2>2, <2>3, <2>4, <2>5, <2>6 DEF MountInv
<1>13. CASE CheckMounted(c)
  <2>1. t \in Targets /\ req[c].op = "NodeUnpublishVolume"
    BY <1>13 DEF CheckMounted, StepMatchesOp
  <2>2. NoPromiseWhileHeld' BY <1>13, <2>1 DEF CheckMounted
  <2>3. MountsAreProper' BY <1>13, <2>1 DEF CheckMounted
  <2>4. UnmountedAtStep' BY <1>13, <2>1 DEF CheckMounted
  <2>5. PublishedIsMounted' BY <1>13, <2>1 DEF CheckMounted
  <2>6. HealthyUnpublish' BY <1>13, <2>1 DEF CheckMounted
  <2> QED BY <2>2, <2>3, <2>4, <2>5, <2>6 DEF MountInv
<1>14. CASE Unmount(c) BY <1>14 DEF Unmount, Unmounted
<1>15. CASE RemoveAll(c)
  <2>1. t \in Targets /\ req[c].op = "NodeUnpublishVolume"
    BY <1>15 DEF RemoveAll, StepMatchesOp
  <2>2. NoPromiseWhileHeld' BY <1>15, <2>1 DEF RemoveAll
  <2>3. MountsAreProper' BY <1>15, <2>1 DEF RemoveAll
  <2>4. UnmountedAtStep' BY <1>15, <2>1 DEF RemoveAll
  <2>5. PublishedIsMounted' BY <1>15, <2>1 DEF RemoveAll
  <2>6. HealthyUnpublish' BY <1>15, <2>1 DEF RemoveAll
  <2> QED BY <2>2, <2>3, <2>4, <2>5, <2>6 DEF MountInv
<1> QED BY <1>6, <1>7, <1>8, <1>9, <1>10, <1>11, <1>12, <1>13, <1>14, <1>15 DEF Handler

\* Every step, of the environment too, keeps the facts about mounts and answers.
LEMMA NextMount ==
    TypeOK /\ HoldersAreProper /\ LockInv /\ MountInv /\ [Next]_vars => MountInv'
<1> SUFFICES ASSUME TypeOK, HoldersAreProper, LockInv, MountInv, [Next]_vars PROVE MountInv'
  OBVIOUS
<1> USE DEF MountInv, StepMatchesOp, NoPromiseWhileHeld, MountsAreProper, UnmountedAtStep,
      PublishedIsMounted, HealthyUnpublish, UnpublishedIsUnmounted, Holding
<1>1. CASE UNCHANGED vars BY <1>1 DEF vars, callVars, mountVars
<1>2. ASSUME NEW c \in Calls, NEW r \in Requests, Call(c, r) PROVE MountInv'
  BY <1>2 DEF Call, mountVars, TypeOK
<1>3. ASSUME NEW c \in Calls, Handler(c) PROVE MountInv'
  BY <1>3, HandlerMount, LockPaths
<1>4. ASSUME NEW u \in Targets, GoStale(u) \/ Recover(u) PROVE MountInv'
  BY <1>4 DEF GoStale, Recover, callVars
<1>5. CASE Crash BY <1>5 DEF Crash, mountVars
<1> QED BY <1>1, <1>2, <1>3, <1>4, <1>5 DEF Next

-----------------------------------------------------------------------------
(* The theorems.                                                           *)

Inv == TypeInv /\ LockInv /\ MountInv

\* Inv is an invariant of the node service: the types, the keys and the mounts
\* together are inductive, none of the three parts is without the ones before it.
THEOREM Invariance == Spec => []Inv
<1>1. Init => Inv
  <2>1. Init => HoldersAreProper BY DEF Init, HoldersAreProper, Holding
  <2> QED BY <2>1, InitType, InitLock, InitMount DEF Inv, TypeInv
<1>2. Inv /\ [Next]_vars => Inv'
  BY NextType, NextLock, NextMount DEF Inv, TypeInv
<1> QED BY <1>1, <1>2, PTL DEF Spec

\* The state of the node service always has its type.
THEOREM TypeCorrect == Spec => []TypeOK
<1>1. Inv => TypeOK BY DEF Inv, TypeInv
<1> QED BY <1>1, Invariance, PTL

\* Every return of a handler, early, with an error or with OK, has given up the
\* key its Insert took, and no other key: a path is never left locked.
THEOREM InFlightCorrect == Spec => []InFlightExact
<1>1. Inv => InFlightExact BY LockExact DEF Inv
<1> QED BY <1>1, Invariance, PTL

\* NodeUnpublishVolume never runs os.RemoveAll over a mounted volume, however many
\* goroutines serve the kubelet's repeated requests and whatever fails.
THEOREM RemoveAllSafe == Spec => []RemoveAllSeesNoMount
<1>1. Inv => RemoveAllSeesNoMount
  BY DEF Inv, MountInv, UnmountedAtStep, RemoveAllSeesNoMount
<1> QED BY <1>1, Invariance, PTL

\* NodePublishVolume never stacks a second mount on a target path.
THEOREM MountsNotStacked == Spec => []NoStackedMounts
<1>1. Inv => NoStackedMounts BY DEF Inv, MountInv, MountsAreProper, NoStackedMounts
<1> QED BY <1>1, Invariance, PTL

\* A path that NodePublishVolume answered OK for stays mounted until the next
\* request for it is taken up.
THEOREM PublishCorrect == Spec => []PublishedIsMounted
<1>1. Inv => PublishedIsMounted BY DEF Inv, MountInv
<1> QED BY <1>1, Invariance, PTL

\* A path that NodeUnpublishVolume answered OK for has nothing mounted on it until
\* the next request for it is taken up, if its mount always answered.
THEOREM UnpublishCorrect == Spec => []UnpublishedIsUnmounted
<1>1. Inv => UnpublishedIsUnmounted BY DEF Inv, MountInv, HealthyUnpublish
<1> QED BY <1>1, Invariance, PTL

\* What one step does to the answer of a goroutine.
LEMMA AbortedStep ==
    ASSUME Inv, [Next]_vars, NEW c \in Calls, code[c] = "none", code'[c] = "Aborted"
    PROVE  \E d \in Calls : d # c /\ Holding(d) /\ req[d].target = req[c].target
<1>1. code \in [Calls -> Codes] BY DEF Inv, TypeInv, TypeOK
<1>2. CASE Begin(c)
  <2>1. KeyOf(req[c]) \in inFlight BY <1>1, <1>2 DEF Begin, Refuse, CanInsert
  <2>2. PICK d \in Calls : Holding(d) /\ KeyOf(req[d]) = KeyOf(req[c])
    BY <2>1 DEF Inv, LockInv, KeysOwned
  <2>3. d # c BY <1>2, <2>2 DEF Begin, Holding
  <2> QED BY <2>2, <2>3 DEF KeyOf
<1>3. ASSUME NEW d \in Calls, Handler(d), ~Begin(c) PROVE FALSE
  <2> USE <1>1, <1>3 DEF Goto, Return
  <2>1. CASE Begin(d) BY <2>1 DEF Begin, Refuse
  <2>2. CASE CheckContext(d) \/ MakeDir(d) \/ IsMounted(d) \/ PathExists(d)
    BY <2>2 DEF CheckContext, MakeDir, IsMounted, PathExists
  <2>3. CASE UnmountCorrupted(d) \/ Mount(d)
    BY <2>3 DEF UnmountCorrupted, Mount
  <2>4. CASE CheckMounted(d) \/ Unmount(d) \/ RemoveAll(d)
    BY <2>4 DEF CheckMounted, Unmount, RemoveAll
  <2> QED BY <1>3, <2>1, <2>2, <2>3, <2>4 DEF Handler
<1>4. ASSUME NEW d \in Calls, NEW r \in Requests, Call(d, r) PROVE FALSE
  BY <1>1, <1>4 DEF Call
<1>5. ASSUME NEW t \in Targets, GoStale(t) \/ Recover(t) PROVE FALSE
  BY <1>5 DEF GoStale, Recover, callVars
<1>6. ~Crash BY DEF Crash
<1>7. ~UNCHANGED vars BY DEF vars, callVars
<1> QED BY <1>2, <1>3, <1>4, <1>5, <1>6, <1>7 DEF Next

\* Requests for different paths never turn each other away: Aborted means that
\* another goroutine is serving a request for the same path.
THEOREM AbortedCorrect == Spec => AbortedForSamePathOnly
<1>1. Inv /\ [Next]_vars =>
        [\A c \in Calls : code[c] = "none" /\ code'[c] = "Aborted"
            => \E d \in Calls : d # c /\ Holding(d) /\ req[d].target = req[c].target]_vars
  BY AbortedStep
<1> QED BY <1>1, Invariance, PTL DEF Spec, AbortedForSamePathOnly

-----------------------------------------------------------------------------
(* The node service implements KeyedLock.                                  *)

lockPhase == [c \in Calls |-> Phase(c)]
lockKey == [c \in Calls |-> IF pc[c] = "idle" THEN NoRequest ELSE KeyOf(req[c])]

\* A step that only moves goroutine c, from one phase to another, is a Become.
LEMMA BecomeStep ==
    ASSUME TypeOK, NEW c \in Calls, req' = req, pc[c] # "idle", pc'[c] # "idle",
           \A d \in Calls \ {c} : pc'[d] = pc[d] /\ code'[d] = code[d]
    PROVE  Lock!Become(c, Phase(c), Phase(c)')
<1>1. lockPhase' = [lockPhase EXCEPT ![c] = Phase(c)'] BY DEF lockPhase, Phase
<1>2. lockKey' = lockKey BY DEF lockKey
<1> QED BY <1>1, <1>2 DEF Lock!Become, lockPhase, lockKey

\* A handler past its Insert goes on, or returns something other than Aborted.
LEMMA HolderPhase ==
    ASSUME TypeOK, NEW c \in Calls, Handler(c), ~Begin(c)
    PROVE  /\ Phase(c) = "granted" /\ Phase(c)' \in {"granted", "over"}
           /\ \A d \in Calls \ {c} : code'[d] = code[d]
<1>1. pc \in [Calls -> PCs] /\ code \in [Calls -> Codes] BY DEF TypeOK
<1> USE <1>1 DEF Phase, Goto, Return
<1>2. CASE CheckContext(c) BY <1>2 DEF CheckContext
<1>3. CASE MakeDir(c) BY <1>3 DEF MakeDir
<1>4. CASE IsMounted(c) BY <1>4 DEF IsMounted
<1>5. CASE PathExists(c) BY <1>5 DEF PathExists
<1>6. CASE UnmountCorrupted(c) BY <1>6 DEF UnmountCorrupted
<1>7. CASE Mount(c) BY <1>7 DEF Mount
<1>8. CASE CheckMounted(c) BY <1>8 DEF CheckMounted
<1>9. CASE Unmount(c) BY <1>9 DEF Unmount
<1>10. CASE RemoveAll(c) BY <1>10 DEF RemoveAll
<1> QED BY <1>2, <1>3, <1>4, <1>5, <1>6, <1>7, <1>8, <1>9, <1>10 DEF Handler

\* Somebody else works under the key of c exactly when the key is in the InFlight.
LEMMA BusyExact ==
    ASSUME Inv, NEW c \in Calls, pc[c] = "received"
    PROVE  Lock!Busy(c) <=> KeyOf(req[c]) \in inFlight
<1>1. \A d \in Calls : Phase(d) = "granted" <=> Holding(d) BY DEF Phase, Holding
<1>2. ~Holding(c) BY DEF Holding
<1>3. \A d \in Calls : Holding(d) => KeyOf(req[d]) \in inFlight /\ pc[d] # "idle"
  BY DEF Inv, LockInv, KeysHeld, Holding
<1>4. \A k \in inFlight : \E d \in Calls : Holding(d) /\ KeyOf(req[d]) = k
  BY DEF Inv, LockInv, KeysOwned
<1>5. Lock!Busy(c) <=> \E d \in Calls : d # c /\ Holding(d) /\ KeyOf(req[d]) = KeyOf(req[c])
  BY <1>1, <1>3 DEF Lock!Busy, Lock!Working
<1> QED BY <1>2, <1>3, <1>4, <1>5

\* Every step of a handler is a step of KeyedLock or changes nothing in it.
LEMMA HandlerRefines ==
    ASSUME Inv, NEW c \in Calls, Handler(c)
    PROVE  Lock!Next \/ UNCHANGED Lock!lockVars
<1>1. TypeOK BY DEF Inv, TypeInv
<1>2. /\ req' = req /\ pc[c] # "idle" /\ pc'[c] # "idle"
      /\ \A d \in Calls \ {c} : pc'[d] = pc[d]
  BY <1>1, HandlerLock
<1>3. pc \in [Calls -> PCs] /\ code \in [Calls -> Codes] BY <1>1 DEF TypeOK
<1>4. CASE Begin(c)
  <2>1. \A d \in Calls \ {c} : code'[d] = code[d] BY <1>3, <1>4 DEF Begin, Refuse
  <2>2. Phase(c) = "asked" BY <1>4 DEF Begin, Phase
  <2>3. Lock!Become(c, "asked", Phase(c)') BY <1>1, <1>2, <2>1, <2>2, BecomeStep
  <2>4. \/ Phase(c)' = "over"
        \/ Phase(c)' = "refused" /\ KeyOf(req[c]) \in inFlight
        \/ Phase(c)' = "granted" /\ KeyOf(req[c]) \notin inFlight
    BY <1>3, <1>4 DEF Begin, Refuse, Phase, CanInsert
  <2>5. Lock!Busy(c) <=> KeyOf(req[c]) \in inFlight BY <1>4, BusyExact DEF Begin
  <2>6. Lock!Reject(c) \/ Lock!Refuse(c) \/ Lock!Grant(c)
    BY <2>3, <2>4, <2>5 DEF Lock!Reject, Lock!Refuse, Lock!Grant
  <2> QED BY <2>6 DEF Lock!Next
<1>5. CASE ~Begin(c)
  <2>1. /\ Phase(c) = "granted" /\ Phase(c)' \in {"granted", "over"}
        /\ \A d \in Calls \ {c} : code'[d] = code[d]
    BY <1>1, <1>5, HolderPhase
  <2>2. Lock!Become(c, "granted", Phase(c)') BY <1>1, <1>2, <2>1, BecomeStep
  <2>3. CASE Phase(c)' = "over" BY <2>2, <2>3 DEF Lock!Finish, Lock!Next
  <2>4. CASE Phase(c)' = "granted"
    <3>1. lockPhase' = lockPhase /\ lockKey' = lockKey
      BY <1>2, <2>1, <2>4 DEF lockPhase, lockKey, Phase
    <3> QED BY <3>1 DEF Lock!lockVars, lockPhase, lockKey
  <2> QED BY <2>1, <2>3, <2>4
<1> QED BY <1>4, <1>5

\* Every step of the node service is a step of KeyedLock or changes nothing in it.
LEMMA NextRefines ==
    ASSUME Inv, [Next]_vars
    PROVE  Lock!Next \/ UNCHANGED Lock!lockVars
<1>1. /\ pc \in [Calls -> PCs] /\ req \in [Calls -> Requests \cup {NoRequest}]
      /\ code \in [Calls -> Codes]
  BY DEF Inv, TypeInv, TypeOK
<1>2. ASSUME callVars' = callVars PROVE UNCHANGED Lock!lockVars
  <2>1. lockPhase' = lockPhase BY <1>2 DEF lockPhase, callVars, Phase
  <2>2. lockKey' = lockKey BY <1>2 DEF lockKey, callVars
  <2> QED BY <2>1, <2>2 DEF Lock!lockVars, lockPhase, lockKey
<1>3. CASE UNCHANGED vars BY <1>2, <1>3 DEF vars
<1>4. ASSUME NEW c \in Calls, NEW r \in Requests, Call(c, r) PROVE Lock!Next
  <2>1. Phase(c) \notin {"asked", "granted"} BY <1>4 DEF Call, Phase
  <2>2. lockPhase' = [lockPhase EXCEPT ![c] = "asked"]
    BY <1>1, <1>4 DEF Call, lockPhase, Phase
  <2>3. lockKey' = [lockKey EXCEPT ![c] = KeyOf(r)]
    BY <1>1, <1>4 DEF Call, lockKey
  <2>4. Lock!Ask(c, KeyOf(r)) BY <2>1, <2>2, <2>3 DEF Lock!Ask, lockPhase, lockKey
  <2> QED BY <2>4 DEF Lock!Next
<1>5. ASSUME NEW c \in Calls, Handler(c) PROVE Lock!Next \/ UNCHANGED Lock!lockVars
  BY <1>5, HandlerRefines
<1>6. ASSUME NEW t \in Targets, GoStale(t) \/ Recover(t) PROVE UNCHANGED Lock!lockVars
  BY <1>2, <1>6 DEF GoStale, Recover
<1>7. CASE Crash
  <2>1. lockPhase' = [c \in Calls |-> "idle"] BY <1>7 DEF Crash, lockPhase, Phase
  <2>2. lockKey' = [c \in Calls |-> NoRequest] BY <1>7 DEF Crash, lockKey
  <2>3. Lock!Die(NodeProcess) BY <2>1, <2>2 DEF Lock!Die, lockPhase, lockKey
  <2> QED BY <2>3 DEF Lock!Next
<1> QED BY <1>3, <1>4, <1>5, <1>6, <1>7 DEF Next

\* The node service implements KeyedLock, for any number of goroutines, paths and
\* requests: a key is granted exactly when no request under it is being served.
THEOREM LockRefinement == Spec => ImplementsKeyedLock
<1>1. Init => Lock!Init BY DEF Init, Lock!Init, Phase
<1>2. Inv /\ [Next]_vars => [Lock!Next]_(Lock!lockVars) BY NextRefines
<1> QED BY <1>1, <1>2, Invariance, PTL DEF Spec, ImplementsKeyedLock, Lock!Spec

=============================================================================
