---------------------------- MODULE CloudProofs ----------------------------
(***************************************************************************)
(* What the requests of pkg/cloud and the steps of FSx do to the resources,*)
(* for every set of ids, names and parameters: the types they keep, and    *)
(* the facts the proofs about the controller service rest on.              *)
(***************************************************************************)
EXTENDS Cloud, TLAPS, SequenceTheorems, WellFoundedInduction

DisturbancesOK == disturbances \in 0 .. MaxDisturbances

-----------------------------------------------------------------------------
(* The constants.                                                          *)

\* Ids of every kind are strings, and "" is no id.
LEMMA IdType == Ids \subseteq STRING /\ NoId \in STRING /\ NoToken \in STRING
<1>1. FsIds \subseteq STRING /\ VolIds \subseteq STRING /\ SnapIds \subseteq STRING
  BY Zenon, FSxAssumption
<1>2. NoId \in STRING /\ NoToken \in STRING BY Zenon, FSxAssumption
<1> QED BY <1>1, <1>2 DEF Ids

\* The root volume of a file system is a string.
LEMMA RootVolumeType == ASSUME NEW f \in FsIds PROVE RootVolume[f] \in STRING
<1>1. RootVolume \in [FsIds -> STRING \ Ids] BY Zenon, FSxAssumption
<1> QED BY <1>1

\* Names are strings, and "" is none of them.
LEMMA NameType == Names \subseteq STRING \ {NoToken}
BY Zenon, FSxAssumption

\* The ids of a kind are ids.
LEMMA KindType == ASSUME NEW kind \in Kinds PROVE IdsOf(kind) \subseteq Ids
BY DEF Kinds, IdsOf, Ids

\* The resources that are there at start were made from inputs of their kind, and
\* no two of a kind share a token.
LEMMA PreexistingType ==
    ASSUME NEW id \in DOMAIN Preexisting
    PROVE  /\ Preexisting[id] \in Inputs /\ Preexisting[id].kind \in Kinds
           /\ id \in IdsOf(Preexisting[id].kind)
<1>1. Preexisting[id] \in Inputs /\ id \in IdsOf(Preexisting[id].kind) BY Zenon, FSxAssumption
<1> QED BY <1>1 DEF Inputs

LEMMA PreexistingTokens ==
    ASSUME NEW i \in DOMAIN Preexisting, NEW j \in DOMAIN Preexisting,
           Preexisting[i].kind = Preexisting[j].kind,
           Preexisting[i].token = Preexisting[j].token, Preexisting[i].token # NoToken
    PROVE  i = j
BY Zenon, FSxAssumption

\* BytesToGiB rounds down, and gives a natural number.
LEMMA BytesToGiBType ==
    ASSUME NEW b \in Nat
    PROVE  BytesToGiB(b) \in Nat
BY UtilAssumption DEF BytesToGiB

\* GiBToBytes gives a natural number and does not reverse an order.
LEMMA GiBToBytesType ==
    ASSUME NEW m \in Nat
    PROVE  /\ GiBToBytes(m) \in Nat
           /\ \A n \in Nat : m <= n => GiBToBytes(m) <= GiBToBytes(n)
BY UtilAssumption DEF GiBToBytes

\* A non-empty set of natural numbers has a least element, and Min is it.
LEMMA MinExists ==
    ASSUME NEW S, S \subseteq Nat, S # {}
    PROVE  Min(S) \in S /\ \A y \in S : Min(S) <= y
<1> DEFINE R == OpToRel(<, Nat)
<1>1. IsWellFoundedOn(R, Nat) BY NatLessThanWellFounded
<1>2. \E x \in S : \A y \in S : ~(<<y, x>> \in R) BY <1>1, WFMin
<1>3. \A x, y \in Nat : ~(<<y, x>> \in R) => x <= y BY DEF OpToRel
<1>4. \E x \in S : \A y \in S : x <= y BY <1>2, <1>3
<1> QED BY <1>4 DEF Min

\* A disturbance stays within its bound.
LEMMA DisturbType == ASSUME DisturbancesOK, Disturb PROVE DisturbancesOK'
BY CloudAssumption DEF Disturb, DisturbancesOK

-----------------------------------------------------------------------------
(* Types.                                                                  *)

\* FSx starts with resources of the right types.
LEMMA FSxInitType == FSxInit => FSxTypeOK
<1> SUFFICES ASSUME FSxInit PROVE FSxTypeOK OBVIOUS
<1>1. \A id \in DOMAIN Preexisting : Preexisting[id] \in Inputs BY Zenon, FSxAssumption
<1>2. \A id \in DOMAIN Preexisting : Preexisting[id].gib \in Nat BY <1>1 DEF Inputs
<1>3. lifecycle \in [Ids -> Lifecycles] BY DEF FSxInit, Lifecycles
<1>4. created \in [Ids -> Inputs \cup {NoInput}] BY <1>1 DEF FSxInit
<1>5. capacity \in [FsIds -> Nat] BY <1>2 DEF FSxInit
<1>6. updates \in [FsIds -> Seq(Updates)] BY DEF FSxInit
<1> QED BY <1>3, <1>4, <1>5, <1>6 DEF FSxTypeOK

\* A create assigns an id of its kind, once, or changes nothing.
LEMMA ApiCreateStep ==
    ASSUME FSxTypeOK, NEW in \in Inputs, NEW reply, NEW id, ApiCreate(in, reply, id)
    PROVE  /\ id \in IdsOf(in.kind) \cup {NoId}
           /\ reply \in {"ok", "IncompatibleParameter"} => id \in IdsOf(in.kind)
           /\ reply = "ok" => created'[id] = in /\ Present(id)'
           /\ \/ UNCHANGED fsxVars
              \/ /\ id \in IdsOf(in.kind) /\ lifecycle[id] = "ABSENT" /\ SameToken(in) = {}
                 /\ lifecycle' = [lifecycle EXCEPT ![id] =
                        IF in.kind = "filesystem" THEN "CREATING" ELSE "PENDING"]
                 /\ created' = [created EXCEPT ![id] = in]
                 /\ capacity' = IF in.kind = "filesystem"
                                THEN [capacity EXCEPT ![id] = in.gib] ELSE capacity
                 /\ updates' = updates
<1>1. in.kind \in Kinds /\ IdsOf(in.kind) \subseteq Ids BY KindType DEF Inputs
<1>2. lifecycle \in [Ids -> Lifecycles] /\ created \in [Ids -> Inputs \cup {NoInput}]
  BY DEF FSxTypeOK
<1>3. CASE /\ SameToken(in) = {} /\ Unassigned(in.kind) # {} /\ reply = "ok"
           /\ id = CHOOSE i \in Unassigned(in.kind) : TRUE
           /\ lifecycle' = [lifecycle EXCEPT ![id] =
                   IF in.kind = "filesystem" THEN "CREATING" ELSE "PENDING"]
           /\ created' = [created EXCEPT ![id] = in]
           /\ capacity' = IF in.kind = "filesystem"
                          THEN [capacity EXCEPT ![id] = in.gib] ELSE capacity
           /\ UNCHANGED updates
  <2>1. id \in Unassigned(in.kind) BY <1>3
  <2>2. id \in IdsOf(in.kind) /\ lifecycle[id] = "ABSENT" BY <2>1 DEF Unassigned
  <2> QED BY <1>1, <1>2, <1>3, <2>2 DEF Present
<1>4. CASE /\ id \in SameToken(in)
           /\ reply = IF created[id] = in THEN "ok" ELSE "IncompatibleParameter"
           /\ UNCHANGED fsxVars
  BY <1>1, <1>4 DEF SameToken, Present, fsxVars
<1>5. CASE reply = "BadRequest" /\ id = NoId /\ UNCHANGED fsxVars BY <1>5
<1> QED BY <1>3, <1>4, <1>5 DEF ApiCreate

\* A create keeps the types.
LEMMA ApiCreateType ==
    ASSUME FSxTypeOK, NEW in \in Inputs, NEW reply, NEW id, ApiCreate(in, reply, id)
    PROVE  FSxTypeOK'
<1>1. in.kind \in Kinds /\ in.gib \in Nat /\ IdsOf(in.kind) \subseteq Ids
  BY KindType DEF Inputs
<1>2. CASE UNCHANGED fsxVars BY <1>2 DEF fsxVars, FSxTypeOK
<1>3. CASE ~UNCHANGED fsxVars
  <2>1. /\ lifecycle' = [lifecycle EXCEPT ![id] =
              IF in.kind = "filesystem" THEN "CREATING" ELSE "PENDING"]
        /\ created' = [created EXCEPT ![id] = in]
        /\ capacity' = IF in.kind = "filesystem"
                       THEN [capacity EXCEPT ![id] = in.gib] ELSE capacity
        /\ updates' = updates
    BY <1>3, ApiCreateStep
  <2> QED BY <1>1, <2>1 DEF FSxTypeOK, Lifecycles
<1> QED BY <1>2, <1>3

\* A delete keeps the types.
LEMMA ApiDeleteType ==
    ASSUME FSxTypeOK, NEW id, NEW reply, ApiDelete(id, reply)
    PROVE  FSxTypeOK'
BY DEF ApiDelete, FSxTypeOK, Lifecycles, fsxVars

\* An update keeps the types.
LEMMA ApiUpdateType ==
    ASSUME FSxTypeOK, NEW f, NEW gib \in Nat, NEW reply, ApiUpdate(f, gib, reply)
    PROVE  FSxTypeOK'
<1> DEFINE u == [target |-> gib, status |-> "PENDING"]
<1>1. u \in Updates BY DEF Updates, UpdateStatuses
<1>2. ASSUME f \in FsIds PROVE <<u>> \o updates[f] \in Seq(Updates)
  BY <1>1, <1>2 DEF FSxTypeOK
<1>3. updates' \in [FsIds -> Seq(Updates)] BY <1>2 DEF ApiUpdate, FSxTypeOK
<1> QED BY <1>3 DEF ApiUpdate, FSxTypeOK

\* Setting the status of the newest update keeps the type of the list.
LEMMA SetStatusType ==
    ASSUME FSxTypeOK, NEW f \in FsIds, NEW status \in UpdateStatuses, updates[f] # <<>>,
           SetStatus(f, status)
    PROVE  updates' \in [FsIds -> Seq(Updates)]
<1> DEFINE s == updates[f]
<1>1. s \in Seq(Updates) BY DEF FSxTypeOK
<1>2. s # <<>> OBVIOUS
<1> HIDE DEF s
<1>3. 1 \in 1 .. Len(s) /\ s[1] \in Updates BY <1>1, <1>2, EmptySeq, ElementOfSeq
<1>4. [s[1] EXCEPT !.status = status] \in Updates BY <1>3 DEF Updates
<1>5. [s EXCEPT ![1] = [s[1] EXCEPT !.status = status]] \in Seq(Updates)
  BY <1>1, <1>3, <1>4, ExceptSeq
<1>6. updates' = [updates EXCEPT ![f] = [s EXCEPT ![1] = [s[1] EXCEPT !.status = status]]]
  BY DEF SetStatus, s
<1> QED BY <1>5, <1>6 DEF FSxTypeOK

\* FSx's own steps keep the types.
LEMMA FSxNextType == ASSUME FSxTypeOK, FSxNext PROVE FSxTypeOK'
<1>1. ASSUME NEW id \in Ids, Progress(id) \/ FailCreate(id) PROVE FSxTypeOK'
  BY <1>1 DEF Progress, FailCreate, FSxTypeOK, Lifecycles
<1>2. ASSUME NEW f \in FsIds, UpdateProgress(f) \/ FailUpdate(f) PROVE FSxTypeOK'
  <2>1. updates[f] # <<>> BY <1>2 DEF UpdateProgress, FailUpdate, InProgress
  <2>2. PICK status \in UpdateStatuses : SetStatus(f, status)
    BY <1>2 DEF UpdateProgress, FailUpdate, UpdateStatuses
  <2>3. updates' \in [FsIds -> Seq(Updates)] BY <2>1, <2>2, SetStatusType
  <2>4. Head(updates[f]).target \in Nat
    <3>1. Head(updates[f]) \in Updates BY <2>1, HeadTailProperties DEF FSxTypeOK
    <3> QED BY <3>1 DEF Updates
  <2>5. capacity' \in [FsIds -> Nat] BY <1>2, <2>4 DEF UpdateProgress, FailUpdate, FSxTypeOK
  <2> QED BY <1>2, <2>3, <2>5 DEF UpdateProgress, FailUpdate, FSxTypeOK
<1> QED BY <1>1, <1>2 DEF FSxNext

-----------------------------------------------------------------------------
(* The requests of pkg/cloud.                                              *)

\* A request that is not sent changes nothing but the count of disturbances.
LEMMA NotSentStep ==
    ASSUME DisturbancesOK, NEW live, NEW err, NotSent(live, err)
    PROVE  /\ DisturbancesOK' /\ UNCHANGED fsxVars
           /\ err \in {"Canceled", "ApiError"}
BY DisturbType DEF NotSent, DisturbancesOK

\* The caller sees the reply or an ApiError.
LEMMA AnsweredStep ==
    ASSUME DisturbancesOK, NEW live, NEW reply, NEW err, Answered(live, reply, err)
    PROVE  DisturbancesOK' /\ err \in {reply, "ApiError"}
BY DisturbType DEF Answered, DisturbancesOK

\* A create that returns no error returns the id of a resource that is there and
\* was made from exactly this input.
LEMMA CreateResourceStep ==
    ASSUME FSxTypeOK, DisturbancesOK, NEW live, NEW known, NEW in \in Inputs, NEW err, NEW id,
           CreateResource(live, known, in, err, id)
    PROVE  /\ FSxTypeOK' /\ DisturbancesOK'
           /\ err = "none" => /\ id \in IdsOf(in.kind) /\ id \in Ids
                              /\ created'[id] = in /\ Present(id)'
           /\ UNCHANGED fsxVars \/ \E i, reply : ApiCreate(in, reply, i)
           /\ ~known => UNCHANGED fsxVars
<1>1. IdsOf(in.kind) \subseteq Ids BY KindType DEF Inputs
<1>2. ASSUME err = "UnknownField", UNCHANGED <<fsxVars, disturbances>>
      PROVE  FSxTypeOK' /\ DisturbancesOK' /\ err # "none" /\ UNCHANGED fsxVars
  BY <1>2 DEF fsxVars, FSxTypeOK, DisturbancesOK
<1>3. ASSUME NotSent(live, err)
      PROVE  FSxTypeOK' /\ DisturbancesOK' /\ err # "none" /\ UNCHANGED fsxVars
  BY <1>3, NotSentStep DEF fsxVars, FSxTypeOK
<1>4. ASSUME NEW reply, ApiCreate(in, reply, id), Answered(live, CreateError(reply), err)
      PROVE  /\ FSxTypeOK' /\ DisturbancesOK'
             /\ err = "none" => /\ id \in IdsOf(in.kind) /\ created'[id] = in /\ Present(id)'
  <2>1. err = "none" => reply = "ok" BY <1>4, AnsweredStep DEF CreateError
  <2> QED BY <1>4, <2>1, ApiCreateStep, ApiCreateType, AnsweredStep
<1> QED BY <1>1, <1>2, <1>3, <1>4 DEF CreateResource

\* A delete that returns no error, or ErrNotFound, leaves the resource going or gone.
LEMMA DeleteResourceStep ==
    ASSUME FSxTypeOK, DisturbancesOK, NEW live, NEW id, NEW err, DeleteResource(live, id, err)
    PROVE  /\ FSxTypeOK' /\ DisturbancesOK'
           /\ err = "none" /\ id \in Ids => lifecycle'[id] = "DELETING"
           /\ err = "ErrNotFound" /\ id \in Ids => lifecycle'[id] \in {"ABSENT", "DELETED"}
           /\ UNCHANGED fsxVars \/ \E reply : ApiDelete(id, reply)
<1>1. CASE NotSent(live, err) BY <1>1, NotSentStep DEF fsxVars, FSxTypeOK
<1>2. ASSUME NEW reply, ApiDelete(id, reply), Answered(live, DeleteError(reply), err)
      PROVE  /\ FSxTypeOK' /\ DisturbancesOK'
             /\ err = "none" /\ id \in Ids => lifecycle'[id] = "DELETING"
             /\ err = "ErrNotFound" /\ id \in Ids => lifecycle'[id] \in {"ABSENT", "DELETED"}
  <2>1. /\ err = "none" => reply = "ok"
        /\ err = "ErrNotFound" => reply = "NotFound"
    BY <1>2, AnsweredStep DEF DeleteError
  <2>2. /\ reply = "ok" /\ id \in Ids => lifecycle'[id] = "DELETING"
        /\ reply = "NotFound" /\ id \in Ids => lifecycle'[id] \in {"ABSENT", "DELETED"}
    BY <1>2 DEF ApiDelete, Present, fsxVars, FSxTypeOK
  <2> QED BY <1>2, <2>1, <2>2, ApiDeleteType, AnsweredStep
<1> QED BY <1>1, <1>2 DEF DeleteResource

\* An update keeps the types.
LEMMA UpdateFileSystemStep ==
    ASSUME FSxTypeOK, DisturbancesOK, NEW live, NEW id, NEW gib \in Nat, NEW err,
           UpdateFileSystem(live, id, gib, err)
    PROVE  /\ FSxTypeOK' /\ DisturbancesOK'
           /\ UNCHANGED fsxVars \/ \E reply : ApiUpdate(id, gib, reply)
<1>1. CASE NotSent(live, err) BY <1>1, NotSentStep DEF fsxVars, FSxTypeOK
<1>2. ASSUME NEW reply, ApiUpdate(id, gib, reply), Answered(live, UpdateError(reply), err)
      PROVE  FSxTypeOK' /\ DisturbancesOK'
  BY <1>2, ApiUpdateType, AnsweredStep
<1> QED BY <1>1, <1>2 DEF UpdateFileSystem

\* Requests that read change no resource, and find only what is there.
LEMMA ReadStep ==
    ASSUME FSxTypeOK, DisturbancesOK, NEW live, NEW id, NEW err,
           getResource(live, id, err) \/ getTagsForResource(live, id, err)
    PROVE  /\ FSxTypeOK' /\ DisturbancesOK' /\ UNCHANGED fsxVars
           /\ err = "none" => id \in Ids /\ Present(id)
<1>1. CASE NotSent(live, err) BY <1>1, NotSentStep DEF fsxVars, FSxTypeOK
<1>2. CASE Disturb /\ UNCHANGED fsxVars /\ err = "ErrMultipleFound"
  <2>1. DisturbancesOK' BY <1>2, CloudAssumption DEF Disturb, DisturbancesOK
  <2>2. FSxTypeOK' BY <1>2 DEF fsxVars, FSxTypeOK
  <2> QED BY <1>2, <2>1, <2>2
<1>3. CASE /\ UNCHANGED <<fsxVars, disturbances>>
           /\ err = "none" => id \in Ids /\ Present(id)
  BY <1>3 DEF fsxVars, FSxTypeOK, DisturbancesOK
<1> QED BY <1>1, <1>2, <1>3 DEF getResource, getTagsForResource, Ids

\* The errors of storage updates.
ResizeErrors == {"UpdateInProgress", "NoSuchUpdate", "UpdateFailed"}

\* Only the request for an update returns an error of updates, and only one.
LEMMA RequestErrors ==
    ASSUME NEW live, NEW id, NEW err
    PROVE  /\ \A known, in : CreateResource(live, known, in, err, id) => err \notin ResizeErrors
           /\ DeleteResource(live, id, err) => err \notin ResizeErrors
           /\ getResource(live, id, err) => err \notin ResizeErrors
           /\ getTagsForResource(live, id, err) => err \notin ResizeErrors
           /\ \A gib : UpdateFileSystem(live, id, gib, err) /\ err \in ResizeErrors
                       => err = "UpdateInProgress"
<1> USE DEF ResizeErrors
<1>1. NotSent(live, err) => err \notin ResizeErrors BY DEF NotSent
<1>2. \A reply : Answered(live, reply, err) => err \in {reply, "ApiError"} BY DEF Answered
<1>3. \A known, in : CreateResource(live, known, in, err, id) => err \notin ResizeErrors
  <2>1. \A reply : CreateError(reply) \notin ResizeErrors BY DEF CreateError
  <2> QED BY <1>1, <1>2, <2>1 DEF CreateResource
<1>4. DeleteResource(live, id, err) => err \notin ResizeErrors
  <2>1. \A reply : DeleteError(reply) \notin ResizeErrors BY DEF DeleteError
  <2> QED BY <1>1, <1>2, <2>1 DEF DeleteResource
<1>5. /\ getResource(live, id, err) => err \notin ResizeErrors
      /\ getTagsForResource(live, id, err) => err \notin ResizeErrors
  BY <1>1 DEF getResource, getTagsForResource
<1>6. \A gib : UpdateFileSystem(live, id, gib, err) /\ err \in ResizeErrors
                  => err = "UpdateInProgress"
  <2>1. \A reply : UpdateError(reply) \in ResizeErrors => UpdateError(reply) = "UpdateInProgress"
    BY DEF UpdateError
  <2> QED BY <1>1, <1>2, <2>1 DEF UpdateFileSystem
<1> QED BY <1>3, <1>4, <1>5, <1>6

=============================================================================
