---------------------------- MODULE MCController ----------------------------
(***************************************************************************)
(* Small instances of ControllerService: ids, replicas and the requests    *)
(* the sidecars send.  A GiB is 2 "bytes" and the largest int32 is 4, so   *)
(* that requests between two multiples of a GiB, and one past the largest  *)
(* int32, are among the values used.                                       *)
(***************************************************************************)
EXTENDS ControllerService, TLC

CONSTANTS c1, c2, p1, p2    \* goroutines and replicas, as model values

OneFs == {"fs-1"}
TwoFs == {"fs-1", "fs-2"}
ThreeFs == {"fs-1", "fs-2", "fs-3"}
OneVol == {"fsvol-1"}
TwoVols == {"fsvol-1", "fsvol-2"}
OneSnap == {"fsvolsnap-1"}
TwoSnaps == {"fsvolsnap-1", "fsvolsnap-2"}
None == {}
MCRootVolume ==
    [f \in FsIds |-> CASE f = "fs-1" -> "fsvol-r1"
                       [] f = "fs-2" -> "fsvol-r2"
                       [] f = "fs-3" -> "fsvol-r3"]
MCNames == {"pvc-1", "pvc-2", "snap-1"}

ParamSet(values, storageTypes, flaws) ==
    [value : values, storageType : storageTypes, flaw : flaws]

Par(value) == [value |-> value, storageType |-> "SSD", flaw |-> "none"]
MCParams == ParamSet({"a", "b"}, {"SSD", "INTELLIGENT_TIERING"}, Flaws)

\* The file system fs-1 and the volume fsvol-1 were provisioned statically;
\* or fs-1 is the file system of an earlier installation of the driver.
StaticFs == [kind |-> "filesystem", token |-> NoToken, params |-> Par("a"),
             gib |-> 1, source |-> NoId]
StaticVol == [kind |-> "volume", token |-> NoToken, params |-> Par("a"),
              gib |-> 0, source |-> NoId]
OnlyFs == "fs-1" :> StaticFs
EarlierFs == "fs-1" :> [StaticFs EXCEPT !.token = "pvc-2"]
FsAndVol == OnlyFs @@ "fsvol-1" :> StaticVol

OneReplica == {p1}
TwoReplicas == {p1, p2}
OneCall == {c1}
TwoCalls == {c1, c2}
OneEach == c1 :> p1 @@ c2 :> p2
Single == c1 :> p1
AllOnOne == c1 :> p1 @@ c2 :> p1

\* Two goroutines of one replica, or two replicas with their goroutines, can be
\* exchanged: no request is tied to a goroutine.
SymmetricCalls == Permutations(TwoCalls)
SymmetricReplicas ==
    {f \in Permutations({c1, c2, p1, p2}) :
        \A c \in TwoCalls : f[c] \in TwoCalls /\ f[OneEach[c]] = OneEach[f[c]]}

-----------------------------------------------------------------------------
(* Requests.                                                               *)

Base == [op |-> "CreateVolume", name |-> "pvc-1", id |-> NoId, source |-> NoId,
         resourceType |-> "volume", caps |-> "supported", hasRange |-> TRUE,
         required |-> GiB, limit |-> 0, params |-> Par("a")]

CreateFs(name, value) ==
    [Base EXCEPT !.name = name, !.resourceType = "filesystem", !.params = Par(value)]
CreateVol(name, source) == [Base EXCEPT !.name = name, !.source = source]
DeleteVol(id) == [Base EXCEPT !.op = "DeleteVolume", !.name = NoToken, !.id = id]
CreateSnap(name, id) ==
    [Base EXCEPT !.op = "CreateSnapshot", !.name = name, !.id = id, !.hasRange = FALSE]
DeleteSnap(id) == [Base EXCEPT !.op = "DeleteSnapshot", !.name = NoToken, !.id = id]
Expand(id, required, limit) ==
    [Base EXCEPT !.op = "ControllerExpandVolume", !.name = NoToken, !.id = id,
                 !.required = required, !.limit = limit]
ValidateCaps(id) ==
    [Base EXCEPT !.op = "ValidateVolumeCapabilities", !.name = NoToken, !.id = id]

\* A file system is created, by the same name with two different parameter maps,
\* and deleted; the creation of one that an earlier installation made is repeated.
FileSystemRequests ==
    {CreateFs("pvc-1", "a"), CreateFs("pvc-1", "b"), CreateFs("pvc-2", "a"), DeleteVol("fs-2")}

\* A snapshot of the static volume and one of the file system's root volume under
\* the same name, a volume restored from the snapshot, and the snapshot deleted.
SnapshotRequests ==
    {CreateSnap("snap-1", "fsvol-1"), CreateSnap("snap-1", "fs-1"),
     CreateVol("pvc-2", "fsvolsnap-1"), DeleteSnap("fsvolsnap-1")}

\* Expansions of the static file system to 2 GiB (asked for as two and a half),
\* to 3 GiB, to what it has, and past a limit.
ExpandRequests ==
    {Expand("fs-1", 2 * GiB + 1, 0), Expand("fs-1", 3 * GiB, 0),
     Expand("fs-1", 3 * GiB, 2 * GiB)}

Flawed(r, flaw) == [r EXCEPT !.params.flaw = flaw]
Sized(r, required) == [r EXCEPT !.required = required]
Tiered(r) == [r EXCEPT !.params.storageType = "INTELLIGENT_TIERING"]
Typed(r, type) == [r EXCEPT !.resourceType = type]

Volumes == {CreateFs("pvc-1", "a"), CreateVol("pvc-1", NoId), CreateVol("pvc-1", "fsvolsnap-1")}

\* Every request the checks tell apart, valid or not.
ValidatedRequests ==
    {Flawed(r, flaw) : r \in Volumes \cup {CreateSnap("snap-1", "fsvol-1")}, flaw \in Flaws}
    \cup {[r EXCEPT !.caps = "unsupported"] : r \in Volumes}
    \cup {Sized(r, n) : r \in Volumes, n \in {0, GiB + 1, 5 * GiB}}
    \cup {Tiered(Sized(CreateFs("pvc-1", "a"), n)) : n \in {GiB, 2 * GiB}}
    \cup {Typed(Base, "bucket"), CreateVol("", NoId), CreateVol("pvc-1", "fsvol-1"),
          [CreateFs("pvc-1", "a") EXCEPT !.source = "fsvolsnap-1"],
          CreateSnap("snap-1", "x-1"), CreateSnap("snap-1", ""), DeleteVol(""),
          DeleteVol("x-1"), DeleteSnap("fsvolsnap-1"), Expand("x-1", GiB, 0),
          Expand("fsvol-1", GiB, 0), Expand("fs-1", 5 * GiB, 0), Expand("fs-1", 2 * GiB, 0),
          [Expand("fs-1", GiB, 0) EXCEPT !.hasRange = FALSE],
          Expand("fs-2", GiB, 0), ValidateCaps("x-1"), ValidateCaps("fsvol-1")}

\* One creation and one expansion, for the liveness runs.
MixedRequests == {CreateFs("pvc-1", "a"), Expand("fs-1", 2 * GiB, 0)}

\* The request of the documented claim.
DeleteRequests == {DeleteVol("fs-1")}

=============================================================================
