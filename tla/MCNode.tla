------------------------------- MODULE MCNode -------------------------------
(***************************************************************************)
(* Small instances of NodeService: two goroutines and two target paths of  *)
(* the same volume, as for two pods of a node.  The mount of the first     *)
(* path may go stale, that of the second always answers.                   *)
(***************************************************************************)
EXTENDS NodeService, TLC

CONSTANTS c1, c2    \* goroutines, as model values

TwoCalls == {c1, c2}

\* Goroutines can be exchanged: no request is tied to one.
SymmetricCalls == Permutations(TwoCalls)

OneTarget == {"/pod-1"}
TwoTargets == {"/pod-1", "/pod-2"}

Publish(t) ==
    [op |-> "NodePublishVolume", volumeId |-> "fsvol-1", target |-> t,
     caps |-> "supported", dnsName |-> "dns", resourceType |-> "volume",
     volumePath |-> "fsx/v"]
Unpublish(t) == [Publish(t) EXCEPT !.op = "NodeUnpublishVolume"]
FileSystem(r, path) == [r EXCEPT !.resourceType = "filesystem", !.volumePath = path]

ValidRequests == {Publish(t) : t \in Targets} \cup {Unpublish(t) : t \in Targets}

BadRequests ==
    LET r == Publish("/pod-1") IN
    {[r EXCEPT !.volumeId = ""], [r EXCEPT !.target = ""], [r EXCEPT !.caps = "none"],
     [r EXCEPT !.dnsName = ""], [r EXCEPT !.resourceType = "bucket"],
     [r EXCEPT !.volumePath = ""], FileSystem(r, ""), FileSystem(r, "fsx/v")}

AllRequests == ValidRequests \cup BadRequests

=============================================================================
