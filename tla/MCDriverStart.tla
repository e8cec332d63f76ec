--------------------------- MODULE MCDriverStart ----------------------------
(* Small instances of DriverStart for TLC.                                 *)
EXTENDS DriverStart

\* The not-ready taint with two effects, and the taint of someone else.
NotReady == {"not-ready:NoExecute", "not-ready:NoSchedule"}
MCTaints == NotReady \cup {"unreachable:NoExecute"}

Document == {"instanceId", "instanceType", "region", "availabilityZone"}

NodePod ==
    [mode |-> "node", version |-> FALSE, endpoint |-> "unix", region |-> NoRegion,
     nodeName |-> TRUE, client |-> TRUE, imds |-> TRUE, document |-> Document,
     provider |-> "instance"]
ControllerPod == [NodePod EXCEPT !.mode = "controller"]
BothServices == [NodePod EXCEPT !.mode = "all"]

\* The deployments of the charts, with and without IMDS, AWS_REGION and a node
\* name, and some that cannot work.
MCConfigurations ==
    {NodePod, ControllerPod, BothServices,
     [NodePod EXCEPT !.imds = FALSE],
     [NodePod EXCEPT !.document = Document \ {"region"}, !.region = InstanceRegion],
     [NodePod EXCEPT !.nodeName = FALSE],
     [NodePod EXCEPT !.client = FALSE, !.endpoint = "tcp"],
     [NodePod EXCEPT !.imds = FALSE, !.provider = "other"],
     [NodePod EXCEPT !.endpoint = "other"],
     [ControllerPod EXCEPT !.region = InstanceRegion, !.imds = FALSE],
     [ControllerPod EXCEPT !.imds = FALSE, !.endpoint = "tcp"],
     [ControllerPod EXCEPT !.document = Document \ {"region"}],
     [BothServices EXCEPT !.imds = FALSE, !.region = InstanceRegion],
     [BothServices EXCEPT !.mode = "unknown"],
     [BothServices EXCEPT !.version = TRUE]}

\* A node pod that finds its metadata and cannot serve at its endpoint.
UnservedNode == {[NodePod EXCEPT !.endpoint = "other"]}

=============================================================================
