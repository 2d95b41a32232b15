------------------------ MODULE MCInspectionBatch ------------------------
(* Instances of InspectionBatch for TLC. *)
EXTENDS InspectionBatch

CONSTANTS host, cluster, b1, b2

\* One batch of a Linux host.
OneHost == [s \in {host} |-> b1]

\* One batch of a Linux host and a Kubernetes cluster.
OneBatch == [s \in {host, cluster} |-> b1]

\* A batch for each of two targets.
TwoBatches == [s \in {host, cluster} |-> IF s = host THEN b1 ELSE b2]
=============================================================================
