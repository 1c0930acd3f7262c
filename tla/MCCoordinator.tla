---------------------------- MODULE MCCoordinator ----------------------------
(***************************************************************************)
(* Coordinator with three connections: of one worker with two boots, and   *)
(* of a second worker; one HELLO carries the epoch of a second server of   *)
(* the process, which is stale or early for any other.                     *)
(***************************************************************************)
EXTENDS Coordinator, TLC

CONSTANTS a, b, w1, w2

MCDeviceReports ==
  {[health |-> "PRESENT", generation |-> 1, owner_worker |-> None,
    owner_boot |-> None]}

MCLinkReports ==
  {[source |-> a, target |-> b, directed |-> FALSE,
    technology |-> "NVLINK", interconnect |-> "UNKNOWN", nominal_bandwidth |-> 4,
    state |-> "UP", degraded |-> FALSE, generation |-> g,
    topology_generation |-> 0] : g \in {1, 2}}

MCMeasurementReports ==
  {[source |-> a, target |-> b, measured_at |-> 1, valid |-> TRUE,
    bandwidth |-> 3, contended |-> FALSE, stale |-> FALSE, revalidation_required |-> FALSE]}

MCHellos ==
  {[worker |-> w1, boot |-> 1, epoch |-> 1], [worker |-> w1, boot |-> 2, epoch |-> 1],
   [worker |-> w2, boot |-> 1, epoch |-> 1], [worker |-> w1, boot |-> 1, epoch |-> 2]}

\* Connections are interchangeable: no action or property names one.
ConnSymmetry == Permutations(Conn)

=============================================================================
