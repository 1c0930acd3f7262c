-------------------------- MODULE MCTopologyRegistry --------------------------
(***************************************************************************)
(* TopologyRegistry on three devices and three link identities.  The       *)
(* reports are chosen so that each limit can be reached, a link can move    *)
(* to another pair of devices, and a record can be older than, equal to or  *)
(* newer than the one it meets.                                            *)
(***************************************************************************)
EXTENDS TopologyRegistry, TLC

CONSTANTS a, b, c, l1, l2, l3, w

MCDeviceReports ==
  {[health |-> "PRESENT", generation |-> g, owner_worker |-> o,
    owner_boot |-> IF o = None THEN None ELSE 1] : g \in {0, 1, 2}, o \in {w}}
  \cup {[health |-> "PRESENT", generation |-> 1, owner_worker |-> None,
         owner_boot |-> None]}

LinkReport(s, t, g) ==
  [source |-> s, target |-> t, directed |-> FALSE,
   technology |-> "NVLINK", interconnect |-> "UNKNOWN", nominal_bandwidth |-> 4,
   state |-> "UP", degraded |-> FALSE, generation |-> g,
   topology_generation |-> 0]

MCLinkReports ==
  {LinkReport(a, b, 1), LinkReport(b, a, 1), LinkReport(b, a, 2),
   LinkReport(a, a, 1), LinkReport(b, c, 2)}

MCMeasurementReports ==
  {[source |-> a, target |-> b, measured_at |-> 1, valid |-> TRUE,
    bandwidth |-> 3, contended |-> FALSE, stale |-> FALSE, revalidation_required |-> FALSE]}

MCObservationReports ==
  {[id |-> i, kind |-> "external", source |-> a, stale |-> TRUE] : i \in {0, 5}}

ForeignDevice ==
  [health |-> "PRESENT", generation |-> 1, owner_worker |-> None,
   owner_boot |-> 1]

\* A file from a registry that was ahead, and three that must be refused: an
\* unknown version, a link to a device that is not there, too many devices.
MCForeignStates ==
  {[format_version |-> durable_version, topology_generation |-> 3,
    devices |-> (a :> ForeignDevice @@ b :> ForeignDevice),
    links |-> (l1 :> LinkReport(a, b, 1))],
   [format_version |-> "nvlinkfabric-durable/2.0", topology_generation |-> 3,
    devices |-> (a :> ForeignDevice), links |-> empty_map],
   [format_version |-> durable_version, topology_generation |-> 1,
    devices |-> (a :> ForeignDevice), links |-> (l1 :> LinkReport(a, c, 1))],
   [format_version |-> durable_version, topology_generation |-> 1,
    devices |-> [d \in {a, b, c} |-> ForeignDevice], links |-> empty_map]}

MCLinkStateReports == {<<"DOWN", FALSE>>, <<"UP", TRUE>>}

\* The files name l1 and no other link; the other two are interchangeable.
LinkSymmetry == Permutations({l2, l3})

=============================================================================
