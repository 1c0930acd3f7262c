--------------------------- MODULE MCRouteAuthority ---------------------------
(***************************************************************************)
(* RouteAuthority on three devices.  The registry is filled from a file    *)
(* with the line a - b - c; the links then have to be published again      *)
(* before a route can use them, may go down or degrade, and may come back  *)
(* between other devices, so that a direct route, a two-hop route and      *)
(* parallel candidates all occur.                                          *)
(***************************************************************************)
EXTENDS RouteAuthority, TLC

CONSTANTS a, b, c, w

Device(g) ==
  [health |-> "PRESENT", generation |-> g, owner_worker |-> w, owner_boot |-> 1]

LinkReport(s, t, directed, bandwidth, g) ==
  [source |-> s, target |-> t, directed |-> directed, technology |-> "NVLINK",
   interconnect |-> "UNKNOWN", nominal_bandwidth |-> bandwidth, state |-> "UP", degraded |-> FALSE, generation |-> g,
   topology_generation |-> 0]

MCLinkReports ==
  {LinkReport(a, b, FALSE, 4, 2), LinkReport(c, b, FALSE, 0, 2),
   LinkReport(a, c, TRUE, 2, 2)}

MCForeignStates ==
  {[format_version |-> durable_version, topology_generation |-> 1,
    devices |-> [d \in {a, b, c} |-> Device(1)],
    links |-> (1 :> LinkReport(a, b, FALSE, 4, 1) @@ 2 :> LinkReport(c, b, FALSE, 4, 1))]}

MCDeviceReports == {Device(2)}

MCMeasurementReports ==
  {[source |-> a, target |-> c, measured_at |-> 1, valid |-> TRUE,
    bandwidth |-> 3, contended |-> TRUE, stale |-> FALSE, revalidation_required |-> FALSE]}

MCLinkStateReports == {<<"DOWN", FALSE>>, <<"UP", TRUE>>}

\* One policy waives every hard constraint, the other sets those that the
\* default leaves out and that some path of the instance meets.
lenient_policy ==
  [default_policy EXCEPT !.require_supported_links = FALSE,
                         !.require_fresh = FALSE, !.exclude_down = FALSE]

strict_policy ==
  [default_policy EXCEPT !.min_nominal_bandwidth = 3, !.max_hops = 2,
                         !.required_technology = "NVLINK",
                         !.exclude_degraded = TRUE]

MCPolicies == {lenient_policy, strict_policy}

MCRequests == {<<a, c>>}

=============================================================================
