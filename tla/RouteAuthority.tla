---------------------------- MODULE RouteAuthority ----------------------------
(***************************************************************************)
(* Route decisions and the clients that hold them while other threads      *)
(* change the registry (decide_route, is_route_executable and              *)
(* revalidate_route of src/core/path.cpp).                                 *)
(*                                                                         *)
(* decide_route reads the registry twice: once for the view it computes    *)
(* on and, after the computation, once more for the observations it cites. *)
(* The two reads are two actions, and any registry call may fall between   *)
(* them.                                                                   *)
(***************************************************************************)
EXTENDS TopologyRegistry, PathPlanning

CONSTANTS
  Client,      \* threads that ask for routes and keep the decisions
  Policies,    \* the hard constraints they ask with
  Requests     \* the <<source, target>> pairs they ask for

ASSUME RequestsAssumption ==
  Policies \subseteq RoutePolicy /\ Requests \subseteq DeviceId \X DeviceId

RouteDecisionOutcome ==
  {"ROUTE_ALLOWED", "ROUTE_ALLOWED_DEGRADED", "NO_ROUTE",
   "REVALIDATION_REQUIRED", "UNSUPPORTED", "INSUFFICIENT_EVIDENCE",
   "POLICY_REJECTED"}

\* policy stands for the identity of the policy.  selected holds the hops of
\* the selected path, none when there is no such path.  as_of is not a field of
\* the code: the observations with smaller identities are the ones made before
\* the view was taken.
RouteDecision ==
  [source: DeviceId, target: DeviceId, policy: RoutePolicy,
   topology_generation: Nat, source_generation: Nat, target_generation: Nat,
   selected: Seq(Edge),
   outcome: RouteDecisionOutcome, executable: BOOLEAN,
   evidence_references: SUBSET Nat, as_of: Nat]

VARIABLES
  pending,    \* per client, the decision between its two reads, or None
  decisions   \* per client, the decision it holds, or None

route_vars == <<pending, decisions>>
all_vars == <<vars, pending, decisions>>

-----------------------------------------------------------------------------
consistent_view ==
  [generation |-> topology_gen, devices |-> devices, links |-> links,
   measurements |-> measurement_history]

\* A decision without a path, as made for endpoints that are not registered
\* and by revalidate_route: no generation is recorded.
bare_decision(src, tgt, policy, outcome) ==
  [source |-> src, target |-> tgt, policy |-> policy, topology_generation |-> 0,
   source_generation |-> 0, target_generation |-> 0, selected |-> << >>,
   outcome |-> outcome, executable |-> FALSE, evidence_references |-> {},
   as_of |-> next_observation]

\* A decision made on a view that has both endpoints.
decision_on(view, src, tgt, policy, p, outcome) ==
  [bare_decision(src, tgt, policy, outcome) EXCEPT
     !.topology_generation = view.generation,
     !.source_generation = view.devices[src].generation,
     !.target_generation = view.devices[tgt].generation,
     !.selected = p,
     !.executable = outcome \in {"ROUTE_ALLOWED", "ROUTE_ALLOWED_DEGRADED"}]

\* The latest "device" observation of each device on the path.
collect_evidence(obs, src, p) ==
  LET about(d) == {i \in DOMAIN obs : obs[i].source = d /\ obs[i].kind = "device"}
      latest(d) == {i \in about(d) : \A j \in about(d) : j <= i}
  IN  {obs[i].id :
         i \in UNION {latest(d) : d \in {src} \cup {p[h].to : h \in DOMAIN p}}}

-----------------------------------------------------------------------------
(* Up to the first return, or to the second read *)

endpoints_missing(c, src, tgt, policy) ==
  /\ ~({src, tgt} \subseteq DOMAIN devices)
  /\ decisions' = [decisions EXCEPT ![c] = bare_decision(src, tgt, policy, "NO_ROUTE")]
  /\ UNCHANGED pending

\* Mutant of candidates: the endpoints are swapped.
candidates_backwards(view, src, tgt) ==
  LET out == enumerate_paths_impl(view, tgt, src) IN {out[i] : i \in DOMAIN out}

candidates(view, src, tgt) ==
  LET out == enumerate_paths_impl(view, src, tgt) IN {out[i] : i \in DOMAIN out}

no_eligible_path(c, view, src, tgt, policy) ==
  LET found == candidates(view, src, tgt)
      outcome == IF found = {} THEN "NO_ROUTE"
                 ELSE rejection_outcome(view, src, tgt, found, policy)
  IN  /\ {src, tgt} \subseteq DOMAIN devices
      /\ \A p \in found : ~eligible(view, src, tgt, p, policy)
      /\ decisions' = [decisions EXCEPT
                         ![c] = decision_on(view, src, tgt, policy, << >>, outcome)]
      /\ UNCHANGED pending

select_path(c, view, src, tgt, policy) ==
  /\ {src, tgt} \subseteq DOMAIN devices
  /\ \E p \in best_paths(view, {q \in candidates(view, src, tgt) :
                                  eligible(view, src, tgt, q, policy)}) :
       pending' = [pending EXCEPT
         ![c] = decision_on(view, src, tgt, policy, p,
                  decision_outcome(compute_quality(view, src, tgt, p)))]
  /\ UNCHANGED decisions

decide_route(c, src, tgt, policy) ==
  /\ pending[c] = None
  /\ \/ endpoints_missing(c, src, tgt, policy)
     \/ no_eligible_path(c, consistent_view, src, tgt, policy)
     \/ select_path(c, consistent_view, src, tgt, policy)
  /\ UNCHANGED vars

(* The second read, and the return of the decision *)

\* Mutant of cite_evidence: the decision is stamped again at the second read.
cite_evidence_restamped(c) ==
  /\ pending[c] # None
  /\ decisions' = [decisions EXCEPT
       ![c] = [pending[c] EXCEPT
                 !.topology_generation = topology_gen,
                 !.evidence_references =
                   collect_evidence(observations, pending[c].source,
                                    pending[c].selected)]]
  /\ pending' = [pending EXCEPT ![c] = None]
  /\ UNCHANGED vars

cite_evidence(c) ==
  /\ pending[c] # None
  /\ decisions' = [decisions EXCEPT
       ![c] = [pending[c] EXCEPT !.evidence_references =
                 collect_evidence(observations, pending[c].source,
                                  pending[c].selected)]]
  /\ pending' = [pending EXCEPT ![c] = None]
  /\ UNCHANGED vars

-----------------------------------------------------------------------------
\* Mutant of is_route_executable: only the endpoints are compared, so a change
\* elsewhere is not noticed.
is_route_executable_by_endpoints(d) ==
  /\ d.executable
  /\ {d.source, d.target} \subseteq DOMAIN devices
  /\ devices[d.source].generation = d.source_generation
  /\ devices[d.target].generation = d.target_generation

is_route_executable(d) ==
  /\ d.executable
  /\ topology_gen = d.topology_generation
  /\ {d.source, d.target} \subseteq DOMAIN devices
  /\ devices[d.source].generation = d.source_generation
  /\ devices[d.target].generation = d.target_generation

\* A decision that is still executable is returned as it is.
revalidate_route(c) ==
  /\ pending[c] = None /\ decisions[c] # None
  /\ ~is_route_executable(decisions[c])
  /\ decisions' = [decisions EXCEPT
       ![c] = bare_decision(decisions[c].source, decisions[c].target,
                            decisions[c].policy, "REVALIDATION_REQUIRED")]
  /\ UNCHANGED <<vars, pending>>

\* A new registry is constructed and restored from the captured state, while
\* the clients keep the decisions they hold: the constructor's state followed
\* by restore_durable_state, before anything else uses the registry.
reconstruct_and_restore ==
  /\ durable # None /\ restorable(durable)
  /\ durable.topology_generation < MaxTopologyGeneration
  /\ topology_gen' = durable.topology_generation + 1
  /\ devices' = [d \in DOMAIN durable.devices |->
                   restored_device(durable.devices[d])]
  /\ links' = stamp([l \in DOMAIN durable.links |->
                       requires_revalidation(durable.links[l])],
                    durable.topology_generation + 1)
  /\ measurement_history' = << >>
  /\ observe(<< >>, "restore", None)
  /\ UNCHANGED <<durable, pending, decisions>>

-----------------------------------------------------------------------------
RouteInit ==
  /\ Init
  /\ pending = [c \in Client |-> None]
  /\ decisions = [c \in Client |-> None]

RouteNext ==
  \/ Next /\ UNCHANGED route_vars
  \/ \E c \in Client, r \in Requests, policy \in Policies :
       decide_route(c, r[1], r[2], policy)
  \/ \E c \in Client : cite_evidence(c) \/ revalidate_route(c)

RouteSpec == RouteInit /\ [][RouteNext]_all_vars

\* The same system when its registry may be replaced by a restored one.
RestartSpec ==
  RouteInit /\ [][RouteNext \/ reconstruct_and_restore]_all_vars

-----------------------------------------------------------------------------
(* Properties *)

\* Types of the decisions clients hold, finished or not (route.hpp).
RouteTypeOK ==
  /\ pending \in [Client -> RouteDecision \cup {None}]
  /\ decisions \in [Client -> RouteDecision \cup {None}]

unusable_states ==
  {"DOWN", "ABSENT", "UNREACHABLE", "UNSUPPORTED", "REVALIDATION_REQUIRED",
   "STALE"}

\* As long as is_route_executable accepts a decision, every link of the path
\* it selected is registered now and is not down, unsupported or waiting for
\* revalidation now, under whatever policy the decision was made and whatever
\* was published, removed, marked or restored in between.  (README: a decision
\* is not executable "after the topology changes until explicitly revalidated;
\* stale decisions fail closed"; "old route decisions do not silently regain
\* authority".)
ExecutableLinksUsable ==
  \A c \in Client :
    (decisions[c] # None /\ is_route_executable(decisions[c])) =>
      /\ decisions[c].selected # << >>
      /\ \A l \in path_links(decisions[c].selected) :
           l \in DOMAIN links /\ links[l].state \notin unusable_states

\* And the selected path still leads from the source to the target: each hop
\* is an edge of the current topology out of the device before it.
ExecutableRouteConnects ==
  \A c \in Client :
    (decisions[c] # None /\ is_route_executable(decisions[c])) =>
      LET d == decisions[c]
          at(i) == IF i = 0 THEN d.source ELSE d.selected[i].to
      IN  /\ at(Len(d.selected)) = d.target
          /\ \A i \in DOMAIN d.selected :
               d.selected[i] \in edges_from(consistent_view, at(i - 1))

\* What a policy demands of the topology, apart from usable links.
meets_policy(view, p, policy) ==
  /\ policy.require_direct => Len(p) = 1
  /\ policy.max_hops # None => Len(p) <= policy.max_hops
  /\ policy.min_nominal_bandwidth # None =>
       nominal_bandwidth(view, path_links(p)) >= policy.min_nominal_bandwidth
  /\ technology_matches(view, path_links(p), policy)
  /\ policy.exclude_degraded => ~any_degraded(view, path_links(p))

\* And it still meets what its policy demands of the topology (policy.hpp: "A
\* candidate violating any applied hard constraint is rejected"): bounds on
\* hops, nominal bandwidth and technology, and no degraded link now, whatever
\* the measurement said then.  Demands on measurements are met at the decision
\* only: publishing a measurement revokes nothing.
ExecutableMeetsPolicy ==
  \A c \in Client :
    (decisions[c] # None /\ is_route_executable(decisions[c])) =>
      meets_policy(consistent_view, decisions[c].selected, decisions[c].policy)

\* A decision that is_route_executable refuses is never accepted again while
\* a client holds it: neither a later change that undoes the first nor a
\* revalidation gives an old decision its authority back.
StaleDecisionStaysStale ==
  [][\A c \in Client :
       /\ decisions[c] # None /\ decisions'[c] = decisions[c]
       /\ ~is_route_executable(decisions[c])
       => ~(is_route_executable(decisions[c])')]_all_vars

\* decide_route reads the observations after the view, so that a decision may
\* cite evidence made after the topology it was computed on (registry.hpp:
\* decisions "reference the observations that justified them").  Whenever that
\* happens the decision is not executable: the observations an executable
\* decision cites were all made before its view.
ExecutableCitesItsView ==
  \A c \in Client :
    decisions[c] # None /\ is_route_executable(decisions[c]) =>
      \A i \in decisions[c].evidence_references : i < decisions[c].as_of

\* The authority of a decision now, finished or not.
authority(d) ==
  IF d # None /\ is_route_executable(d) THEN "live" ELSE "none"

Lease ==
  INSTANCE RouteLease WITH
    topology <- <<devices, links>>,
    view <- [c \in Client |-> authority(pending[c])],
    lease <- [c \in Client |-> authority(decisions[c])]

\* The clients see leases: every history of the registry and of decisions in
\* two reads, with any registry call between the reads, is one of RouteLease.
\* In particular a change that falls between the reads of decide_route leaves
\* a decision that is not executable from the start.
ImplementsRouteLease == Lease!LeaseSpec

=============================================================================
