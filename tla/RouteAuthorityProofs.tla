-------------------------- MODULE RouteAuthorityProofs --------------------------
(***************************************************************************)
(* Theorems about route decisions, for any number of clients, any requests *)
(* and policies, and any reports and files given to the registry.  They    *)
(* rest on the registry's invariant and on the fact that its generation    *)
(* identifies its topology.  What the search returns matters only to the   *)
(* last of them, about types and connected paths: compute_quality rates    *)
(* whatever path was selected.                                             *)
(***************************************************************************)
EXTENDS RouteAuthority, TopologyRegistryProofs, PathPlanningProofs

\* The links of the path a decision selected can be used in the current state.
SelectedUsable(d) ==
  /\ d.selected # << >>
  /\ \A l \in path_links(d.selected) :
       l \in DOMAIN links /\ links[l].state \notin unusable_states

\* A decision is of the current topology or an earlier one, and if it is
\* executable and of the current one then its links can be used and meet its
\* policy.
Sound(d) ==
  /\ d.topology_generation \in Nat
  /\ d.topology_generation <= topology_gen
  /\ d.executable /\ d.topology_generation = topology_gen =>
       /\ SelectedUsable(d)
       /\ meets_policy(consistent_view, d.selected, d.policy)

DecisionInv ==
  /\ DOMAIN pending = Client /\ DOMAIN decisions = Client
  /\ \A c \in Client : /\ pending[c] # None => Sound(pending[c])
                       /\ decisions[c] # None => Sound(decisions[c])

RouteInv == IInv /\ DecisionInv

\* A path whose quality leads to an executable decision has links, all of them
\* registered in the view and in none of the unusable states.
LEMMA ExecutableQuality ==
  ASSUME NEW view, NEW src, NEW tgt, NEW p,
         decision_outcome(compute_quality(view, src, tgt, p))
           \in {"ROUTE_ALLOWED", "ROUTE_ALLOWED_DEGRADED"}
  PROVE  /\ p # << >>
         /\ \A l \in path_links(p) :
              l \in DOMAIN view.links /\ view.links[l].state \notin unusable_states
<1> DEFINE q == compute_quality(view, src, tgt, p)
<1>0. q \in {"LINK_DOWN", "UNSUPPORTED", "REVALIDATION_REQUIRED", "CONTENDED",
             "DEGRADED", "INSUFFICIENT_EVIDENCE", "HEALTHY"}
  BY DEF compute_quality
<1> HIDE DEF q
<1>1. q \in {"HEALTHY", "DEGRADED", "CONTENDED"}
  BY <1>0 DEF decision_outcome, q
<1> USE DEF q
<1> DEFINE L == path_links(p)
<1>2. /\ p # << >>
      /\ ~any_down(view, L)
      /\ ~(\E l \in L : in_state(view, l, {"UNSUPPORTED"}))
      /\ ~any_reval(view, L)
  BY <1>1, Zenon DEF compute_quality
<1> QED BY <1>2 DEF any_down, any_reval, in_state, unusable_states

\* What a policy demands of the topology depends on the links only.
LEMMA PolicyOnLinks ==
  ASSUME NEW v, NEW u, v.links = u.links, NEW p, NEW policy
  PROVE  meets_policy(v, p, policy) = meets_policy(u, p, policy)
<1>1. nominal_bandwidth(v, path_links(p)) = nominal_bandwidth(u, path_links(p))
  BY DEF nominal_bandwidth
<1>2. technology_matches(v, path_links(p), policy)
        = technology_matches(u, path_links(p), policy)
  BY DEF technology_matches
<1>3. any_degraded(v, path_links(p)) = any_degraded(u, path_links(p))
  BY DEF any_degraded
<1> QED BY <1>1, <1>2, <1>3 DEF meets_policy

\* A step that leaves the topology alone keeps a decision sound.
LEMMA SoundKept ==
  ASSUME UNCHANGED <<topology_gen, links>>, NEW d, Sound(d)
  PROVE  Sound(d)'
<1>1. consistent_view'.links = consistent_view.links
  BY DEF consistent_view
<1>2. meets_policy(consistent_view, d.selected, d.policy)'
        = meets_policy(consistent_view, d.selected, d.policy)
  <2> DEFINE v == consistent_view'
             u == consistent_view
  <2>1. v.links = u.links
    BY <1>1
  <2> HIDE DEF v, u
  <2>2. meets_policy(v, d.selected, d.policy) = meets_policy(u, d.selected, d.policy)
    BY <2>1, PolicyOnLinks
  <2> QED BY <2>2 DEF v, u
<1> QED BY <1>2 DEF Sound, SelectedUsable

\* A decision without a path is never executable.
LEMMA BareSound ==
  ASSUME topology_gen \in Nat, NEW src, NEW tgt, NEW policy, NEW outcome
  PROVE  Sound(bare_decision(src, tgt, policy, outcome))
BY DEF Sound, bare_decision

\* A decision made on the current view is sound if what makes it executable
\* makes its links usable.
LEMMA DecisionSound ==
  ASSUME topology_gen \in Nat, NEW src, NEW tgt, NEW policy, NEW p, NEW outcome,
         outcome \in {"ROUTE_ALLOWED", "ROUTE_ALLOWED_DEGRADED"} =>
           /\ p # << >>
           /\ \A l \in path_links(p) :
                l \in DOMAIN links /\ links[l].state \notin unusable_states
           /\ meets_policy(consistent_view, p, policy)
  PROVE  Sound(decision_on(consistent_view, src, tgt, policy, p, outcome))
<1> DEFINE d == decision_on(consistent_view, src, tgt, policy, p, outcome)
<1>1. d.topology_generation = topology_gen
  BY Zenon DEF decision_on, bare_decision, consistent_view
<1>2. d.selected = p /\ d.policy = policy
  BY Zenon DEF decision_on, bare_decision, consistent_view
<1>3. d.executable => outcome \in {"ROUTE_ALLOWED", "ROUTE_ALLOWED_DEGRADED"}
  BY Zenon DEF decision_on, bare_decision, consistent_view
<1> HIDE DEF d
<1>4. Sound(d)
  BY <1>1, <1>2, <1>3 DEF Sound, SelectedUsable
<1> QED BY <1>4 DEF d

\* The constructor of the registry and clients without decisions.
LEMMA RouteInitInv == RouteInit => RouteInv
BY InitInv DEF RouteInit, RouteInv, DecisionInv

\* Steps of decide_route keep every decision sound.
LEMMA DecideStep ==
  ASSUME RouteInv, NEW c \in Client, NEW src, NEW tgt, NEW policy,
         decide_route(c, src, tgt, policy)
  PROVE  DecisionInv'
<1>1. topology_gen \in Nat
  BY DEF RouteInv, IInv, TopologyInv
<1>2. UNCHANGED <<topology_gen, links>>
  BY DEF decide_route, vars
<1>3. \A d : Sound(d) => Sound(d)'
  BY <1>2, SoundKept
<1>4. CASE endpoints_missing(c, src, tgt, policy)
  <2>1. /\ decisions' = [decisions EXCEPT ![c] = bare_decision(src, tgt, policy, "NO_ROUTE")]
        /\ pending' = pending
    BY <1>4 DEF endpoints_missing
  <2>2. Sound(bare_decision(src, tgt, policy, "NO_ROUTE"))
    BY <1>1, BareSound
  <2> HIDE DEF bare_decision, Sound
  <2> QED BY <1>3, <2>1, <2>2 DEF RouteInv, DecisionInv
<1>5. CASE no_eligible_path(c, consistent_view, src, tgt, policy)
  <2> DEFINE found == candidates(consistent_view, src, tgt)
             outcome == IF found = {} THEN "NO_ROUTE"
                        ELSE rejection_outcome(consistent_view, src, tgt, found, policy)
             d == decision_on(consistent_view, src, tgt, policy, << >>, outcome)
  <2>1. decisions' = [decisions EXCEPT ![c] = d] /\ pending' = pending
    BY <1>5, Zenon DEF no_eligible_path
  <2>2. outcome \notin {"ROUTE_ALLOWED", "ROUTE_ALLOWED_DEGRADED"}
    BY DEF rejection_outcome
  <2> HIDE DEF outcome
  <2>3. Sound(d)
    BY <1>1, <2>2, DecisionSound
  <2> HIDE DEF d
  <2> QED BY <1>3, <2>1, <2>3 DEF RouteInv, DecisionInv
<1>6. CASE select_path(c, consistent_view, src, tgt, policy)
  <2> DEFINE outcome(p) ==
               decision_outcome(compute_quality(consistent_view, src, tgt, p))
             d(p) == decision_on(consistent_view, src, tgt, policy, p, outcome(p))
  <2>1. PICK p : /\ eligible(consistent_view, src, tgt, p, policy)
                 /\ pending' = [pending EXCEPT ![c] = d(p)] /\ decisions' = decisions
    BY <1>6, Zenon DEF select_path, best_paths
  <2>2. outcome(p) \in {"ROUTE_ALLOWED", "ROUTE_ALLOWED_DEGRADED"} =>
          /\ p # << >>
          /\ \A l \in path_links(p) :
               l \in DOMAIN consistent_view.links
               /\ consistent_view.links[l].state \notin unusable_states
    BY ExecutableQuality
  <2>3. consistent_view.links = links
    BY DEF consistent_view
  <2> HIDE DEF outcome
  <2>4. meets_policy(consistent_view, p, policy)
    BY <2>1 DEF eligible, excludes_degraded, meets_policy
  <2>5. Sound(d(p))
    BY <1>1, <2>2, <2>3, <2>4, DecisionSound
  <2> HIDE DEF d
  <2> QED BY <1>3, <2>1, <2>5 DEF RouteInv, DecisionInv
<1> QED BY <1>4, <1>5, <1>6 DEF decide_route

\* The second read adds evidence to a decision and changes nothing else of it.
LEMMA CiteStep ==
  ASSUME RouteInv, NEW c \in Client, cite_evidence(c)
  PROVE  DecisionInv'
<1> DEFINE ev == collect_evidence(observations, pending[c].source,
                                  pending[c].selected)
           d == [pending[c] EXCEPT !.evidence_references = ev]
<1>1. UNCHANGED <<topology_gen, links>>
  BY DEF cite_evidence, vars
<1>2. \A x : Sound(x) => Sound(x)'
  BY <1>1, SoundKept
<1>3. /\ pending[c] # None
      /\ decisions' = [decisions EXCEPT ![c] = d]
      /\ pending' = [pending EXCEPT ![c] = None]
  BY Zenon DEF cite_evidence
<1>4. Sound(pending[c])
  BY <1>3 DEF RouteInv, DecisionInv
<1> HIDE DEF ev
<1>5. /\ d.topology_generation = pending[c].topology_generation
      /\ d.executable = pending[c].executable
      /\ d.selected = pending[c].selected /\ d.policy = pending[c].policy
  OBVIOUS
<1> HIDE DEF d
<1>6. Sound(d)
  BY <1>4, <1>5 DEF Sound, SelectedUsable
<1> QED BY <1>2, <1>3, <1>6 DEF RouteInv, DecisionInv

\* Revalidation replaces a decision by one that is not executable.
LEMMA RevalidateStep ==
  ASSUME RouteInv, NEW c \in Client, revalidate_route(c)
  PROVE  DecisionInv'
<1> DEFINE d == bare_decision(decisions[c].source, decisions[c].target,
                              decisions[c].policy, "REVALIDATION_REQUIRED")
<1>1. UNCHANGED <<topology_gen, links>>
  BY DEF revalidate_route, vars
<1>2. \A x : Sound(x) => Sound(x)'
  BY <1>1, SoundKept
<1>3. decisions' = [decisions EXCEPT ![c] = d] /\ pending' = pending
  BY DEF revalidate_route
<1>4. Sound(d)
  BY BareSound DEF RouteInv, IInv, TopologyInv
<1> HIDE DEF d
<1> QED BY <1>2, <1>3, <1>4 DEF RouteInv, DecisionInv

\* A step of the registry either leaves the topology alone or makes every
\* decision one of an earlier topology.
LEMMA RegistryStep ==
  ASSUME RouteInv, [Next]_vars, UNCHANGED route_vars
  PROVE  DecisionInv'
<1>1. \/ topology_gen' > topology_gen
      \/ UNCHANGED <<topology_gen, devices, links>>
  BY StepAdvances DEF RouteInv
<1>2. topology_gen \in Nat /\ topology_gen' \in Nat
  BY NextInv DEF RouteInv, IInv, TopologyInv
<1>3. \A d : Sound(d) => Sound(d)'
  <2>1. CASE UNCHANGED <<topology_gen, devices, links>>
    BY <2>1, SoundKept
  <2>2. CASE topology_gen' > topology_gen
    BY <1>2, <2>2 DEF Sound
  <2> QED BY <1>1, <2>1, <2>2
<1> QED BY <1>3 DEF RouteInv, DecisionInv, route_vars

\* Every step preserves the invariant.
LEMMA RouteNextInv == RouteInv /\ [RouteNext]_all_vars => RouteInv'
<1> SUFFICES ASSUME RouteInv, [RouteNext]_all_vars PROVE RouteInv'
  OBVIOUS
<1>1. ASSUME [Next]_vars PROVE IInv'
  BY <1>1, NextInv DEF RouteInv
<1>2. CASE Next /\ UNCHANGED route_vars
  BY <1>1, <1>2, RegistryStep DEF RouteInv
<1>3. ASSUME NEW c \in Client, NEW r \in Requests, NEW policy \in Policies,
             decide_route(c, r[1], r[2], policy) PROVE RouteInv'
  <2>1. UNCHANGED vars
    BY <1>3 DEF decide_route
  <2>2. DecisionInv'
    BY <1>3, DecideStep
  <2> QED BY <1>1, <2>1, <2>2 DEF RouteInv
<1>4. ASSUME NEW c \in Client, cite_evidence(c) PROVE RouteInv'
  <2>1. UNCHANGED vars
    BY <1>4 DEF cite_evidence
  <2> QED BY <1>1, <1>4, <2>1, CiteStep DEF RouteInv
<1>5. ASSUME NEW c \in Client, revalidate_route(c) PROVE RouteInv'
  <2>1. UNCHANGED vars
    BY <1>5 DEF revalidate_route
  <2> QED BY <1>1, <1>5, <2>1, RevalidateStep DEF RouteInv
<1>6. CASE UNCHANGED all_vars
  <2>1. UNCHANGED vars /\ UNCHANGED route_vars
    BY <1>6 DEF all_vars, route_vars
  <2> QED BY <1>1, <2>1, RegistryStep DEF RouteInv
<1> QED BY <1>2, <1>3, <1>4, <1>5, <1>6 DEF RouteNext

-----------------------------------------------------------------------------
(* Theorems *)

\* As long as is_route_executable accepts a decision, the links it selected
\* are registered and usable, for any number of clients and any history.
THEOREM ExecutableMeansUsable == RouteSpec => []ExecutableLinksUsable
<1>1. RouteInv => ExecutableLinksUsable
  BY DEF RouteInv, DecisionInv, Sound, SelectedUsable, ExecutableLinksUsable,
         is_route_executable
<1> QED BY <1>1, RouteInitInv, RouteNextInv, PTL DEF RouteSpec

\* A decision that is_route_executable accepts meets, on the topology of the
\* moment, what the policy given to decide_route demanded of it.
THEOREM ExecutableMeansPolicyMet == RouteSpec => []ExecutableMeetsPolicy
<1>1. RouteInv => ExecutableMeetsPolicy
  BY DEF RouteInv, DecisionInv, Sound, ExecutableMeetsPolicy, is_route_executable
<1> QED BY <1>1, RouteInitInv, RouteNextInv, PTL DEF RouteSpec

\* is_route_executable never accepts again a decision that it has refused.
THEOREM RefusedStaysRefused == RouteSpec => StaleDecisionStaysStale
<1>1. RouteInv /\ [RouteNext]_all_vars =>
        [\A c \in Client :
           /\ decisions[c] # None /\ decisions'[c] = decisions[c]
           /\ ~is_route_executable(decisions[c])
           => ~(is_route_executable(decisions[c])')]_all_vars
  <2> SUFFICES ASSUME RouteInv, [RouteNext]_all_vars, NEW c \in Client,
                      decisions[c] # None, decisions'[c] = decisions[c],
                      ~is_route_executable(decisions[c])
               PROVE  ~(is_route_executable(decisions[c])')
    OBVIOUS
  <2>1. [Next]_vars
    BY DEF RouteNext, all_vars, decide_route, cite_evidence, revalidate_route
  <2>2. \/ topology_gen' > topology_gen
        \/ UNCHANGED <<topology_gen, devices, links>>
    BY <2>1, StepAdvances DEF RouteInv
  <2>3. /\ topology_gen \in Nat /\ topology_gen' \in Nat
        /\ decisions[c].topology_generation \in Nat
        /\ decisions[c].topology_generation <= topology_gen
    BY <2>1, NextInv DEF RouteInv, IInv, TopologyInv, DecisionInv, Sound
  <2> QED BY <2>2, <2>3 DEF is_route_executable
<1> QED BY <1>1, RouteInitInv, RouteNextInv, PTL
        DEF RouteSpec, StaleDecisionStaysStale

-----------------------------------------------------------------------------
(* RouteAuthority implements RouteLease *)

\* What authority(d) computes, as a function of what it reads.
Authority(d, gen, ds) ==
  IF /\ d # None
     /\ d.executable
     /\ gen = d.topology_generation
     /\ {d.source, d.target} \subseteq DOMAIN ds
     /\ ds[d.source].generation = d.source_generation
     /\ ds[d.target].generation = d.target_generation
    THEN "live" ELSE "none"

\* The variables of RouteLease under the refinement mapping.
view_bar == [x \in Client |-> Authority(pending[x], topology_gen, devices)]
lease_bar == [x \in Client |-> Authority(decisions[x], topology_gen, devices)]

\* The mapping of RouteAuthority in those terms.
LEMMA Mapping ==
  /\ [c \in Client |-> authority(pending[c])] = view_bar
  /\ [c \in Client |-> authority(decisions[c])] = lease_bar
BY DEF view_bar, lease_bar, Authority, authority, is_route_executable

\* A step of the registry is a change that revokes every lease, or none.
LEMMA RegistryLease ==
  ASSUME RouteInv, [Next]_vars, UNCHANGED route_vars
  PROVE  \/ /\ view_bar' = [x \in Client |-> "none"]
            /\ lease_bar' = [x \in Client |-> "none"]
         \/ UNCHANGED <<devices, links, view_bar, lease_bar>>
<1>1. \/ topology_gen' > topology_gen
      \/ UNCHANGED <<topology_gen, devices, links>>
  BY StepAdvances DEF RouteInv
<1>2. topology_gen \in Nat /\ topology_gen' \in Nat
  BY NextInv DEF RouteInv, IInv, TopologyInv
<1>3. pending' = pending /\ decisions' = decisions
  BY DEF route_vars
<1>4. CASE UNCHANGED <<topology_gen, devices, links>>
  BY <1>3, <1>4 DEF view_bar, lease_bar
<1>5. CASE topology_gen' > topology_gen
  <2>1. \A x \in Client :
          /\ Authority(pending[x], topology_gen', devices') = "none"
          /\ Authority(decisions[x], topology_gen', devices') = "none"
    BY <1>2, <1>5 DEF RouteInv, DecisionInv, Sound, Authority
  <2> QED BY <1>3, <2>1 DEF view_bar, lease_bar
<1> QED BY <1>1, <1>4, <1>5

\* A step that gives client c a decision and leaves the registry alone: its
\* lease is that decision's authority, and it computes no more.
LEMMA DecisionLease ==
  ASSUME RouteInv, NEW c \in Client, NEW d,
         decisions' = [decisions EXCEPT ![c] = d],
         \/ pending' = pending /\ pending[c] = None
         \/ pending' = [pending EXCEPT ![c] = None],
         UNCHANGED vars
  PROVE  /\ lease_bar' = [lease_bar EXCEPT ![c] = Authority(d, topology_gen, devices)]
         /\ view_bar' = [view_bar EXCEPT ![c] = "none"]
<1>1. DOMAIN pending = Client /\ DOMAIN decisions = Client
  BY DEF RouteInv, DecisionInv
<1>2. topology_gen' = topology_gen /\ devices' = devices
  BY DEF vars
<1>3. \A x \in Client : Authority(decisions'[x], topology_gen', devices')
        = IF x = c THEN Authority(d, topology_gen, devices) ELSE lease_bar[x]
  BY <1>1, <1>2 DEF lease_bar
<1>4. \A x \in Client : Authority(pending'[x], topology_gen', devices')
        = IF x = c THEN "none" ELSE view_bar[x]
  BY <1>1, <1>2 DEF view_bar, Authority
<1> QED BY <1>3, <1>4 DEF lease_bar, view_bar

\* A decision without a path carries no authority.
LEMMA BareAuthority ==
  ASSUME NEW src, NEW tgt, NEW policy, NEW outcome, NEW gen, NEW ds
  PROVE  Authority(bare_decision(src, tgt, policy, outcome), gen, ds) = "none"
BY DEF Authority, bare_decision

\* One call of decide_route up to its second read is Compute, Refuse or nothing.
LEMMA DecideLease ==
  ASSUME RouteInv, NEW c \in Client, NEW src, NEW tgt, NEW policy,
         decide_route(c, src, tgt, policy)
  PROVE  /\ UNCHANGED <<devices, links>>
         /\ \/ /\ lease_bar' = [lease_bar EXCEPT ![c] = "none"]
               /\ view_bar' = [view_bar EXCEPT ![c] = "none"]
            \/ /\ lease_bar' = lease_bar
               /\ \/ view_bar' = [view_bar EXCEPT ![c] = "live"]
                  \/ view_bar' = view_bar
<1>1. UNCHANGED vars /\ pending[c] = None
  BY DEF decide_route
<1>2. UNCHANGED <<topology_gen, devices, links>>
  BY <1>1 DEF vars
<1>3. CASE endpoints_missing(c, src, tgt, policy)
  <2> DEFINE d == bare_decision(src, tgt, policy, "NO_ROUTE")
  <2>1. decisions' = [decisions EXCEPT ![c] = d] /\ pending' = pending
    BY <1>3 DEF endpoints_missing
  <2>2. Authority(d, topology_gen, devices) = "none"
    BY BareAuthority
  <2> HIDE DEF d
  <2> QED BY <1>1, <1>2, <2>1, <2>2, DecisionLease, ZenonT(60)
<1>4. CASE no_eligible_path(c, consistent_view, src, tgt, policy)
  <2> DEFINE found == candidates(consistent_view, src, tgt)
             outcome == IF found = {} THEN "NO_ROUTE"
                        ELSE rejection_outcome(consistent_view, src, tgt, found, policy)
             d == decision_on(consistent_view, src, tgt, policy, << >>, outcome)
  <2>1. decisions' = [decisions EXCEPT ![c] = d] /\ pending' = pending
    BY <1>4, Zenon DEF no_eligible_path
  <2>2. outcome \notin {"ROUTE_ALLOWED", "ROUTE_ALLOWED_DEGRADED"}
    BY DEF rejection_outcome
  <2>3. ~d.executable
    BY <2>2, Zenon DEF decision_on, bare_decision, consistent_view
  <2> HIDE DEF d
  <2>4. Authority(d, topology_gen, devices) = "none"
    BY <2>3 DEF Authority
  <2> QED BY <1>1, <1>2, <2>1, <2>4, DecisionLease, ZenonT(60)
<1>5. CASE select_path(c, consistent_view, src, tgt, policy)
  <2>1. PICK d : pending' = [pending EXCEPT ![c] = d] /\ decisions' = decisions
    BY <1>5, Zenon DEF select_path
  <2>2. DOMAIN pending = Client
    BY DEF RouteInv, DecisionInv
  <2>3. lease_bar' = lease_bar
    BY <1>2, <2>1 DEF lease_bar
  <2>4. \A x \in Client : Authority(pending'[x], topology_gen', devices')
          = IF x = c THEN Authority(d, topology_gen, devices) ELSE view_bar[x]
    BY <1>2, <2>1, <2>2 DEF view_bar
  <2>5. view_bar[c] = "none"
    BY <1>1 DEF view_bar, Authority
  <2>6. Authority(d, topology_gen, devices) \in {"live", "none"}
    BY DEF Authority
  <2>7. view_bar' = [view_bar EXCEPT ![c] = "live"] \/ view_bar' = view_bar
    BY <2>4, <2>5, <2>6 DEF view_bar
  <2> QED BY <1>2, <2>3, <2>7
<1> QED BY <1>3, <1>4, <1>5 DEF decide_route

\* The second read is Grant when the topology is still the one of the view, and
\* Refuse otherwise.
LEMMA CiteLease ==
  ASSUME RouteInv, NEW c \in Client, cite_evidence(c)
  PROVE  /\ UNCHANGED <<devices, links>>
         /\ \/ view_bar[c] = "live" /\ lease_bar' = [lease_bar EXCEPT ![c] = "live"]
            \/ lease_bar' = [lease_bar EXCEPT ![c] = "none"]
         /\ view_bar' = [view_bar EXCEPT ![c] = "none"]
<1> DEFINE ev == collect_evidence(observations, pending[c].source,
                                  pending[c].selected)
           d == [pending[c] EXCEPT !.evidence_references = ev]
<1>1. /\ UNCHANGED vars
      /\ pending[c] # None
      /\ decisions' = [decisions EXCEPT ![c] = d]
      /\ pending' = [pending EXCEPT ![c] = None]
  BY Zenon DEF cite_evidence
<1> HIDE DEF ev
<1>2. /\ d.topology_generation = pending[c].topology_generation
      /\ d.executable = pending[c].executable
      /\ d.source = pending[c].source /\ d.target = pending[c].target
      /\ d.source_generation = pending[c].source_generation
      /\ d.target_generation = pending[c].target_generation
  OBVIOUS
<1> HIDE DEF d
<1>3. /\ lease_bar' = [lease_bar EXCEPT ![c] = Authority(d, topology_gen, devices)]
      /\ view_bar' = [view_bar EXCEPT ![c] = "none"]
  BY <1>1, DecisionLease
<1>4. Authority(d, topology_gen, devices) = "live" => view_bar[c] = "live"
  BY <1>1, <1>2 DEF view_bar, Authority
<1>5. Authority(d, topology_gen, devices) \in {"live", "none"}
  BY DEF Authority
<1> QED BY <1>1, <1>3, <1>4, <1>5 DEF vars

\* revalidate_route leaves the client without authority.
LEMMA RevalidateLease ==
  ASSUME RouteInv, NEW c \in Client, revalidate_route(c)
  PROVE  /\ UNCHANGED <<devices, links>>
         /\ lease_bar' = [lease_bar EXCEPT ![c] = "none"]
         /\ view_bar' = [view_bar EXCEPT ![c] = "none"]
<1> DEFINE d == bare_decision(decisions[c].source, decisions[c].target,
                              decisions[c].policy, "REVALIDATION_REQUIRED")
<1>1. /\ decisions' = [decisions EXCEPT ![c] = d]
      /\ pending' = pending /\ pending[c] = None
      /\ UNCHANGED vars
  BY DEF revalidate_route
<1>2. Authority(d, topology_gen, devices) = "none"
  BY BareAuthority
<1> HIDE DEF d
<1> QED BY <1>1, <1>2, DecisionLease DEF vars

\* A client that holds decisions sees exactly the leases of RouteLease: what
\* decide_route, is_route_executable and revalidate_route do under any
\* interleaving with the registry's mutators implements it.
THEOREM DecisionsAreLeases == RouteSpec => ImplementsRouteLease
<1>1. RouteInit => Lease!LeaseInit
  <2> SUFFICES ASSUME RouteInit PROVE Lease!LeaseInit
    OBVIOUS
  <2>1. \A x \in Client : pending[x] = None /\ decisions[x] = None
    BY DEF RouteInit
  <2> QED BY <2>1 DEF Lease!LeaseInit, authority
<1>2. RouteInv /\ [RouteNext]_all_vars => [Lease!LeaseNext]_(Lease!lease_vars)
  <2> SUFFICES ASSUME RouteInv, [RouteNext]_all_vars
               PROVE  [Lease!LeaseNext]_(Lease!lease_vars)
    OBVIOUS
  <2>0. /\ [c \in Client |-> authority(pending[c])]' = view_bar'
        /\ [c \in Client |-> authority(decisions[c])]' = lease_bar'
    BY DEF view_bar, lease_bar, Authority, authority, is_route_executable
  <2> USE Mapping, <2>0
  <2>1. ASSUME [Next]_vars, UNCHANGED route_vars
        PROVE  [Lease!LeaseNext]_(Lease!lease_vars)
    BY <2>1, RegistryLease DEF Lease!LeaseNext, Lease!Change, Lease!lease_vars
  <2>2. ASSUME NEW c \in Client, NEW r \in Requests, NEW policy \in Policies,
               decide_route(c, r[1], r[2], policy)
        PROVE  [Lease!LeaseNext]_(Lease!lease_vars)
    BY <2>2, DecideLease
       DEF Lease!LeaseNext, Lease!Compute, Lease!Refuse, Lease!lease_vars
  <2>3. ASSUME NEW c \in Client, cite_evidence(c)
        PROVE  [Lease!LeaseNext]_(Lease!lease_vars)
    BY <2>3, CiteLease DEF Lease!LeaseNext, Lease!Grant, Lease!Refuse
  <2>4. ASSUME NEW c \in Client, revalidate_route(c)
        PROVE  [Lease!LeaseNext]_(Lease!lease_vars)
    BY <2>4, RevalidateLease DEF Lease!LeaseNext, Lease!Refuse
  <2>5. CASE UNCHANGED all_vars
    BY <2>1, <2>5 DEF all_vars, route_vars
  <2> QED BY <2>1, <2>2, <2>3, <2>4, <2>5 DEF RouteNext
<1> QED BY <1>1, <1>2, RouteInitInv, RouteNextInv, PTL
        DEF RouteSpec, ImplementsRouteLease, Lease!LeaseSpec

-----------------------------------------------------------------------------
(* The evidence an executable decision cites *)

\* The identities of the "device" observations in a history: what a decision
\* may cite.
DeviceIds(obs) == {obs[i].id : i \in {j \in DOMAIN obs : obs[j].kind = "device"}}

\* The registry observes devices itself, and callers publish observations of
\* other kinds: an observation of kind "device" brought by a caller would become
\* citable without a change of the topology.
CallersLeaveDevices == \A o \in ObservationReports : o.kind # "device"

\* Every device observation is older than the next identity, a view that is
\* still current has seen all of them, and a decision that is still current
\* cites only what its view has seen.
EvidenceDated ==
  /\ \A i \in DeviceIds(observations) : i < next_observation
  /\ \A c \in Client :
       /\ pending[c] # None => "evidence_references" \in DOMAIN pending[c]
       /\ pending[c] # None /\ pending[c].topology_generation = topology_gen =>
            \A i \in DeviceIds(observations) : i < pending[c].as_of
       /\ decisions[c] # None /\ decisions[c].topology_generation = topology_gen =>
            \A i \in decisions[c].evidence_references : i < decisions[c].as_of

\* The elements of a history after a bounded push_back were in it or are the
\* one pushed.
LEMMA PushElements ==
  ASSUME NEW S, NEW q \in Seq(S), NEW x \in S, NEW max \in Nat
  PROVE  \A i \in DOMAIN push_bounded(q, x, max) :
           \/ push_bounded(q, x, max)[i] = x
           \/ \E j \in DOMAIN q : push_bounded(q, x, max)[i] = q[j]
<1>1. PICK a : a = Append(q, x)
  OBVIOUS
<1>2. /\ a \in Seq(S) /\ a # << >> /\ Len(a) = Len(q) + 1
      /\ \A i \in 1..Len(q) : a[i] = q[i]
      /\ a[Len(q) + 1] = x
  BY <1>1, AppendProperties
<1>3. Len(q) \in Nat /\ DOMAIN q = 1..Len(q) /\ DOMAIN a = 1..Len(a)
  BY <1>2, LenProperties
<1>4. \A i \in DOMAIN a : a[i] = x \/ \E j \in DOMAIN q : a[i] = q[j]
  BY <1>2, <1>3
<1>5. PICK t : t = Tail(a)
  OBVIOUS
<1>6. /\ t \in Seq(S) /\ Len(t) = Len(a) - 1
      /\ \A i \in 1..Len(t) : t[i] = a[i + 1]
  BY <1>2, <1>5, HeadTailProperties
<1>7. DOMAIN t = 1..Len(t)
  BY <1>6, LenProperties
<1>8. \A i \in DOMAIN t : i + 1 \in DOMAIN a /\ t[i] = a[i + 1]
  BY <1>2, <1>3, <1>6, <1>7
<1>9. \A i \in DOMAIN t : t[i] = x \/ \E j \in DOMAIN q : t[i] = q[j]
  BY <1>4, <1>8
<1>10. push_bounded(q, x, max) = t \/ push_bounded(q, x, max) = a
  BY <1>1, <1>5, Zenon DEF push_bounded
<1> QED BY <1>4, <1>9, <1>10

\* A push makes at most the new observation citable, and only if it is one of a
\* device.
LEMMA PushCitable ==
  ASSUME NEW q \in Seq(Observation), NEW x \in Observation, NEW max \in Nat
  PROVE  /\ DeviceIds(push_bounded(q, x, max)) \subseteq DeviceIds(q) \cup {x.id}
         /\ x.kind # "device" => DeviceIds(push_bounded(q, x, max)) \subseteq DeviceIds(q)
<1>1. PICK p : p = push_bounded(q, x, max)
  OBVIOUS
<1>2. \A i \in DOMAIN p : p[i] = x \/ \E j \in DOMAIN q : p[i] = q[j]
  BY <1>1, PushElements
<1>3. /\ DeviceIds(p) \subseteq DeviceIds(q) \cup {x.id}
      /\ x.kind # "device" => DeviceIds(p) \subseteq DeviceIds(q)
  BY <1>2 DEF DeviceIds
<1> QED BY <1>1, <1>3

\* The registry's own observations take the next identity.
LEMMA ObserveCitable ==
  ASSUME next_observation \in Nat, NEW obs \in Seq(Observation),
         DeviceIds(obs) \subseteq DeviceIds(observations),
         NEW kind \in ObservationKind, NEW source \in DeviceId \cup {None},
         observe(obs, kind, source)
  PROVE  /\ DeviceIds(observations') \subseteq DeviceIds(observations) \cup {next_observation}
         /\ next_observation' = next_observation + 1
<1>1. PICK x : x = make_observation(kind, source)
  OBVIOUS
<1>2. x \in Observation /\ x.id = next_observation
  BY <1>1 DEF make_observation, Observation
<1>3. /\ observations' = push_bounded(obs, x, max_observations)
      /\ next_observation' = next_observation + 1
  BY <1>1 DEF observe
<1>4. DeviceIds(push_bounded(obs, x, max_observations)) \subseteq DeviceIds(obs) \cup {x.id}
  BY <1>2, LimitsAssumption, PushCitable
<1> QED BY <1>2, <1>3, <1>4

\* A step of the registry makes at most one observation citable, under the next
\* identity, and none without advancing the topology generation.
LEMMA CitableStep ==
  ASSUME IInv, [Next]_vars, CallersLeaveDevices
  PROVE  \/ /\ topology_gen' > topology_gen
            /\ DeviceIds(observations')
                 \subseteq DeviceIds(observations) \cup {next_observation}
            /\ next_observation' = next_observation + 1
         \/ /\ DeviceIds(observations') \subseteq DeviceIds(observations)
            /\ next_observation' \in Nat /\ next_observation' >= next_observation
            /\ UNCHANGED topology_gen
<1> DEFINE Fresh ==
      /\ DeviceIds(observations') \subseteq DeviceIds(observations) \cup {next_observation}
      /\ next_observation' = next_observation + 1
<1>1. /\ topology_gen \in Nat /\ next_observation \in Nat
      /\ observations \in Seq(Observation)
  BY DEF IInv, TopologyInv, EvidenceInv
<1>2. ASSUME NEW kind \in ObservationKind, NEW source \in DeviceId \cup {None},
             observe(observations, kind, source)
      PROVE  Fresh
  BY <1>1, <1>2, ObserveCitable
<1>3. {"device", "link", "link_state", "device_health", "topology", "recovery", "restore"}
        \subseteq ObservationKind
  BY DEF ObservationKind
<1>4. \A l \in DOMAIN links : links[l].source \in DeviceId
  BY DEF IInv, TopologyInv, WellFormed, IsMap, LinkRecord
<1>5. ASSUME NEW id \in DeviceId \cup {None}, NEW d, upsert_device(id, d) PROVE Fresh
  BY <1>2, <1>3, <1>5 DEF upsert_device
<1>6. ASSUME NEW id \in DeviceId, remove_device(id) PROVE Fresh
  BY <1>2, <1>3, <1>6 DEF remove_device
<1>7. ASSUME NEW id, NEW r \in LinkReports, upsert_link(id, r) PROVE Fresh
  <2>1. r.source \in DeviceId
    BY ReportsAssumption DEF LinkRecord
  <2> QED BY <1>2, <1>3, <1>7, <2>1 DEF upsert_link
<1>8. ASSUME NEW id, remove_link(id) PROVE Fresh
  BY <1>2, <1>3, <1>4, <1>8 DEF remove_link
<1>9. ASSUME NEW id, NEW st, NEW dg, update_link_state(id, st, dg) PROVE Fresh
  BY <1>2, <1>3, <1>4, <1>9 DEF update_link_state
<1>10. ASSUME NEW id \in DeviceId, NEW h, update_device_health(id, h) PROVE Fresh
  BY <1>2, <1>3, <1>10 DEF update_device_health
<1>11. ASSUME advance_topology PROVE Fresh
  BY <1>2, <1>3, <1>11 DEF advance_topology
<1>12. ASSUME mark_dynamic_evidence_revalidation_required PROVE Fresh
  <2>1. PICK obs : /\ obs = [i \in DOMAIN observations |->
                              [observations[i] EXCEPT !.stale = TRUE]]
                   /\ observe(obs, "recovery", None)
    BY <1>12, Zenon DEF mark_dynamic_evidence_revalidation_required
  <2>2. \A i \in DOMAIN observations : observations[i] \in Observation
    BY <1>1, LenProperties, ElementOfSeq
  <2>3. obs \in [DOMAIN observations -> Observation]
    BY <2>1, <2>2 DEF Observation
  <2>4. obs \in Seq(Observation)
    BY <1>1, <2>3, RewriteSeq
  <2>5. \A i \in DOMAIN observations : /\ obs[i].kind = observations[i].kind
                                       /\ obs[i].id = observations[i].id
    BY <2>1, <2>2 DEF Observation
  <2>6. DeviceIds(obs) \subseteq DeviceIds(observations)
    BY <2>3, <2>5 DEF DeviceIds
  <2> QED BY <1>1, <1>3, <2>1, <2>4, <2>6, ObserveCitable
<1>13. ASSUME NEW s, restore_durable_state(s) PROVE Fresh
  <2>1. << >> \in Seq(Observation) /\ DeviceIds(<< >>) \subseteq DeviceIds(observations)
    BY DEF DeviceIds
  <2>2. observe(<< >>, "restore", None)
    BY <1>13 DEF restore_durable_state
  <2> QED BY <1>1, <1>3, <2>1, <2>2, ObserveCitable
<1>14. ASSUME NEW o \in ObservationReports, publish_observation(o)
       PROVE  /\ DeviceIds(observations') \subseteq DeviceIds(observations)
              /\ next_observation' \in Nat /\ next_observation' >= next_observation
  <2>1. o \in Observation /\ o.kind # "device"
    BY ReportsAssumption DEF CallersLeaveDevices
  <2>2. PICK x : x = [o EXCEPT !.id = IF o.id = 0 THEN next_observation ELSE o.id,
                               !.stale = FALSE]
    OBVIOUS
  <2>3. x \in Observation /\ x.kind # "device"
    BY <1>1, <2>1, <2>2 DEF Observation
  <2>4. observations' = push_bounded(observations, x, max_observations)
    BY <1>14, <2>2, Zenon DEF publish_observation
  <2>5. DeviceIds(observations') \subseteq DeviceIds(observations)
    BY <1>1, <2>3, <2>4, LimitsAssumption, PushCitable
  <2>6. next_observation' \in Nat /\ next_observation' >= next_observation
    BY <1>1, <1>14 DEF publish_observation
  <2> QED BY <2>5, <2>6
<1>15. ASSUME NEW m, publish_measurement(m) PROVE UNCHANGED <<observations, next_observation>>
  BY <1>15 DEF publish_measurement
<1>16. ASSUME capture_durable_state PROVE UNCHANGED <<observations, next_observation>>
  BY <1>16 DEF capture_durable_state
<1>17. ASSUME UNCHANGED <<observations, next_observation>>
       PROVE  /\ DeviceIds(observations') \subseteq DeviceIds(observations)
              /\ next_observation' \in Nat /\ next_observation' >= next_observation
  BY <1>1, <1>17
<1>18. ASSUME NEW o, publish_observation(o) PROVE UNCHANGED topology_gen
  BY <1>18 DEF publish_observation
<1>19. ASSUME NEW m, publish_measurement(m) PROVE UNCHANGED topology_gen
  BY <1>19 DEF publish_measurement
<1>20. ASSUME capture_durable_state PROVE UNCHANGED topology_gen
  BY <1>20 DEF capture_durable_state
<1>21. ASSUME UNCHANGED vars
       PROVE  UNCHANGED topology_gen /\ UNCHANGED <<observations, next_observation>>
  BY <1>21 DEF vars
<1>22. CASE topology_gen' > topology_gen
  <2>1. topology_gen' # topology_gen
    BY <1>1, <1>22
  <2>2. Fresh
    BY <2>1, <1>5, <1>6, <1>7, <1>8, <1>9, <1>10, <1>11, <1>12, <1>13, <1>18, <1>19,
       <1>20, <1>21, Zenon DEF Next
  <2> QED BY <1>22, <2>2
<1>23. CASE topology_gen' = topology_gen
  <2>1. \/ \E o \in ObservationReports : publish_observation(o)
        \/ UNCHANGED <<observations, next_observation>>
    <3>1. \/ \E o \in ObservationReports : publish_observation(o)
          \/ \E m \in MeasurementReports : publish_measurement(m)
          \/ capture_durable_state
          \/ UNCHANGED vars
      BY <1>1, <1>23, StepAdvances
    <3> QED BY <1>15, <1>16, <1>21, <3>1
  <2> QED BY <1>14, <1>17, <1>23, <2>1
<1> QED BY <1>22, <1>23, StepAdvances

\* The citations of decide_route's second read are observations of devices.
LEMMA CitesDevices ==
  ASSUME NEW obs, NEW src, NEW p
  PROVE  collect_evidence(obs, src, p) \subseteq DeviceIds(obs)
BY DEF collect_evidence, DeviceIds

\* What a decision made in this step is dated with.
LEMMA DecisionDated ==
  ASSUME NEW view, NEW src, NEW tgt, NEW policy, NEW p, NEW outcome
  PROVE  /\ decision_on(view, src, tgt, policy, p, outcome).as_of = next_observation
         /\ decision_on(view, src, tgt, policy, p, outcome).evidence_references = {}
         /\ "evidence_references" \in DOMAIN decision_on(view, src, tgt, policy, p, outcome)
         /\ bare_decision(src, tgt, policy, outcome).evidence_references = {}
<1>1. PICK b : b = bare_decision(src, tgt, policy, outcome)
  OBVIOUS
<1>2. b.as_of = next_observation /\ b.evidence_references = {}
  BY <1>1 DEF bare_decision
<1> DEFINE d == decision_on(view, src, tgt, policy, p, outcome)
<1>3. d.as_of = next_observation /\ d.evidence_references = {}
  BY Zenon DEF decision_on, bare_decision
<1>4. "evidence_references" \in DOMAIN d
  <2>1. "evidence_references" \in DOMAIN b
    BY <1>1 DEF bare_decision
  <2> QED BY <1>1, <2>1 DEF decision_on
<1> QED BY <1>1, <1>2, <1>3, <1>4

\* A registry step keeps what is current dated: either nothing stays current, or
\* nothing new can be cited.
LEMMA RegistryDated ==
  ASSUME RouteInv, EvidenceDated, CallersLeaveDevices, [Next]_vars, UNCHANGED route_vars
  PROVE  EvidenceDated'
<1>1. /\ topology_gen \in Nat /\ topology_gen' \in Nat
      /\ next_observation \in Nat /\ next_observation' \in Nat
      /\ pending' = pending /\ decisions' = decisions
  BY NextInv DEF RouteInv, IInv, TopologyInv, EvidenceInv, route_vars
<1>2. \/ /\ topology_gen' > topology_gen
         /\ DeviceIds(observations') \subseteq DeviceIds(observations) \cup {next_observation}
         /\ next_observation' = next_observation + 1
      \/ /\ DeviceIds(observations') \subseteq DeviceIds(observations)
         /\ next_observation' >= next_observation
         /\ topology_gen' = topology_gen
  BY CitableStep DEF RouteInv
<1>3. \A i \in DeviceIds(observations) : i \in Nat
  <2>1. \A i \in DOMAIN observations : observations[i] \in Observation
    BY LenProperties, ElementOfSeq DEF RouteInv, IInv, EvidenceInv
  <2> QED BY <2>1 DEF DeviceIds, Observation
<1>4. \A i \in DeviceIds(observations)' : i < next_observation'
  BY <1>1, <1>2, <1>3 DEF EvidenceDated
<1>5. \A c \in Client :
        /\ pending[c] # None => /\ pending[c].topology_generation \in Nat
                                /\ pending[c].topology_generation <= topology_gen
        /\ decisions[c] # None => /\ decisions[c].topology_generation \in Nat
                                  /\ decisions[c].topology_generation <= topology_gen
  BY DEF RouteInv, DecisionInv, Sound
<1>6. CASE topology_gen' > topology_gen
  <2>1. \A n \in Nat : n <= topology_gen => n # topology_gen'
    BY <1>1, <1>6
  <2> QED BY <1>1, <1>4, <1>5, <2>1 DEF EvidenceDated
<1>7. CASE /\ topology_gen' = topology_gen
           /\ DeviceIds(observations') \subseteq DeviceIds(observations)
  BY <1>1, <1>4, <1>7 DEF EvidenceDated
<1> QED BY <1>2, <1>6, <1>7

\* decide_route computes on a view that has seen every observation so far.
LEMMA DecideDated ==
  ASSUME RouteInv, EvidenceDated, NEW c \in Client, NEW src, NEW tgt, NEW policy,
         decide_route(c, src, tgt, policy)
  PROVE  EvidenceDated'
<1>1. UNCHANGED <<topology_gen, observations, next_observation>>
  BY DEF decide_route, vars
<1>2. DOMAIN pending = Client /\ DOMAIN decisions = Client
  BY DEF RouteInv, DecisionInv
<1>3. ASSUME NEW d, d.evidence_references = {}, pending' = pending,
             decisions' = [decisions EXCEPT ![c] = d]
      PROVE  EvidenceDated'
  BY <1>1, <1>2, <1>3 DEF EvidenceDated
<1>4. ASSUME NEW d, d.as_of = next_observation, "evidence_references" \in DOMAIN d,
             decisions' = decisions,
             pending' = [pending EXCEPT ![c] = d]
      PROVE  EvidenceDated'
  BY <1>1, <1>2, <1>4 DEF EvidenceDated
<1>5. CASE endpoints_missing(c, src, tgt, policy)
  <2>1. PICK d : d = bare_decision(src, tgt, policy, "NO_ROUTE")
    OBVIOUS
  <2>2. d.evidence_references = {}
    BY <2>1, DecisionDated
  <2>3. decisions' = [decisions EXCEPT ![c] = d] /\ pending' = pending
    BY <1>5, <2>1, Zenon DEF endpoints_missing
  <2> QED BY <1>3, <2>2, <2>3
<1>6. CASE no_eligible_path(c, consistent_view, src, tgt, policy)
  <2>1. PICK outcome :
          /\ decisions' = [decisions EXCEPT
                 ![c] = decision_on(consistent_view, src, tgt, policy, << >>, outcome)]
          /\ pending' = pending
    BY <1>6, Zenon DEF no_eligible_path
  <2>2. PICK d : d = decision_on(consistent_view, src, tgt, policy, << >>, outcome)
    OBVIOUS
  <2>3. d.evidence_references = {}
    BY <2>2, DecisionDated
  <2>4. decisions' = [decisions EXCEPT ![c] = d]
    BY <2>1, <2>2, Zenon
  <2> QED BY <1>3, <2>1, <2>3, <2>4
<1>7. CASE select_path(c, consistent_view, src, tgt, policy)
  <2>1. PICK p, outcome :
          /\ pending' = [pending EXCEPT
                 ![c] = decision_on(consistent_view, src, tgt, policy, p, outcome)]
          /\ decisions' = decisions
    BY <1>7, Zenon DEF select_path
  <2>2. PICK d : d = decision_on(consistent_view, src, tgt, policy, p, outcome)
    OBVIOUS
  <2>3. d.as_of = next_observation /\ "evidence_references" \in DOMAIN d
    BY <2>2, DecisionDated
  <2>4. pending' = [pending EXCEPT ![c] = d]
    BY <2>1, <2>2, Zenon
  <2> QED BY <1>4, <2>1, <2>3, <2>4
<1> QED BY <1>5, <1>6, <1>7 DEF decide_route

\* The second read cites what is there: all of it seen by the view, if the
\* topology is still the view's.
LEMMA CiteDated ==
  ASSUME RouteInv, EvidenceDated, NEW c \in Client, cite_evidence(c)
  PROVE  EvidenceDated'
<1>1. UNCHANGED <<topology_gen, observations, next_observation>> /\ pending[c] # None
  BY DEF cite_evidence, vars
<1>2. DOMAIN pending = Client /\ DOMAIN decisions = Client
  BY DEF RouteInv, DecisionInv
<1>3. PICK ev : ev = collect_evidence(observations, pending[c].source, pending[c].selected)
  OBVIOUS
<1>4. PICK d : d = [pending[c] EXCEPT !.evidence_references = ev]
  OBVIOUS
<1>5. /\ decisions' = [decisions EXCEPT ![c] = d]
      /\ pending' = [pending EXCEPT ![c] = None]
  BY <1>3, <1>4, Zenon DEF cite_evidence
<1>6. ev \subseteq DeviceIds(observations)
  BY <1>3, CitesDevices
<1>7. /\ d.topology_generation = pending[c].topology_generation
      /\ d.as_of = pending[c].as_of
      /\ d.evidence_references = ev
  BY <1>1, <1>4 DEF EvidenceDated
<1>8. d.topology_generation = topology_gen => \A i \in d.evidence_references : i < d.as_of
  BY <1>1, <1>6, <1>7 DEF EvidenceDated
<1> QED BY <1>1, <1>2, <1>5, <1>8 DEF EvidenceDated

\* revalidate_route returns a decision that cites nothing.
LEMMA RevalidateDated ==
  ASSUME RouteInv, EvidenceDated, NEW c \in Client, revalidate_route(c)
  PROVE  EvidenceDated'
<1>1. UNCHANGED <<topology_gen, observations, next_observation, pending>>
  BY DEF revalidate_route, vars
<1>2. DOMAIN decisions = Client
  BY DEF RouteInv, DecisionInv
<1>3. PICK d : d = bare_decision(decisions[c].source, decisions[c].target,
                                 decisions[c].policy, "REVALIDATION_REQUIRED")
  OBVIOUS
<1>4. d.evidence_references = {}
  BY <1>3, DecisionDated
<1>5. decisions' = [decisions EXCEPT ![c] = d]
  BY <1>3, Zenon DEF revalidate_route
<1> QED BY <1>1, <1>2, <1>4, <1>5 DEF EvidenceDated

\* If callers leave observations of devices to the registry, a decision that
\* is_route_executable accepts cites only observations made before the view it
\* was computed on, although decide_route reads them after the computation: a
\* device observation between the two reads is a change of the topology, which
\* takes the decision's authority.
THEOREM ExecutableCitesWhatItSaw ==
  ASSUME CallersLeaveDevices
  PROVE  RouteSpec => []ExecutableCitesItsView
<1>1. RouteInit => EvidenceDated
  BY DEF RouteInit, Init, EvidenceDated, DeviceIds
<1>2. RouteInv /\ EvidenceDated /\ [RouteNext]_all_vars => EvidenceDated'
  <2> SUFFICES ASSUME RouteInv, EvidenceDated, [RouteNext]_all_vars PROVE EvidenceDated'
    OBVIOUS
  <2>1. ASSUME [Next]_vars, UNCHANGED route_vars PROVE EvidenceDated'
    BY <2>1, RegistryDated
  <2>2. CASE UNCHANGED all_vars
    BY <2>1, <2>2 DEF all_vars, route_vars
  <2> QED BY <2>1, <2>2, DecideDated, CiteDated, RevalidateDated, Zenon DEF RouteNext
<1>3. EvidenceDated => ExecutableCitesItsView
  BY DEF EvidenceDated, ExecutableCitesItsView, is_route_executable
<1> QED BY <1>1, <1>2, <1>3, RouteInitInv, RouteNextInv, PTL DEF RouteSpec

-----------------------------------------------------------------------------
(* The path an executable decision selected *)

\* A decision that is executable and of the current topology selected a path
\* from its source to its target.
Connected(d) ==
  d.executable /\ d.topology_generation = topology_gen =>
    /\ Walk(consistent_view, d.source, d.selected)
    /\ device_at(d.source, d.selected, Len(d.selected)) = d.target

PathsInv ==
  /\ RouteTypeOK
  /\ \A c \in Client : /\ pending[c] # None => Connected(pending[c])
                       /\ decisions[c] # None => Connected(decisions[c])

\* The view of a decision is one the search is exact on.
LEMMA ViewRoutable == IInv => Routable(consistent_view)
<1> SUFFICES ASSUME IInv PROVE Routable(consistent_view)
  OBVIOUS
<1>1. consistent_view.links = links
  BY DEF consistent_view
<1>2. /\ DOMAIN links \subseteq LinkId /\ IsFiniteSet(DOMAIN links)
      /\ \A l \in DOMAIN links : links[l] \in LinkRecord /\ links[l].source # links[l].target
  BY DEF IInv, TopologyInv, WellFormed, IsMap
<1>3. \A l \in DOMAIN links : links[l].source \in DeviceId /\ links[l].target \in DeviceId
  BY <1>2 DEF LinkRecord
<1> QED BY <1>1, <1>2, <1>3 DEF Routable

\* A path is one of the links alone.
LEMMA WalkOnLinks ==
  ASSUME NEW v, NEW u, v.links = u.links, NEW src, NEW p
  PROVE  Walk(v, src, p) = Walk(u, src, p)
<1>1. \A d : edges_from(v, d) = edges_from(u, d)
  BY DEF edges_from
<1> QED BY <1>1 DEF Walk

\* A step that leaves the topology alone keeps a decision connected.
LEMMA ConnectedStays ==
  ASSUME UNCHANGED <<topology_gen, links>>, NEW d, Connected(d)
  PROVE  Connected(d)'
<1>1. PICK v, u : v = consistent_view' /\ u = consistent_view
  OBVIOUS
<1>2. v.links = u.links
  BY <1>1 DEF consistent_view
<1>3. Walk(v, d.source, d.selected) = Walk(u, d.source, d.selected)
  BY <1>2, WalkOnLinks
<1>4. topology_gen' = topology_gen
  OBVIOUS
<1> QED BY <1>1, <1>3, <1>4, Zenon DEF Connected

\* So does one that advances its generation, after which the decision is one of
\* an earlier topology.
LEMMA ConnectedKept ==
  ASSUME RouteInv, [Next]_vars, NEW d, Sound(d), Connected(d)
  PROVE  Connected(d)'
<1>1. \/ topology_gen' > topology_gen
      \/ UNCHANGED <<topology_gen, devices, links>>
  BY StepAdvances DEF RouteInv
<1>2. topology_gen \in Nat /\ topology_gen' \in Nat
  BY NextInv DEF RouteInv, IInv, TopologyInv
<1>3. CASE topology_gen' > topology_gen
  BY <1>2, <1>3 DEF Sound, Connected
<1>4. CASE UNCHANGED <<topology_gen, devices, links>>
  BY <1>4, ConnectedStays
<1> QED BY <1>1, <1>3, <1>4

\* The types of a decision without a path.
LEMMA BareTyped ==
  ASSUME next_observation \in Nat, NEW src \in DeviceId, NEW tgt \in DeviceId,
         NEW policy \in RoutePolicy, NEW outcome \in RouteDecisionOutcome
  PROVE  bare_decision(src, tgt, policy, outcome) \in RouteDecision
<1>1. << >> \in Seq(Edge)
  BY EmptySeq
<1> QED BY <1>1 DEF bare_decision, RouteDecision

\* The types of a decision on the current view.
LEMMA DecisionTyped ==
  ASSUME IInv, NEW src \in DeviceId, NEW tgt \in DeviceId, {src, tgt} \subseteq DOMAIN devices,
         NEW policy \in RoutePolicy, NEW outcome \in RouteDecisionOutcome,
         NEW p \in Seq(Edge)
  PROVE  decision_on(consistent_view, src, tgt, policy, p, outcome) \in RouteDecision
<1>1. PICK b \in RouteDecision : b = bare_decision(src, tgt, policy, outcome)
  BY BareTyped DEF IInv, EvidenceInv
<1>2. PICK g \in Nat : g = consistent_view.generation
  BY DEF consistent_view, IInv, TopologyInv
<1>3. \A d \in DOMAIN devices : devices[d].generation \in Nat
  BY DEF IInv, TopologyInv, WellFormed, IsMap, DeviceRecord
<1>4. PICK s \in Nat, t \in Nat : /\ s = consistent_view.devices[src].generation
                                  /\ t = consistent_view.devices[tgt].generation
  BY <1>3 DEF consistent_view
<1>5. PICK x \in BOOLEAN : x = (outcome \in {"ROUTE_ALLOWED", "ROUTE_ALLOWED_DEGRADED"})
  <2>1. CASE outcome \in {"ROUTE_ALLOWED", "ROUTE_ALLOWED_DEGRADED"}
    <3>1. TRUE = (outcome \in {"ROUTE_ALLOWED", "ROUTE_ALLOWED_DEGRADED"})
      BY <2>1
    <3> QED BY <3>1, Zenon
  <2>2. CASE outcome \notin {"ROUTE_ALLOWED", "ROUTE_ALLOWED_DEGRADED"}
    <3>1. FALSE = (outcome \in {"ROUTE_ALLOWED", "ROUTE_ALLOWED_DEGRADED"})
      BY <2>2
    <3> QED BY <3>1, Zenon
  <2> QED BY <2>1, <2>2, Zenon
<1>6. [b EXCEPT !.topology_generation = g, !.source_generation = s,
                !.target_generation = t, !.selected = p, !.executable = x] \in RouteDecision
  BY DEF RouteDecision
<1> QED BY <1>1, <1>2, <1>4, <1>5, <1>6, Zenon DEF decision_on

\* A decision without a path is never executable, and one on the current view
\* is connected if its path is.
LEMMA BareConnected ==
  ASSUME NEW src, NEW tgt, NEW policy, NEW outcome
  PROVE  Connected(bare_decision(src, tgt, policy, outcome))
BY DEF Connected, bare_decision

LEMMA DecisionConnected ==
  ASSUME NEW src, NEW tgt, NEW policy, NEW p, NEW outcome,
         outcome \in {"ROUTE_ALLOWED", "ROUTE_ALLOWED_DEGRADED"} =>
           /\ Walk(consistent_view, src, p)
           /\ device_at(src, p, Len(p)) = tgt
  PROVE  Connected(decision_on(consistent_view, src, tgt, policy, p, outcome))
<1> DEFINE d == decision_on(consistent_view, src, tgt, policy, p, outcome)
<1>1. d.source = src /\ d.target = tgt /\ d.selected = p
  BY Zenon DEF decision_on, bare_decision
<1>2. d.executable => outcome \in {"ROUTE_ALLOWED", "ROUTE_ALLOWED_DEGRADED"}
  BY Zenon DEF decision_on, bare_decision
<1> HIDE DEF d
<1>3. Connected(d)
  BY <1>1, <1>2, Zenon DEF Connected
<1> QED BY <1>3 DEF d

\* A step of one client that leaves the registry alone and gives the client a
\* decision of the right type with a path keeps the invariant.
LEMMA ClientPaths ==
  ASSUME RouteInv, PathsInv, UNCHANGED vars, NEW c \in Client,
         NEW d \in RouteDecision, Connected(d),
         \/ decisions' = [decisions EXCEPT ![c] = d] /\ pending' = pending
         \/ decisions' = [decisions EXCEPT ![c] = d] /\ pending' = [pending EXCEPT ![c] = None]
         \/ pending' = [pending EXCEPT ![c] = d] /\ decisions' = decisions
  PROVE  PathsInv'
<1>1. \A x : Connected(x) => Connected(x)'
  BY ConnectedStays DEF vars
<1>2. /\ DOMAIN pending = Client /\ DOMAIN decisions = Client
      /\ \A k \in Client : /\ pending[k] # None => Connected(pending[k])
                           /\ decisions[k] # None => Connected(decisions[k])
  BY DEF RouteInv, DecisionInv, PathsInv
<1>3. RouteTypeOK'
  BY DEF PathsInv, RouteTypeOK
<1>4. Connected(d)'
  BY <1>1
<1>5. \A k \in Client : /\ pending'[k] \in {pending[k], None, d}
                        /\ decisions'[k] \in {decisions[k], d}
  BY <1>2
<1>6. \A k \in Client : /\ pending'[k] # None => Connected(pending[k])'
                        /\ decisions'[k] # None => Connected(decisions[k])'
  BY <1>1, <1>2, <1>4, <1>5
<1> QED BY <1>3, <1>6 DEF PathsInv

\* decide_route selects among what the search found.
LEMMA DecidePaths ==
  ASSUME RouteInv, PathsInv, NEW c \in Client, NEW src \in DeviceId, NEW tgt \in DeviceId,
         NEW policy \in RoutePolicy, decide_route(c, src, tgt, policy)
  PROVE  PathsInv'
<1>1. IInv /\ next_observation \in Nat /\ UNCHANGED vars
  BY DEF RouteInv, IInv, EvidenceInv, decide_route
<1>2. CASE endpoints_missing(c, src, tgt, policy)
  <2>1. PICK d : d = bare_decision(src, tgt, policy, "NO_ROUTE")
    OBVIOUS
  <2>2. d \in RouteDecision
    <3>1. "NO_ROUTE" \in RouteDecisionOutcome
      BY DEF RouteDecisionOutcome
    <3> QED BY <1>1, <2>1, <3>1, BareTyped
  <2>3. Connected(d)
    BY <2>1, BareConnected
  <2>4. decisions' = [decisions EXCEPT ![c] = d] /\ pending' = pending
    BY <1>2, <2>1, Zenon DEF endpoints_missing
  <2> QED BY <1>1, <2>2, <2>3, <2>4, ClientPaths
<1>3. CASE no_eligible_path(c, consistent_view, src, tgt, policy)
  <2>1. \A found : rejection_outcome(consistent_view, src, tgt, found, policy)
                     \in {"UNSUPPORTED", "REVALIDATION_REQUIRED", "POLICY_REJECTED"}
    BY DEF rejection_outcome
  <2>2. PICK outcome \in {"NO_ROUTE", "UNSUPPORTED", "REVALIDATION_REQUIRED", "POLICY_REJECTED"} :
          /\ decisions' = [decisions EXCEPT
                 ![c] = decision_on(consistent_view, src, tgt, policy, << >>, outcome)]
          /\ pending' = pending
    BY <1>3, <2>1, Zenon DEF no_eligible_path
  <2>3. PICK d : d = decision_on(consistent_view, src, tgt, policy, << >>, outcome)
    OBVIOUS
  <2>4. d \in RouteDecision
    <3>1. outcome \in RouteDecisionOutcome
      BY <2>2 DEF RouteDecisionOutcome
    <3>2. {src, tgt} \subseteq DOMAIN devices
      BY <1>3 DEF no_eligible_path
    <3>3. << >> \in Seq(Edge)
      BY EmptySeq
    <3> QED BY <1>1, <2>3, <3>1, <3>2, <3>3, DecisionTyped
  <2>5. Connected(d)
    <3>1. outcome \notin {"ROUTE_ALLOWED", "ROUTE_ALLOWED_DEGRADED"}
      BY <2>2
    <3> QED BY <2>3, <3>1, DecisionConnected
  <2>6. decisions' = [decisions EXCEPT ![c] = d] /\ pending' = pending
    BY <2>2, <2>3, Zenon
  <2> QED BY <1>1, <2>4, <2>5, <2>6, ClientPaths
<1>4. CASE select_path(c, consistent_view, src, tgt, policy)
  <2>1. \A p : compute_quality(consistent_view, src, tgt, p) \in
                 {"LINK_DOWN", "UNSUPPORTED", "REVALIDATION_REQUIRED", "CONTENDED",
                  "DEGRADED", "INSUFFICIENT_EVIDENCE", "HEALTHY"}
    BY DEF compute_quality
  <2>2. PICK p \in candidates(consistent_view, src, tgt) :
          /\ pending' = [pending EXCEPT
                 ![c] = decision_on(consistent_view, src, tgt, policy, p,
                          decision_outcome(compute_quality(consistent_view, src, tgt, p)))]
          /\ decisions' = decisions
    BY <1>4, Zenon DEF select_path, best_paths
  <2>3. PICK outcome \in RouteDecisionOutcome :
          outcome = decision_outcome(compute_quality(consistent_view, src, tgt, p))
    <3>1. PICK q \in {"LINK_DOWN", "UNSUPPORTED", "REVALIDATION_REQUIRED", "CONTENDED",
                      "DEGRADED", "INSUFFICIENT_EVIDENCE", "HEALTHY"} :
            q = compute_quality(consistent_view, src, tgt, p)
      BY <2>1
    <3>2. decision_outcome(q) \in RouteDecisionOutcome
      BY <3>1 DEF decision_outcome, RouteDecisionOutcome
    <3> QED BY <3>1, <3>2
  <2>4. PICK d : d = decision_on(consistent_view, src, tgt, policy, p, outcome)
    OBVIOUS
  <2>5. Walk(consistent_view, src, p) /\ device_at(src, p, Len(p)) = tgt
    <3>1. p \in Elements(enumerate_paths_impl(consistent_view, src, tgt))
      BY <2>2, Zenon DEF candidates, Elements
    <3> QED BY <1>1, <3>1, ViewRoutable, FoundPaths
  <2>6. d \in RouteDecision
    <3>1. p \in Seq(Edge)
      BY <2>5 DEF Walk
    <3>2. {src, tgt} \subseteq DOMAIN devices
      BY <1>4 DEF select_path
    <3> QED BY <1>1, <2>4, <3>1, <3>2, DecisionTyped
  <2>7. Connected(d)
    BY <2>4, <2>5, DecisionConnected
  <2>8. pending' = [pending EXCEPT ![c] = d] /\ decisions' = decisions
    BY <2>2, <2>3, <2>4, Zenon
  <2> QED BY <1>1, <2>6, <2>7, <2>8, ClientPaths
<1> QED BY <1>2, <1>3, <1>4 DEF decide_route

\* The second read adds the identities of observations.
LEMMA CitePaths ==
  ASSUME RouteInv, PathsInv, NEW c \in Client, cite_evidence(c)
  PROVE  PathsInv'
<1>1. UNCHANGED vars /\ pending[c] # None
  BY DEF cite_evidence
<1>2. PICK b \in RouteDecision : b = pending[c] /\ Connected(b)
  BY <1>1 DEF PathsInv, RouteTypeOK
<1>3. PICK ev : ev = collect_evidence(observations, pending[c].source, pending[c].selected)
  OBVIOUS
<1>4. ev \subseteq Nat
  <2>1. ev \subseteq DeviceIds(observations)
    BY <1>3, CitesDevices
  <2>2. \A i \in DOMAIN observations : observations[i] \in Observation
    BY LenProperties, ElementOfSeq DEF RouteInv, IInv, EvidenceInv
  <2>3. DeviceIds(observations) \subseteq Nat
    BY <2>2 DEF DeviceIds, Observation
  <2> QED BY <2>1, <2>3
<1>5. PICK d : d = [b EXCEPT !.evidence_references = ev]
  OBVIOUS
<1>6. d \in RouteDecision
  BY <1>4, <1>5 DEF RouteDecision
<1>7. /\ d.topology_generation = b.topology_generation /\ d.executable = b.executable
      /\ d.source = b.source /\ d.target = b.target /\ d.selected = b.selected
  BY <1>5 DEF RouteDecision
<1>8. Connected(d)
  BY <1>2, <1>7, Zenon DEF Connected
<1>9. /\ decisions' = [decisions EXCEPT ![c] = d]
      /\ pending' = [pending EXCEPT ![c] = None]
  BY <1>2, <1>3, <1>5, Zenon DEF cite_evidence
<1> QED BY <1>1, <1>6, <1>8, <1>9, ClientPaths

\* Revalidation returns a decision without a path.
LEMMA RevalidatePaths ==
  ASSUME RouteInv, PathsInv, NEW c \in Client, revalidate_route(c)
  PROVE  PathsInv'
<1>1. /\ UNCHANGED vars /\ decisions[c] # None /\ next_observation \in Nat
  BY DEF RouteInv, IInv, EvidenceInv, revalidate_route
<1>2. PICK b \in RouteDecision : b = decisions[c]
  BY <1>1 DEF PathsInv, RouteTypeOK
<1>3. PICK d : d = bare_decision(b.source, b.target, b.policy, "REVALIDATION_REQUIRED")
  OBVIOUS
<1>4. d \in RouteDecision
  <2>1. b.source \in DeviceId /\ b.target \in DeviceId /\ b.policy \in RoutePolicy
    BY DEF RouteDecision
  <2>2. "REVALIDATION_REQUIRED" \in RouteDecisionOutcome
    BY DEF RouteDecisionOutcome
  <2> QED BY <1>1, <1>3, <2>1, <2>2, BareTyped
<1>5. Connected(d)
  BY <1>3, BareConnected
<1>6. decisions' = [decisions EXCEPT ![c] = d] /\ pending' = pending
  BY <1>2, <1>3, Zenon DEF revalidate_route
<1> QED BY <1>1, <1>4, <1>5, <1>6, ClientPaths

\* A step of the registry keeps the decisions and revokes what it must.
LEMMA RegistryPaths ==
  ASSUME RouteInv, PathsInv, [Next]_vars, UNCHANGED route_vars
  PROVE  PathsInv'
<1>1. \A d : Sound(d) /\ Connected(d) => Connected(d)'
  BY ConnectedKept
<1>2. pending' = pending /\ decisions' = decisions
  BY DEF route_vars
<1>3. \A c \in Client : /\ pending[c] # None => Sound(pending[c]) /\ Connected(pending[c])
                        /\ decisions[c] # None => Sound(decisions[c]) /\ Connected(decisions[c])
  BY DEF RouteInv, DecisionInv, PathsInv
<1>4. RouteTypeOK'
  BY <1>2 DEF PathsInv, RouteTypeOK
<1> QED BY <1>1, <1>2, <1>3, <1>4 DEF PathsInv

\* Every step preserves types and paths.
LEMMA PathsHold == RouteSpec => []PathsInv
<1>1. RouteInit => PathsInv
  BY DEF RouteInit, PathsInv, RouteTypeOK
<1>2. RouteInv /\ PathsInv /\ [RouteNext]_all_vars => PathsInv'
  <2> SUFFICES ASSUME RouteInv, PathsInv, [RouteNext]_all_vars PROVE PathsInv'
    OBVIOUS
  <2>1. ASSUME [Next]_vars, UNCHANGED route_vars PROVE PathsInv'
    BY <2>1, RegistryPaths
  <2>2. CASE UNCHANGED all_vars
    BY <2>1, <2>2 DEF all_vars, route_vars
  <2>3. ASSUME NEW c \in Client, NEW r \in Requests, NEW policy \in Policies,
               decide_route(c, r[1], r[2], policy) PROVE PathsInv'
    <3>1. r[1] \in DeviceId /\ r[2] \in DeviceId /\ policy \in RoutePolicy
      BY RequestsAssumption
    <3> QED BY <2>3, <3>1, DecidePaths
  <2> QED BY <2>1, <2>2, <2>3, CitePaths, RevalidatePaths, Zenon DEF RouteNext
<1> QED BY <1>1, <1>2, RouteInitInv, RouteNextInv, PTL DEF RouteSpec

\* The decisions clients hold have the types of route.hpp, whatever the search
\* returned and whatever evidence decide_route cited.
THEOREM RouteTypeCorrect == RouteSpec => []RouteTypeOK
<1>1. PathsInv => RouteTypeOK
  BY DEF PathsInv
<1> QED BY <1>1, PathsHold, PTL

\* As long as is_route_executable accepts a decision, the path that decide_route
\* selected leads from its source to its target in the topology of the moment.
THEOREM ExecutableMeansConnected == RouteSpec => []ExecutableRouteConnects
<1>1. PathsInv => ExecutableRouteConnects
  <2> SUFFICES ASSUME PathsInv, NEW c \in Client, decisions[c] # None,
                      is_route_executable(decisions[c])
               PROVE  LET d == decisions[c]
                          at(i) == IF i = 0 THEN d.source ELSE d.selected[i].to
                      IN  /\ at(Len(d.selected)) = d.target
                          /\ \A i \in DOMAIN d.selected :
                               d.selected[i] \in edges_from(consistent_view, at(i - 1))
    BY Zenon DEF ExecutableRouteConnects
  <2>1. PICK d \in RouteDecision : d = decisions[c]
    BY DEF PathsInv, RouteTypeOK
  <2>2. Connected(d) /\ d.executable /\ d.topology_generation = topology_gen
    BY <2>1 DEF PathsInv, is_route_executable
  <2>3. /\ Walk(consistent_view, d.source, d.selected)
        /\ device_at(d.source, d.selected, Len(d.selected)) = d.target
    BY <2>2, Zenon DEF Connected
  <2>4. DOMAIN d.selected = 1..Len(d.selected)
    BY LenProperties DEF RouteDecision
  <2> QED BY <2>1, <2>3, <2>4, Zenon DEF Walk, device_at
<1> QED BY <1>1, PathsHold, PTL

=============================================================================
