----------------------------- MODULE PathPlanning -----------------------------
(***************************************************************************)
(* Path enumeration, path quality, eligibility and ranking: the pure part  *)
(* of route governance (src/core/path.cpp, src/core/policy.cpp).  Every    *)
(* operator works on a view, the immutable snapshot that consistent_view   *)
(* returns:                                                                *)
(*   [generation, devices, links, measurements].                           *)
(*                                                                         *)
(* All links are taken to have evidence of one class, as every link that a *)
(* worker publishes has.                                                   *)
(***************************************************************************)
EXTENDS FabricTypes, Sequences, FiniteSets

Seqs == INSTANCE SequencesExt

CONSTANTS max_path_depth, max_candidate_paths   \* limits.hpp

ASSUME LinkIdsOrdered == LinkId \subseteq Nat

ASSUME PathLimits == max_path_depth \in Nat /\ max_candidate_paths \in Nat

\* HardConstraint
RoutePolicy ==
  [require_supported_links: BOOLEAN, require_fresh: BOOLEAN,
   min_nominal_bandwidth: Nat \cup {None}, min_measured_bandwidth: Nat \cup {None},
   required_technology: InterconnectTechnology \cup {None},
   max_hops: Nat \cup {None}, require_direct: BOOLEAN, exclude_degraded: BOOLEAN,
   exclude_down: BOOLEAN, exclude_contended: BOOLEAN]

default_policy ==
  [require_supported_links |-> TRUE, require_fresh |-> TRUE,
   min_nominal_bandwidth |-> None, min_measured_bandwidth |-> None,
   required_technology |-> None, max_hops |-> None,
   require_direct |-> FALSE, exclude_degraded |-> FALSE, exclude_down |-> TRUE,
   exclude_contended |-> FALSE]

-----------------------------------------------------------------------------
(* Enumeration.  A path is the sequence of its hops after the source. *)

Edge == [link: LinkId, to: DeviceId]

\* The edges out of a device; an undirected link has one out of each end.
edges_from(view, d) ==
  {[link |-> l, to |-> view.links[l].target] :
     l \in {k \in DOMAIN view.links : view.links[k].source = d}}
  \cup
  {[link |-> l, to |-> view.links[l].source] :
     l \in {k \in DOMAIN view.links :
              ~view.links[k].directed /\ view.links[k].target = d}}

\* The adjacency list of a device, sorted by link identity.
build_adjacency(view, d) ==
  LET edges == edges_from(view, d)
  IN  CHOOSE adj \in [1..Cardinality(edges) -> edges] :
        \A i, j \in DOMAIN adj : i < j => adj[i].link < adj[j].link

\* The paths to tgt in depth-first order.  A hop that does not reach the
\* target is extended only while the depth allows another one.
dfs(view, src, tgt) ==
  LET from[p \in Seq(Edge)] ==
        LET cur == IF p = << >> THEN src ELSE p[Len(p)].to
            visited == {src} \cup {p[i].to : i \in DOMAIN p}
            adj == build_adjacency(view, cur)
            through(e) ==
              IF e.to \in visited THEN << >>
              ELSE IF e.to = tgt THEN << Append(p, e) >>
              ELSE IF Len(p) + 1 < max_path_depth THEN from[Append(p, e)]
              ELSE << >>
        IN  Seqs!FlattenSeq([i \in DOMAIN adj |-> through(adj[i])])
  IN  from[<< >>]

\* Mutant of enumerate_paths_impl: the number of candidates is not limited.
enumerate_all_paths(view, src, tgt) ==
  IF src = tgt THEN << >> ELSE dfs(view, src, tgt)

\* The search stops as soon as max_candidate_paths paths are found.
enumerate_paths_impl(view, src, tgt) ==
  IF src = tgt THEN << >>
  ELSE LET found == dfs(view, src, tgt)
       IN  IF Len(found) <= max_candidate_paths THEN found
           ELSE SubSeq(found, 1, max_candidate_paths)

path_links(p) == {p[i].link : i \in DOMAIN p}

\* What the search should find: the simple paths from src to tgt of at most
\* max_path_depth hops (a single hop is found at any depth limit).  Each hop is
\* an edge out of the device before it, no device is visited twice, and the
\* target is visited last.
device_at(src, p, i) == IF i = 0 THEN src ELSE p[i].to

simple_paths(view, src, tgt) ==
  LET depth == IF max_path_depth = 0 THEN 1 ELSE max_path_depth
      hops == UNION {edges_from(view, d) : d \in DeviceId}
  IN  {p \in UNION {[1..n -> hops] : n \in 1..depth} :
         /\ \A i \in 1..Len(p) : p[i] \in edges_from(view, device_at(src, p, i - 1))
         /\ \A i, j \in 0..Len(p) : i # j => device_at(src, p, i) # device_at(src, p, j)
         /\ device_at(src, p, Len(p)) = tgt}

\* The search returns distinct simple paths: all of them when they fit
\* max_candidate_paths, exactly that many otherwise.
enumerated_exactly(view, src, tgt) ==
  LET out == enumerate_paths_impl(view, src, tgt)
      found == {out[i] : i \in DOMAIN out}
      all == IF src = tgt THEN {} ELSE simple_paths(view, src, tgt)
  IN  /\ Cardinality(found) = Len(out)
      /\ found \subseteq all
      /\ Len(out) = IF Cardinality(all) <= max_candidate_paths
                      THEN Cardinality(all) ELSE max_candidate_paths

-----------------------------------------------------------------------------
(* Quality *)

in_state(view, l, S) == l \in DOMAIN view.links /\ view.links[l].state \in S

\* The latest usable measurement between the endpoints, whatever path it was
\* taken on; of those with the same time, the oldest in the history.
best_measurement(view, src, tgt) ==
  LET m == view.measurements
      usable == {i \in DOMAIN m : /\ m[i].valid /\ ~m[i].stale
                                  /\ m[i].source = src /\ m[i].target = tgt}
      latest == {i \in usable :
                   \A j \in usable : m[j].measured_at <= m[i].measured_at}
  IN  IF usable = {} THEN None
      ELSE m[CHOOSE i \in latest : \A j \in latest : i <= j]

contended(view, src, tgt) ==
  LET best == best_measurement(view, src, tgt)
  IN  best # None /\ best.contended

any_down(view, L) ==
  \E l \in L : \/ l \notin DOMAIN view.links
               \/ in_state(view, l, {"DOWN", "ABSENT", "UNREACHABLE"})

\* Mutant of any_reval: only one of the two states is tested.
any_stale(view, L) == \E l \in L : in_state(view, l, {"STALE"})

any_reval(view, L) ==
  \E l \in L : in_state(view, l, {"REVALIDATION_REQUIRED", "STALE"})

any_degraded(view, L) ==
  \E l \in L \cap DOMAIN view.links :
    view.links[l].degraded \/ view.links[l].state = "DEGRADED"

has_capability(view, L) ==
  \E l \in L \cap DOMAIN view.links :
    view.links[l].nominal_bandwidth > 0 \/ view.links[l].interconnect # "UNKNOWN"

\* The least of the bandwidths that are known, zero when none is.
nominal_bandwidth(view, L) ==
  LET known == {view.links[l].nominal_bandwidth : l \in L \cap DOMAIN view.links} \ {0}
  IN  IF known = {} THEN 0 ELSE CHOOSE b \in known : \A k \in known : b <= k

\* PathQuality::outcome, in the order of the code's tests.
compute_quality(view, src, tgt, p) ==
  LET L == path_links(p)
  IN  IF any_down(view, L) \/ p = << >> THEN "LINK_DOWN"
      ELSE IF \E l \in L : in_state(view, l, {"UNSUPPORTED"}) THEN "UNSUPPORTED"
      ELSE IF any_reval(view, L) THEN "REVALIDATION_REQUIRED"
      ELSE IF contended(view, src, tgt) THEN "CONTENDED"
      ELSE IF any_degraded(view, L) THEN "DEGRADED"
      ELSE IF \/ \E l \in L : in_state(view, l, {"UNKNOWN"})
              \/ ~has_capability(view, L) THEN "INSUFFICIENT_EVIDENCE"
      ELSE "HEALTHY"

-----------------------------------------------------------------------------
(* Eligibility and ranking *)

is_supported_state == {"UP", "PRESENT", "SUPPORTED", "DEGRADED"}

links_supported(view, p, policy) ==
  policy.require_supported_links =>
    \A l \in path_links(p) : in_state(view, l, is_supported_state)

measured_enough(view, src, tgt, policy) ==
  policy.min_measured_bandwidth # None =>
    LET best == best_measurement(view, src, tgt)
    IN  best # None /\ best.bandwidth >= policy.min_measured_bandwidth

technology_matches(view, L, policy) ==
  policy.required_technology # None =>
    \A l \in L : /\ l \in DOMAIN view.links
                 /\ view.links[l].technology = policy.required_technology

\* Mutant of excludes_degraded: the outcome is tested, which hides a degraded
\* link behind contention.
excludes_degraded_outcome(view, src, tgt, p, policy) ==
  policy.exclude_degraded => compute_quality(view, src, tgt, p) # "DEGRADED"

excludes_degraded(view, src, tgt, p, policy) ==
  policy.exclude_degraded => ~any_degraded(view, path_links(p))

eligible(view, src, tgt, p, policy) ==
  /\ links_supported(view, p, policy)
  /\ policy.require_fresh => ~any_reval(view, path_links(p))
  /\ policy.require_direct => Len(p) = 1
  /\ policy.min_nominal_bandwidth # None =>
       nominal_bandwidth(view, path_links(p)) >= policy.min_nominal_bandwidth
  /\ measured_enough(view, src, tgt, policy)
  /\ technology_matches(view, path_links(p), policy)
  /\ policy.max_hops # None => Len(p) <= policy.max_hops
  /\ excludes_degraded(view, src, tgt, p, policy)
  /\ policy.exclude_down => ~any_down(view, path_links(p))
  /\ policy.exclude_contended => ~contended(view, src, tgt)

\* The outcome when every candidate is rejected.  Freshness counts only for a
\* candidate that the supported-links test let through.
rejection_outcome(view, src, tgt, candidates, policy) ==
  IF \E p \in candidates : compute_quality(view, src, tgt, p) = "UNSUPPORTED"
    THEN "UNSUPPORTED"
  ELSE IF \E p \in candidates : /\ links_supported(view, p, policy)
                                /\ policy.require_fresh
                                /\ any_reval(view, path_links(p))
    THEN "REVALIDATION_REQUIRED"
  ELSE "POLICY_REJECTED"

\* The default ranking, for candidates between the same endpoints.  They share
\* their measurement and their class of evidence, so the weighted sum orders
\* them by
\*   5*[no degraded link] + 3*[direct] + 1*[fresh] + 2/(hops + 1),
\* in which each term outweighs all that follow it: the first three are the
\* digits of the demerit, and among equals fewer hops win, then the larger
\* nominal bandwidth.  Remaining ties fall to the path identity, a hash, which
\* is left open.
demerit(view, p) ==
  (IF any_degraded(view, path_links(p)) THEN 4 ELSE 0)
  + (IF Len(p) = 1 THEN 0 ELSE 2)
  + (IF any_reval(view, path_links(p)) THEN 1 ELSE 0)

outranks(view, p, q) ==
  \/ demerit(view, p) < demerit(view, q)
  \/ /\ demerit(view, p) = demerit(view, q)
     /\ \/ Len(p) < Len(q)
        \/ /\ Len(p) = Len(q)
           /\ nominal_bandwidth(view, path_links(p))
                > nominal_bandwidth(view, path_links(q))

best_paths(view, S) == {p \in S : \A q \in S : ~outranks(view, q, p)}

\* Mutant of decision_outcome: the path's outcome is taken for the decision's.
path_outcome(quality) == quality

\* The outcome of the decision that selects a path of the given quality.
decision_outcome(quality) ==
  IF quality = "HEALTHY" THEN "ROUTE_ALLOWED"
  ELSE IF quality \in {"DEGRADED", "CONTENDED"} THEN "ROUTE_ALLOWED_DEGRADED"
  ELSE IF quality = "LINK_DOWN" THEN "NO_ROUTE"
  ELSE quality

=============================================================================
