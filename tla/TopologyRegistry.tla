--------------------------- MODULE TopologyRegistry ---------------------------
(***************************************************************************)
(* The canonical registry of the fabric (src/core/registry.cpp).           *)
(*                                                                         *)
(* Every mutator of the C++ class takes the unique lock, copies the state, *)
(* changes the copy and swaps the shared pointer, so each one is a single  *)
(* atomic action here.  A call that returns an error leaves the state as   *)
(* it was: it is a stuttering step, and the guard of the action is the     *)
(* conjunction of the conditions under which the code does not return      *)
(* early.                                                                  *)
(***************************************************************************)
EXTENDS FabricTypes, Sequences, FiniteSets

CONSTANTS
  \* limits.hpp
  max_devices, max_links, max_parallel_links_per_pair,
  max_measurement_history, max_observations,
  \* the records callers hand to the registry
  DeviceReports, LinkReports, LinkStateReports, HealthReports,
  MeasurementReports, ObservationReports,
  ForeignStates,                   \* durable states read from some other file
  \* bounds of the model
  MaxGeneration, MaxTopologyGeneration, MaxObservationId

durable_version == "nvlinkfabric-durable/1.0"

\* A map from some of the identities in Key to values in Val.
IsMap(f, Key, Val) == DOMAIN f \subseteq Key /\ f \in [DOMAIN f -> Val]

IsDurableState(s) ==
  /\ s = [format_version |-> s.format_version,
          topology_generation |-> s.topology_generation,
          devices |-> s.devices, links |-> s.links]
  /\ s.topology_generation \in Nat
  /\ IsMap(s.devices, DeviceId, DeviceRecord)
  /\ IsMap(s.links, LinkId, LinkRecord)

\* restore_durable_state appends its observation without testing the bound, so
\* the bound has to leave room for one.
ASSUME LimitsAssumption ==
  /\ max_devices \in Nat /\ max_links \in Nat
  /\ max_parallel_links_per_pair \in Nat
  /\ max_measurement_history \in Nat /\ max_observations \in Nat \ {0}

ASSUME ReportsAssumption ==
  /\ DeviceReports \subseteq DeviceRecord
  /\ \A r \in LinkReports : r \in LinkRecord
  /\ LinkStateReports \subseteq LinkOperationalState \X BOOLEAN
  /\ HealthReports \subseteq DeviceHealthState
  /\ MeasurementReports \subseteq MeasurementRecord
  /\ ObservationReports \subseteq Observation
  /\ \A s \in ForeignStates :
       IsDurableState(s) /\ IsFiniteSet(DOMAIN s.devices)
                         /\ IsFiniteSet(DOMAIN s.links)

ASSUME BoundsAssumption ==
  /\ MaxGeneration \in Nat /\ MaxTopologyGeneration \in Nat
  /\ MaxObservationId \in Nat

VARIABLES
  topology_gen,          \* State::topology_gen
  devices,               \* State::devices, a map from DeviceId
  links,                 \* State::links, a map from LinkId
  measurement_history,   \* State::measurement_history, oldest first
  observations,          \* State::observations, oldest first
  next_observation,      \* the ObservationId counter behind fresh_id
  durable                \* the last captured DurableState, None before one

vars == <<topology_gen, devices, links, measurement_history, observations,
          next_observation, durable>>

-----------------------------------------------------------------------------
(* Helpers *)

\* Mutant of push_bounded: the bound is tested before the push.
push_bounded_late(q, x, max) ==
  IF Len(q) > max THEN Tail(Append(q, x)) ELSE Append(q, x)

\* std::deque: push_back, then pop_front when the bound is exceeded.
push_bounded(q, x, max) ==
  IF Len(q) + 1 > max THEN Tail(Append(q, x)) ELSE Append(q, x)

\* The empty map; a map with one entry inserted or replaced, or some erased.
empty_map == [x \in {} |-> None]
put(f, k, v) == [x \in DOMAIN f \cup {k} |-> IF x = k THEN v ELSE f[x]]
erase(f, S) == [x \in DOMAIN f \ S |-> f[x]]

\* The two records join the same unordered pair of devices.
same_unordered(a, b) ==
  \/ a.source = b.source /\ a.target = b.target
  \/ a.source = b.target /\ a.target = b.source

parallel(r) == Cardinality({l \in DOMAIN links : same_unordered(links[l], r)})

incident(d) == {l \in DOMAIN links : links[l].source = d \/ links[l].target = d}

\* Mutant of stamp: the links keep the generation they had.
stamp_forgotten(ls, gen) == ls

\* Every link is stamped with the generation of the topology it is part of.
stamp(ls, gen) ==
  [l \in DOMAIN ls |-> [ls[l] EXCEPT !.topology_generation = gen]]

requires_revalidation(r) ==
  [r EXCEPT !.state = "REVALIDATION_REQUIRED", !.degraded = FALSE]

make_observation(kind, source) ==
  [id |-> next_observation, kind |-> kind, source |-> source, stale |-> FALSE]

observe(obs, kind, source) ==
  /\ next_observation < MaxObservationId
  /\ next_observation' = next_observation + 1
  /\ observations' =
       push_bounded(obs, make_observation(kind, source), max_observations)

\* The tail shared by the topology mutators: advance the topology generation
\* and stamp every link with it.
publish_topology(ds, ls) ==
  /\ topology_gen < MaxTopologyGeneration
  /\ topology_gen' = topology_gen + 1
  /\ devices' = ds
  /\ links' = stamp(ls, topology_gen + 1)

-----------------------------------------------------------------------------
(* Topology mutators *)

\* Mutants of device_accepted: a record without a generation is let in; any
\* record of a device that is known is let in.
device_accepted_unversioned(id, d) ==
  /\ id # None
  /\ IF id \in DOMAIN devices
       THEN d.generation > devices[id].generation
       ELSE Cardinality(DOMAIN devices) < max_devices

device_accepted_unordered(id, d) ==
  /\ id # None /\ d.generation # 0
  /\ id \notin DOMAIN devices => Cardinality(DOMAIN devices) < max_devices

\* An equal generation is a replay: accepted without effect when the records
\* are equal, a conflict otherwise.  Neither changes the state.
device_accepted(id, d) ==
  /\ id # None /\ d.generation # 0
  /\ IF id \in DOMAIN devices
       THEN d.generation > devices[id].generation
       ELSE Cardinality(DOMAIN devices) < max_devices

upsert_device(id, d) ==
  /\ device_accepted(id, d)
  /\ observe(observations, "device", id)
  /\ publish_topology(put(devices, id, d), links)
  /\ UNCHANGED <<measurement_history, durable>>

\* Mutant of remove_device: the incident links are not erased.
remove_device_only(id) ==
  /\ id \in DOMAIN devices
  /\ observe(observations, "device", id)
  /\ publish_topology(erase(devices, {id}), links)
  /\ UNCHANGED <<measurement_history, durable>>

remove_device(id) ==
  /\ id \in DOMAIN devices
  /\ observe(observations, "device", id)
  /\ publish_topology(erase(devices, {id}), erase(links, incident(id)))
  /\ UNCHANGED <<measurement_history, durable>>

\* Mutants of link_accepted: an equal generation counts as newer; the zero
\* identity is not refused; only links of the same direction are counted.
link_accepted_replay(id, r) ==
  /\ id # None /\ r.generation # 0
  /\ r.source # r.target
  /\ r.source \in DOMAIN devices /\ r.target \in DOMAIN devices
  /\ Cardinality(DOMAIN links) < max_links
  /\ parallel(r) < max_parallel_links_per_pair
  /\ id \in DOMAIN links => r.generation >= links[id].generation

link_accepted_unidentified(id, r) ==
  /\ r.generation # 0
  /\ r.source # r.target
  /\ r.source \in DOMAIN devices /\ r.target \in DOMAIN devices
  /\ Cardinality(DOMAIN links) < max_links
  /\ parallel(r) < max_parallel_links_per_pair
  /\ id \in DOMAIN links => r.generation > links[id].generation

link_accepted_one_way(id, r) ==
  /\ id # None /\ r.generation # 0
  /\ r.source # r.target
  /\ r.source \in DOMAIN devices /\ r.target \in DOMAIN devices
  /\ Cardinality(DOMAIN links) < max_links
  /\ Cardinality({l \in DOMAIN links : /\ links[l].source = r.source
                                       /\ links[l].target = r.target})
       < max_parallel_links_per_pair
  /\ id \in DOMAIN links => r.generation > links[id].generation

\* Both bounds are tested before the identity is looked up, so they also
\* refuse a newer record of a link that is already registered.
link_accepted(id, r) ==
  /\ id # None /\ r.generation # 0
  /\ r.source # r.target
  /\ r.source \in DOMAIN devices /\ r.target \in DOMAIN devices
  /\ Cardinality(DOMAIN links) < max_links
  /\ parallel(r) < max_parallel_links_per_pair
  /\ id \in DOMAIN links => r.generation > links[id].generation

upsert_link(id, r) ==
  /\ link_accepted(id, r)
  /\ observe(observations, "link", r.source)
  /\ publish_topology(devices, put(links, id, r))
  /\ UNCHANGED <<measurement_history, durable>>

remove_link(id) ==
  /\ id \in DOMAIN links
  /\ observe(observations, "link", links[id].source)
  /\ publish_topology(devices, erase(links, {id}))
  /\ UNCHANGED <<measurement_history, durable>>

update_link_state(id, state, degraded) ==
  /\ id \in DOMAIN links
  /\ links[id].generation < MaxGeneration
  /\ observe(observations, "link_state", links[id].source)
  /\ publish_topology(devices,
       put(links, id, [links[id] EXCEPT !.state = state, !.degraded = degraded,
                                        !.generation = @ + 1]))
  /\ UNCHANGED <<measurement_history, durable>>

\* Mutant of update_device_health: a health change is not taken for a change
\* of the topology.
update_device_health_silent(id, health) ==
  /\ id \in DOMAIN devices
  /\ devices[id].generation < MaxGeneration
  /\ observe(observations, "device_health", id)
  /\ devices' = put(devices, id, [devices[id] EXCEPT !.health = health,
                                                    !.generation = @ + 1])
  /\ UNCHANGED <<topology_gen, links, measurement_history, durable>>

update_device_health(id, health) ==
  /\ id \in DOMAIN devices
  /\ devices[id].generation < MaxGeneration
  /\ observe(observations, "device_health", id)
  /\ publish_topology(
       put(devices, id, [devices[id] EXCEPT !.health = health,
                                            !.generation = @ + 1]),
       links)
  /\ UNCHANGED <<measurement_history, durable>>

advance_topology ==
  /\ observe(observations, "topology", None)
  /\ publish_topology(devices, links)
  /\ UNCHANGED <<measurement_history, durable>>

-----------------------------------------------------------------------------
(* Evidence: neither operation advances the topology generation. *)

\* A caller may bring an identity of its own; zero asks for a fresh one.
publish_observation(o) ==
  /\ o.id = 0 => next_observation < MaxObservationId
  /\ next_observation' = next_observation + (IF o.id = 0 THEN 1 ELSE 0)
  /\ observations' =
       push_bounded(observations,
                    [o EXCEPT !.id = IF o.id = 0 THEN next_observation ELSE o.id,
                              !.stale = FALSE],
                    max_observations)
  /\ UNCHANGED <<topology_gen, devices, links, measurement_history, durable>>

publish_measurement(m) ==
  /\ measurement_history' =
       push_bounded(measurement_history,
                    [m EXCEPT !.stale = FALSE, !.revalidation_required = FALSE],
                    max_measurement_history)
  /\ UNCHANGED <<topology_gen, devices, links, observations,
                 next_observation, durable>>

-----------------------------------------------------------------------------
(* Authority and recovery *)

mark_dynamic_evidence_revalidation_required ==
  /\ measurement_history' =
       [i \in DOMAIN measurement_history |->
          [measurement_history[i] EXCEPT !.stale = TRUE,
                                         !.revalidation_required = TRUE]]
  /\ observe([i \in DOMAIN observations |->
                [observations[i] EXCEPT !.stale = TRUE]], "recovery", None)
  /\ publish_topology(
       [d \in DOMAIN devices |->
          IF devices[d].owner_worker = None THEN devices[d]
          ELSE [devices[d] EXCEPT !.health = "REVALIDATION_REQUIRED"]],
       [l \in DOMAIN links |-> requires_revalidation(links[l])])
  /\ UNCHANGED durable

capture_durable_state ==
  /\ durable' = [format_version |-> durable_version,
                 topology_generation |-> topology_gen,
                 devices |-> devices, links |-> links]
  /\ UNCHANGED <<topology_gen, devices, links, measurement_history,
                 observations, next_observation>>

\* What restore_durable_state validates before it touches the registry.
restorable(s) ==
  /\ s.format_version = durable_version
  /\ Cardinality(DOMAIN s.devices) <= max_devices
  /\ \A d \in DOMAIN s.devices : d # None /\ s.devices[d].generation # 0
  /\ Cardinality(DOMAIN s.links) <= max_links
  /\ \A l \in DOMAIN s.links :
       LET r == s.links[l]
       IN  /\ l # None /\ r.generation # 0 /\ r.source # r.target
           /\ {r.source, r.target} \subseteq DOMAIN s.devices

restored_device(d) ==
  IF d.owner_worker # None \/ d.owner_boot # None
    THEN [d EXCEPT !.health = "REVALIDATION_REQUIRED"] ELSE d

\* Mutant of restored_generation: the generation the registry has reached is
\* not considered.
restored_generation_from_file(s) == 1 + s.topology_generation

restored_generation(s) ==
  1 + IF s.topology_generation > topology_gen
        THEN s.topology_generation ELSE topology_gen

\* The histories are not persisted: the registry restarts with one observation.
restore_durable_state(s) ==
  /\ restorable(s)
  /\ restored_generation(s) <= MaxTopologyGeneration
  /\ topology_gen' = restored_generation(s)
  /\ devices' = [d \in DOMAIN s.devices |-> restored_device(s.devices[d])]
  /\ links' = stamp([l \in DOMAIN s.links |-> requires_revalidation(s.links[l])],
                    restored_generation(s))
  /\ measurement_history' = <<>>
  /\ observe(<<>>, "restore", None)
  /\ UNCHANGED durable

-----------------------------------------------------------------------------
Init ==
  /\ topology_gen = 1
  /\ devices = empty_map /\ links = empty_map
  /\ measurement_history = <<>> /\ observations = <<>>
  /\ next_observation = 1
  /\ durable = None

Next ==
  \/ \E id \in DeviceId \cup {None}, d \in DeviceReports : upsert_device(id, d)
  \/ \E id \in DeviceId : remove_device(id)
  \/ \E id \in LinkId \cup {None}, r \in LinkReports : upsert_link(id, r)
  \/ \E id \in LinkId : remove_link(id)
  \/ \E id \in LinkId, s \in LinkStateReports : update_link_state(id, s[1], s[2])
  \/ \E id \in DeviceId, h \in HealthReports : update_device_health(id, h)
  \/ advance_topology
  \/ \E o \in ObservationReports : publish_observation(o)
  \/ \E m \in MeasurementReports : publish_measurement(m)
  \/ mark_dynamic_evidence_revalidation_required
  \/ capture_durable_state
  \/ \E s \in ForeignStates \cup ({durable} \ {None}) : restore_durable_state(s)

Spec == Init /\ [][Next]_vars

-----------------------------------------------------------------------------
(* Properties *)

\* Types of the registry's state: every map holds well-formed records under
\* the identities that can be published (detail/state.hpp).
TypeOK ==
  /\ topology_gen \in Nat
  /\ IsMap(devices, DeviceId, DeviceRecord)
  /\ IsMap(links, LinkId, LinkRecord)
  /\ measurement_history \in Seq(MeasurementRecord)
  /\ observations \in Seq(Observation)
  /\ next_observation \in Nat
  /\ durable = None \/ IsDurableState(durable)

\* No interleaving of removals, upserts and restores leaves a link whose end
\* is not a registered device, or that joins a device to itself: the path
\* search follows links without looking its devices up.
NoDanglingLinks ==
  \A l \in DOMAIN links :
    /\ links[l].source # links[l].target
    /\ {links[l].source, links[l].target} \subseteq DOMAIN devices

\* The limits hold whatever mix of publishing, marking and restoring produced
\* the state: devices and links in number, both histories in length.
LimitsRespected ==
  /\ Cardinality(DOMAIN devices) <= max_devices
  /\ Cardinality(DOMAIN links) <= max_links
  /\ Len(measurement_history) <= max_measurement_history
  /\ Len(observations) <= max_observations

\* At most max_parallel_links_per_pair links join the same two devices, in
\* either direction, also after a newer record moved a link to another pair.
ParallelLinksBounded ==
  \A l \in DOMAIN links : parallel(links[l]) <= max_parallel_links_per_pair

\* Every link carries the current topology generation: no mutator forgets to
\* stamp the links it did not touch.
LinksStamped ==
  \A l \in DOMAIN links : links[l].topology_generation = topology_gen

\* What capture_durable_state returned passes every check of
\* restore_durable_state on a registry with the same limits: a checkpoint is
\* never refused when it is needed.
CapturedStateRestorable == durable # None => restorable(durable)

\* A device or a link appears, disappears or changes only in a step that
\* strictly advances the topology generation: the generation alone tells a
\* holder of an older view whether the topology is still the one it saw.
ChangeAdvancesGeneration ==
  [][<<devices, links>>' # <<devices, links>>
       => topology_gen' > topology_gen]_vars

\* A link waiting for revalidation leaves that state only for a record of a
\* strictly newer link generation: replaying what was known before a worker
\* died, or before a restart, never makes the link usable again.
RevalidationNeedsNewerReport ==
  [][\A l \in DOMAIN links \cap DOMAIN links' :
       /\ links[l].state = "REVALIDATION_REQUIRED"
       /\ links'[l].state # "REVALIDATION_REQUIRED"
       => links'[l].generation > links[l].generation]_vars

=============================================================================
