------------------------ MODULE TopologyRegistryProofs ------------------------
(***************************************************************************)
(* Theorems about TopologyRegistry, for every set of identities, every     *)
(* limit and every stream of reports.                                      *)
(***************************************************************************)
EXTENDS TopologyRegistry, FiniteSetTheorems, SequenceTheorems, TLAPS

-----------------------------------------------------------------------------
(* The containers *)

\* A bounded push_back keeps the element type, and keeps the length within the
\* bound when it was within it.
LEMMA PushBounded ==
  ASSUME NEW S, NEW q \in Seq(S), NEW x \in S, NEW max \in Nat
  PROVE  /\ push_bounded(q, x, max) \in Seq(S)
         /\ Len(q) <= max => Len(push_bounded(q, x, max)) <= max
<1>1. /\ Append(q, x) \in Seq(S)
      /\ Len(Append(q, x)) = Len(q) + 1
      /\ Append(q, x) # << >>
  BY AppendProperties
<1>2. /\ Tail(Append(q, x)) \in Seq(S)
      /\ Len(Tail(Append(q, x))) = Len(q)
  BY <1>1, HeadTailProperties
<1> QED BY <1>1, <1>2 DEF push_bounded

\* Replacing every element of a sequence keeps its length.
LEMMA RewriteSeq ==
  ASSUME NEW S, NEW T, NEW q \in Seq(S), NEW h, h \in [DOMAIN q -> T]
  PROVE  h \in Seq(T) /\ Len(h) = Len(q)
<1>1. Len(q) \in Nat /\ DOMAIN q = 1..Len(q)
  BY LenProperties
<1>2. h \in [1..Len(q) -> T]
  BY <1>1
<1> QED BY <1>1, <1>2, IsASeq, LenProperties

\* Stamping touches no field but the topology generation.
LEMMA StampMap ==
  ASSUME NEW ls, IsMap(ls, LinkId, LinkRecord), NEW gen \in Nat
  PROVE  /\ IsMap(stamp(ls, gen), LinkId, LinkRecord)
         /\ DOMAIN stamp(ls, gen) = DOMAIN ls
         /\ \A l \in DOMAIN ls :
              /\ stamp(ls, gen)[l].topology_generation = gen
              /\ stamp(ls, gen)[l].source = ls[l].source
              /\ stamp(ls, gen)[l].target = ls[l].target
              /\ stamp(ls, gen)[l].state = ls[l].state
              /\ stamp(ls, gen)[l].generation = ls[l].generation
BY DEF IsMap, stamp, LinkRecord

\* A link sent to revalidation keeps its ends and its generation.
LEMMA RevalidationMap ==
  ASSUME NEW ls, IsMap(ls, LinkId, LinkRecord)
  PROVE  LET rs == [l \in DOMAIN ls |-> requires_revalidation(ls[l])]
         IN  /\ IsMap(rs, LinkId, LinkRecord)
             /\ DOMAIN rs = DOMAIN ls
             /\ \A l \in DOMAIN ls :
                  /\ rs[l].state = "REVALIDATION_REQUIRED"
                  /\ rs[l].source = ls[l].source
                  /\ rs[l].target = ls[l].target
                  /\ rs[l].generation = ls[l].generation
BY ZenonT(60) DEF IsMap, requires_revalidation, LinkRecord, LinkOperationalState

-----------------------------------------------------------------------------
(* The inductive invariant *)

\* What every published topology satisfies, and every captured one.  The
\* invariants the registry promises are not inductive by themselves: a
\* captured state is restorable only because no record with generation zero
\* is ever admitted, and the maps must be finite for their size to be bounded.
WellFormed(ds, ls) ==
  /\ IsMap(ds, DeviceId, DeviceRecord)
  /\ IsMap(ls, LinkId, LinkRecord)
  /\ IsFiniteSet(DOMAIN ds) /\ Cardinality(DOMAIN ds) <= max_devices
  /\ IsFiniteSet(DOMAIN ls) /\ Cardinality(DOMAIN ls) <= max_links
  /\ \A d \in DOMAIN ds : ds[d].generation # 0
  /\ \A l \in DOMAIN ls : /\ ls[l].generation # 0
                          /\ ls[l].source # ls[l].target
                          /\ ls[l].source \in DOMAIN ds
                          /\ ls[l].target \in DOMAIN ds

TopologyInv ==
  /\ topology_gen \in Nat
  /\ WellFormed(devices, links)
  /\ LinksStamped

EvidenceInv ==
  /\ measurement_history \in Seq(MeasurementRecord)
  /\ Len(measurement_history) <= max_measurement_history
  /\ observations \in Seq(Observation)
  /\ Len(observations) <= max_observations
  /\ next_observation \in Nat

DurableInv ==
  durable # None => /\ IsDurableState(durable)
                    /\ durable.format_version = durable_version
                    /\ WellFormed(durable.devices, durable.links)

IInv == TopologyInv /\ EvidenceInv /\ DurableInv

\* Publishing a well-formed topology establishes the topology invariant.
LEMMA PublishTopology ==
  ASSUME topology_gen \in Nat, NEW ds, NEW ls, WellFormed(ds, ls),
         publish_topology(ds, ls)
  PROVE  TopologyInv'
<1>1. /\ topology_gen' \in Nat
      /\ devices' = ds
      /\ links' = stamp(ls, topology_gen')
  BY DEF publish_topology
<1>2. IsMap(ls, LinkId, LinkRecord)
  BY DEF WellFormed
<1>3. /\ IsMap(links', LinkId, LinkRecord)
      /\ DOMAIN links' = DOMAIN ls
      /\ \A l \in DOMAIN ls :
           /\ links'[l].topology_generation = topology_gen'
           /\ links'[l].source = ls[l].source
           /\ links'[l].target = ls[l].target
           /\ links'[l].generation = ls[l].generation
  BY <1>1, <1>2, StampMap
<1>4. WellFormed(devices', links')
  BY <1>1, <1>3 DEF WellFormed
<1> QED BY <1>1, <1>3, <1>4 DEF TopologyInv, LinksStamped

\* Recording an observation keeps the bounded history well-formed.
LEMMA Observe ==
  ASSUME next_observation \in Nat,
         NEW obs \in Seq(Observation), Len(obs) <= max_observations,
         NEW kind \in ObservationKind, NEW source \in DeviceId \cup {None},
         observe(obs, kind, source)
  PROVE  /\ observations' \in Seq(Observation)
         /\ Len(observations') <= max_observations
         /\ next_observation' \in Nat
<1>1. make_observation(kind, source) \in Observation
  BY DEF make_observation, Observation
<1>2. max_observations \in Nat
  BY LimitsAssumption
<1>3. /\ push_bounded(obs, make_observation(kind, source), max_observations)
           \in Seq(Observation)
      /\ Len(push_bounded(obs, make_observation(kind, source), max_observations))
           <= max_observations
  BY <1>1, <1>2, PushBounded
<1> QED BY <1>3 DEF observe

\* The constructor establishes the invariant.
LEMMA InitInv == Init => IInv
<1> SUFFICES ASSUME Init PROVE IInv
  OBVIOUS
<1>1. /\ devices = empty_map /\ links = empty_map
      /\ DOMAIN empty_map = {}
  BY DEF Init, empty_map
<1>2. IsFiniteSet({}) /\ Cardinality({}) = 0
  BY FS_EmptySet
<1>3. WellFormed(devices, links)
  BY <1>1, <1>2, LimitsAssumption DEF WellFormed, IsMap, empty_map
<1>4. LinksStamped
  BY <1>1 DEF LinksStamped
<1>5. EvidenceInv
  BY LimitsAssumption DEF Init, EvidenceInv
<1> QED BY <1>3, <1>4, <1>5 DEF Init, IInv, TopologyInv, DurableInv


\* Putting one well-formed entry into a finite map, within the limit when the
\* key is new or the map was below it.
LEMMA PutFinite ==
  ASSUME NEW f, IsFiniteSet(DOMAIN f), NEW k, NEW v, NEW max \in Nat,
         Cardinality(DOMAIN f) <= max,
         k \notin DOMAIN f => Cardinality(DOMAIN f) < max
  PROVE  /\ IsFiniteSet(DOMAIN put(f, k, v))
         /\ Cardinality(DOMAIN put(f, k, v)) <= max
<1>1. DOMAIN put(f, k, v) = DOMAIN f \cup {k}
  BY DEF put
<1>2. Cardinality(DOMAIN f) \in Nat
  BY FS_CardinalityType
<1>3. /\ IsFiniteSet(DOMAIN f \cup {k})
      /\ \/ Cardinality(DOMAIN f \cup {k}) = Cardinality(DOMAIN f)
         \/ /\ k \notin DOMAIN f
            /\ Cardinality(DOMAIN f \cup {k}) = Cardinality(DOMAIN f) + 1
  BY FS_AddElement
<1> QED BY <1>1, <1>2, <1>3

\* Erasing entries of a finite map keeps it finite and within the limit.
LEMMA EraseFinite ==
  ASSUME NEW f, IsFiniteSet(DOMAIN f), NEW S, NEW max \in Nat,
         Cardinality(DOMAIN f) <= max
  PROVE  /\ IsFiniteSet(DOMAIN erase(f, S))
         /\ Cardinality(DOMAIN erase(f, S)) <= max
<1>1. DOMAIN erase(f, S) = DOMAIN f \ S
  BY DEF erase
<1>2. /\ IsFiniteSet(DOMAIN f \ S)
      /\ Cardinality(DOMAIN f \ S) <= Cardinality(DOMAIN f)
  BY FS_Subset
<1>3. /\ Cardinality(DOMAIN f) \in Nat
      /\ Cardinality(DOMAIN f \ S) \in Nat
  BY <1>2, FS_CardinalityType
<1> QED BY <1>1, <1>2, <1>3

\* The steps that publish a topology, each given the topology it publishes.
LEMMA UpsertDeviceStep ==
  ASSUME IInv, NEW id \in DeviceId \cup {None}, NEW d \in DeviceRecord,
         upsert_device(id, d)
  PROVE  IInv'
<1>1. /\ topology_gen \in Nat /\ WellFormed(devices, links)
      /\ d \in DeviceRecord /\ id \in DeviceId /\ d.generation # 0
      /\ max_devices \in Nat
  BY LimitsAssumption DEF IInv, TopologyInv, upsert_device, device_accepted
<1>2. /\ IsFiniteSet(DOMAIN devices) /\ Cardinality(DOMAIN devices) <= max_devices
      /\ IsMap(devices, DeviceId, DeviceRecord)
  BY <1>1 DEF WellFormed
<1>3. id \notin DOMAIN devices => Cardinality(DOMAIN devices) < max_devices
  BY DEF upsert_device, device_accepted
<1>4. /\ IsFiniteSet(DOMAIN put(devices, id, d))
      /\ Cardinality(DOMAIN put(devices, id, d)) <= max_devices
  BY <1>1, <1>2, <1>3, PutFinite
<1>5. /\ IsMap(put(devices, id, d), DeviceId, DeviceRecord)
      /\ DOMAIN put(devices, id, d) = DOMAIN devices \cup {id}
      /\ put(devices, id, d)[id] = d
      /\ \A x \in DOMAIN devices \ {id} : put(devices, id, d)[x] = devices[x]
  BY <1>1, <1>2 DEF IsMap, put
<1>6. WellFormed(put(devices, id, d), links)
  BY <1>1, <1>4, <1>5 DEF WellFormed
<1>7. TopologyInv'
  BY <1>1, <1>6, PublishTopology DEF upsert_device, device_accepted
<1>8. EvidenceInv'
  BY <1>1, Observe DEF IInv, EvidenceInv, upsert_device, device_accepted, ObservationKind
<1>9. DurableInv'
  BY DEF IInv, DurableInv, upsert_device, device_accepted
<1> QED BY <1>7, <1>8, <1>9 DEF IInv

\* Removing a device takes its incident links with it, so none dangles.
LEMMA RemoveDeviceStep ==
  ASSUME IInv, NEW id \in DeviceId, remove_device(id)
  PROVE  IInv'
<1> DEFINE ds == erase(devices, {id})
           ls == erase(links, incident(id))
<1>1. /\ topology_gen \in Nat /\ WellFormed(devices, links)
      /\ max_devices \in Nat /\ max_links \in Nat
  BY LimitsAssumption DEF IInv, TopologyInv
<1>a. IsMap(devices, DeviceId, DeviceRecord) /\ IsMap(links, LinkId, LinkRecord)
  BY <1>1 DEF WellFormed
<1>2. /\ IsFiniteSet(DOMAIN ds) /\ Cardinality(DOMAIN ds) <= max_devices
      /\ IsFiniteSet(DOMAIN ls) /\ Cardinality(DOMAIN ls) <= max_links
  BY <1>1, EraseFinite DEF WellFormed
<1>3. /\ IsMap(ds, DeviceId, DeviceRecord)
      /\ DOMAIN ds = DOMAIN devices \ {id}
      /\ \A x \in DOMAIN ds : ds[x] = devices[x]
  BY <1>a DEF IsMap, erase
<1>4. /\ IsMap(ls, LinkId, LinkRecord)
      /\ DOMAIN ls = DOMAIN links \ incident(id)
      /\ \A x \in DOMAIN ls : ls[x] = links[x]
  BY <1>a DEF IsMap, erase
<1>5. \A x \in DOMAIN ls : links[x].source # id /\ links[x].target # id
  BY <1>4 DEF incident
<1> HIDE DEF ds, ls
<1>6. WellFormed(ds, ls)
  BY <1>1, <1>2, <1>3, <1>4, <1>5 DEF WellFormed
<1>7. TopologyInv'
  BY <1>1, <1>6, PublishTopology DEF remove_device, ds, ls
<1>8. EvidenceInv'
  BY Observe DEF IInv, EvidenceInv, remove_device, ObservationKind
<1>9. DurableInv'
  BY DEF IInv, DurableInv, remove_device
<1> QED BY <1>7, <1>8, <1>9 DEF IInv

\* A link that link_accepted admits has both ends and leaves room for itself.
LEMMA UpsertLinkStep ==
  ASSUME IInv, NEW id \in LinkId \cup {None}, NEW r \in LinkRecord,
         upsert_link(id, r)
  PROVE  IInv'
<1>1. /\ topology_gen \in Nat /\ WellFormed(devices, links)
      /\ r \in LinkRecord /\ id \in LinkId /\ max_links \in Nat
      /\ link_accepted(id, r)
  BY LimitsAssumption DEF IInv, TopologyInv, upsert_link, link_accepted
<1>a. IsMap(links, LinkId, LinkRecord)
  BY <1>1 DEF WellFormed
<1>2. /\ IsFiniteSet(DOMAIN put(links, id, r))
      /\ Cardinality(DOMAIN put(links, id, r)) <= max_links
  BY <1>1, PutFinite DEF WellFormed, link_accepted
<1>3. /\ IsMap(put(links, id, r), LinkId, LinkRecord)
      /\ DOMAIN put(links, id, r) = DOMAIN links \cup {id}
      /\ put(links, id, r)[id] = r
      /\ \A x \in DOMAIN links \ {id} : put(links, id, r)[x] = links[x]
  BY <1>1, <1>a DEF IsMap, put
<1>4. /\ r.generation # 0 /\ r.source # r.target
      /\ r.source \in DOMAIN devices /\ r.target \in DOMAIN devices
  BY <1>1 DEF link_accepted
<1>5. WellFormed(devices, put(links, id, r))
  BY <1>1, <1>2, <1>3, <1>4 DEF WellFormed
<1>6. TopologyInv'
  BY <1>1, <1>5, PublishTopology DEF upsert_link
<1>7. r.source \in DeviceId
  BY <1>1 DEF LinkRecord
<1>8. EvidenceInv'
  BY <1>7, Observe DEF IInv, EvidenceInv, upsert_link, ObservationKind
<1>9. DurableInv'
  BY DEF IInv, DurableInv, upsert_link
<1> QED BY <1>6, <1>8, <1>9 DEF IInv


\* Removing a link leaves a well-formed topology.
LEMMA RemoveLinkStep ==
  ASSUME IInv, NEW id \in LinkId, remove_link(id)
  PROVE  IInv'
<1> DEFINE ls == erase(links, {id})
<1>1. /\ topology_gen \in Nat /\ WellFormed(devices, links) /\ max_links \in Nat
      /\ id \in DOMAIN links
  BY LimitsAssumption DEF IInv, TopologyInv, remove_link
<1>2. IsMap(links, LinkId, LinkRecord)
  BY <1>1 DEF WellFormed
<1>3. IsFiniteSet(DOMAIN ls) /\ Cardinality(DOMAIN ls) <= max_links
  BY <1>1, EraseFinite DEF WellFormed
<1>4. /\ IsMap(ls, LinkId, LinkRecord)
      /\ DOMAIN ls \subseteq DOMAIN links
      /\ \A x \in DOMAIN ls : ls[x] = links[x]
  BY <1>2 DEF IsMap, erase
<1> HIDE DEF ls
<1>5. WellFormed(devices, ls)
  BY <1>1, <1>3, <1>4 DEF WellFormed
<1>6. TopologyInv'
  BY <1>1, <1>5, PublishTopology DEF remove_link, ls
<1>7. links[id].source \in DeviceId
  BY <1>1, <1>2 DEF IsMap, LinkRecord
<1>8. EvidenceInv'
  BY <1>7, Observe DEF IInv, EvidenceInv, remove_link, ObservationKind
<1>9. DurableInv'
  BY DEF IInv, DurableInv, remove_link
<1> QED BY <1>6, <1>8, <1>9 DEF IInv

\* A change of a link's state keeps its ends and advances its generation.
LEMMA UpdateLinkStateStep ==
  ASSUME IInv, NEW id \in LinkId, NEW state \in LinkOperationalState,
         NEW degraded \in BOOLEAN, update_link_state(id, state, degraded)
  PROVE  IInv'
<1>1. /\ topology_gen \in Nat /\ WellFormed(devices, links)
      /\ id \in DOMAIN links
  BY DEF IInv, TopologyInv, update_link_state
<1>2. IsMap(links, LinkId, LinkRecord)
  BY <1>1 DEF WellFormed
<1>3. links[id] \in LinkRecord
  BY <1>1, <1>2 DEF IsMap
<1>4. links[id].generation \in Nat /\ links[id].source \in DeviceId
  BY <1>3 DEF LinkRecord
<1>5. PICK gen \in Nat \ {0} : gen = links[id].generation + 1
  BY <1>4
<1> DEFINE r == [links[id] EXCEPT !.state = state, !.degraded = degraded,
                                  !.generation = gen]
           ls == put(links, id, r)
<1>6. publish_topology(devices, ls)
  BY <1>5, Zenon DEF update_link_state
<1>7. /\ r \in LinkRecord /\ r.generation = gen
      /\ r.source = links[id].source /\ r.target = links[id].target
  BY <1>3 DEF LinkRecord
<1> HIDE DEF r
<1>8. /\ IsMap(ls, LinkId, LinkRecord)
      /\ DOMAIN ls = DOMAIN links
      /\ ls[id] = r
      /\ \A x \in DOMAIN links \ {id} : ls[x] = links[x]
  BY <1>1, <1>2, <1>7 DEF IsMap, put
<1> HIDE DEF ls
<1>9. \A x \in DOMAIN ls : /\ ls[x].generation # 0
                           /\ ls[x].source = links[x].source
                           /\ ls[x].target = links[x].target
  BY <1>1, <1>7, <1>8 DEF WellFormed
<1>10. WellFormed(devices, ls)
  BY <1>1, <1>8, <1>9 DEF WellFormed
<1>11. TopologyInv'
  BY <1>1, <1>6, <1>10, PublishTopology
<1>12. EvidenceInv'
  BY <1>4, Observe DEF IInv, EvidenceInv, update_link_state, ObservationKind
<1>13. DurableInv'
  BY DEF IInv, DurableInv, update_link_state
<1> QED BY <1>11, <1>12, <1>13 DEF IInv

\* A change of a device's health keeps the set of devices.
LEMMA UpdateDeviceHealthStep ==
  ASSUME IInv, NEW id \in DeviceId, NEW health \in DeviceHealthState,
         update_device_health(id, health)
  PROVE  IInv'
<1>1. /\ topology_gen \in Nat /\ WellFormed(devices, links)
      /\ id \in DOMAIN devices
  BY DEF IInv, TopologyInv, update_device_health
<1>2. IsMap(devices, DeviceId, DeviceRecord)
  BY <1>1 DEF WellFormed
<1>3. devices[id] \in DeviceRecord
  BY <1>1, <1>2 DEF IsMap
<1>4. devices[id].generation \in Nat
  BY <1>3 DEF DeviceRecord
<1>5. PICK gen \in Nat \ {0} : gen = devices[id].generation + 1
  BY <1>4
<1> DEFINE d == [devices[id] EXCEPT !.health = health, !.generation = gen]
           ds == put(devices, id, d)
<1>6. publish_topology(ds, links)
  BY <1>5, Zenon DEF update_device_health
<1>7. d \in DeviceRecord /\ d.generation = gen
  BY <1>3 DEF DeviceRecord
<1> HIDE DEF d
<1>8. /\ IsMap(ds, DeviceId, DeviceRecord)
      /\ DOMAIN ds = DOMAIN devices
      /\ ds[id] = d
      /\ \A x \in DOMAIN devices \ {id} : ds[x] = devices[x]
  BY <1>1, <1>2, <1>7 DEF IsMap, put
<1> HIDE DEF ds
<1>9. WellFormed(ds, links)
  BY <1>1, <1>7, <1>8 DEF WellFormed
<1>10. TopologyInv'
  BY <1>1, <1>6, <1>9, PublishTopology
<1>11. EvidenceInv'
  BY Observe DEF IInv, EvidenceInv, update_device_health, ObservationKind
<1>12. DurableInv'
  BY DEF IInv, DurableInv, update_device_health
<1> QED BY <1>10, <1>11, <1>12 DEF IInv

\* Advancing the topology stamps every link with the new generation.
LEMMA AdvanceTopologyStep ==
  ASSUME IInv, advance_topology
  PROVE  IInv'
<1>1. TopologyInv'
  BY PublishTopology DEF IInv, TopologyInv, advance_topology
<1>2. EvidenceInv'
  BY Observe DEF IInv, EvidenceInv, advance_topology, ObservationKind
<1>3. DurableInv'
  BY DEF IInv, DurableInv, advance_topology
<1> QED BY <1>1, <1>2, <1>3 DEF IInv


\* The steps that only append evidence.
LEMMA PublishObservationStep ==
  ASSUME IInv, NEW o \in ObservationReports, publish_observation(o)
  PROVE  IInv'
<1> DEFINE id == IF o.id = 0 THEN next_observation ELSE o.id
           fresh == [o EXCEPT !.id = id, !.stale = FALSE]
<1>1. o \in Observation /\ next_observation \in Nat
  BY ReportsAssumption DEF IInv, EvidenceInv
<1>2. id \in Nat
  BY <1>1 DEF Observation
<1>3. observations' = push_bounded(observations, fresh, max_observations)
  BY DEF publish_observation
<1>4. next_observation' \in Nat
  BY <1>1 DEF publish_observation
<1> HIDE DEF id
<1>5. fresh \in Observation
  BY <1>1, <1>2 DEF Observation
<1> HIDE DEF fresh
<1>6. /\ observations' \in Seq(Observation)
      /\ Len(observations') <= max_observations
  BY <1>3, <1>5, LimitsAssumption, PushBounded DEF IInv, EvidenceInv
<1>7. EvidenceInv'
  BY <1>4, <1>6 DEF IInv, EvidenceInv, publish_observation
<1> QED BY <1>7 DEF IInv, TopologyInv, LinksStamped, DurableInv,
                   publish_observation

\* A measurement is appended within the bound of the history.
LEMMA PublishMeasurementStep ==
  ASSUME IInv, NEW m \in MeasurementRecord, publish_measurement(m)
  PROVE  IInv'
<1> DEFINE fresh == [m EXCEPT !.stale = FALSE, !.revalidation_required = FALSE]
<1>1. fresh \in MeasurementRecord
  BY DEF MeasurementRecord
<1>2. measurement_history' =
        push_bounded(measurement_history, fresh, max_measurement_history)
  BY DEF publish_measurement
<1> HIDE DEF fresh
<1>3. /\ measurement_history' \in Seq(MeasurementRecord)
      /\ Len(measurement_history') <= max_measurement_history
  BY <1>1, <1>2, LimitsAssumption, PushBounded DEF IInv, EvidenceInv
<1>4. EvidenceInv'
  BY <1>3 DEF IInv, EvidenceInv, publish_measurement
<1> QED BY <1>4 DEF IInv, TopologyInv, LinksStamped, DurableInv,
                   publish_measurement

\* A worker's death: the evidence is marked, the topology keeps its shape.
LEMMA MarkStep ==
  ASSUME IInv, mark_dynamic_evidence_revalidation_required
  PROVE  IInv'
<1> DEFINE ds == [d \in DOMAIN devices |->
                    IF devices[d].owner_worker = None THEN devices[d]
                    ELSE [devices[d] EXCEPT !.health = "REVALIDATION_REQUIRED"]]
           ls == [l \in DOMAIN links |-> requires_revalidation(links[l])]
           obs == [i \in DOMAIN observations |->
                     [observations[i] EXCEPT !.stale = TRUE]]
<1>1. /\ topology_gen \in Nat /\ WellFormed(devices, links)
      /\ publish_topology(ds, ls) /\ observe(obs, "recovery", None)
  BY DEF IInv, TopologyInv, mark_dynamic_evidence_revalidation_required
<1>2. /\ IsMap(devices, DeviceId, DeviceRecord)
      /\ IsMap(links, LinkId, LinkRecord)
  BY <1>1 DEF WellFormed
<1>3. \A d \in DOMAIN devices : devices[d] \in DeviceRecord
  BY <1>2 DEF IsMap
<1>4. \A d \in DOMAIN devices :
        ds[d] \in DeviceRecord /\ ds[d].generation = devices[d].generation
  BY <1>3 DEF DeviceRecord, DeviceHealthState
<1>5. IsMap(ds, DeviceId, DeviceRecord) /\ DOMAIN ds = DOMAIN devices
  BY <1>2, <1>4 DEF IsMap
<1>6. /\ IsMap(ls, LinkId, LinkRecord) /\ DOMAIN ls = DOMAIN links
      /\ \A l \in DOMAIN links : /\ ls[l].source = links[l].source
                                 /\ ls[l].target = links[l].target
                                 /\ ls[l].generation = links[l].generation
  BY <1>2, RevalidationMap
<1>7. obs \in Seq(Observation) /\ Len(obs) = Len(observations)
  <2>1. observations \in Seq(Observation)
    BY DEF IInv, EvidenceInv
  <2>2. \A i \in DOMAIN observations : observations[i] \in Observation
    BY <2>1, ElementOfSeq, LenProperties
  <2>3. obs \in [DOMAIN observations -> Observation]
    BY <2>2 DEF Observation
  <2> QED BY <2>1, <2>3, RewriteSeq
<1>8. /\ measurement_history' \in Seq(MeasurementRecord)
      /\ Len(measurement_history') = Len(measurement_history)
  <2>1. measurement_history \in Seq(MeasurementRecord)
    BY DEF IInv, EvidenceInv
  <2> DEFINE h == [i \in DOMAIN measurement_history |->
                     [measurement_history[i] EXCEPT !.stale = TRUE,
                                              !.revalidation_required = TRUE]]
  <2>2. \A i \in DOMAIN measurement_history :
          measurement_history[i] \in MeasurementRecord
    BY <2>1, ElementOfSeq, LenProperties
  <2>3. h \in [DOMAIN measurement_history -> MeasurementRecord]
    BY <2>2 DEF MeasurementRecord
  <2>4. measurement_history' = h
    BY DEF mark_dynamic_evidence_revalidation_required
  <2> HIDE DEF h
  <2> QED BY <2>1, <2>3, <2>4, RewriteSeq
<1> HIDE DEF ds, ls, obs
<1>9. WellFormed(ds, ls)
  BY <1>1, <1>4, <1>5, <1>6 DEF WellFormed
<1>10. TopologyInv'
  BY <1>1, <1>9, PublishTopology
<1>11. EvidenceInv'
  <2>1. next_observation \in Nat /\ Len(obs) <= max_observations
    BY <1>7 DEF IInv, EvidenceInv
  <2>2. /\ observations' \in Seq(Observation)
        /\ Len(observations') <= max_observations
        /\ next_observation' \in Nat
    BY <1>1, <1>7, <2>1, Observe DEF ObservationKind
  <2> QED BY <1>8, <2>2 DEF IInv, EvidenceInv
<1>12. DurableInv'
  BY DEF IInv, DurableInv, mark_dynamic_evidence_revalidation_required
<1> QED BY <1>10, <1>11, <1>12 DEF IInv

\* What is captured is the current, well-formed topology.
LEMMA CaptureStep ==
  ASSUME IInv, capture_durable_state
  PROVE  IInv'
<1>1. DurableInv'
  BY DEF IInv, TopologyInv, DurableInv, WellFormed, IsDurableState,
         capture_durable_state
<1> QED BY <1>1 DEF IInv, TopologyInv, LinksStamped, EvidenceInv,
                   capture_durable_state


\* A restore publishes what it validated, with its dynamic parts reset.
LEMMA RestoreStep ==
  ASSUME IInv, NEW s \in ForeignStates \cup ({durable} \ {None}),
         restore_durable_state(s)
  PROVE  IInv'
<1>1. /\ IsDurableState(s) /\ IsFiniteSet(DOMAIN s.devices)
      /\ IsFiniteSet(DOMAIN s.links)
  BY ReportsAssumption DEF IInv, DurableInv, WellFormed
<1>2. /\ IsMap(s.devices, DeviceId, DeviceRecord)
      /\ IsMap(s.links, LinkId, LinkRecord)
      /\ s.topology_generation \in Nat
  BY <1>1 DEF IsDurableState
<1>3. restorable(s)
  BY DEF restore_durable_state
<1>4. topology_gen' \in Nat /\ topology_gen' = restored_generation(s)
  BY <1>2 DEF IInv, TopologyInv, restore_durable_state, restored_generation
<1> DEFINE ds == [d \in DOMAIN s.devices |-> restored_device(s.devices[d])]
           ls == [l \in DOMAIN s.links |-> requires_revalidation(s.links[l])]
<1>5. devices' = ds /\ links' = stamp(ls, topology_gen')
  BY <1>4 DEF restore_durable_state
<1>6. \A d \in DOMAIN s.devices :
        /\ ds[d] \in DeviceRecord
        /\ ds[d].generation = s.devices[d].generation
  <2>1. \A d \in DOMAIN s.devices : s.devices[d] \in DeviceRecord
    BY <1>2 DEF IsMap
  <2> QED BY <2>1 DEF restored_device, DeviceRecord, DeviceHealthState
<1>7. IsMap(ds, DeviceId, DeviceRecord) /\ DOMAIN ds = DOMAIN s.devices
  BY <1>2, <1>6 DEF IsMap
<1>8. /\ IsMap(ls, LinkId, LinkRecord) /\ DOMAIN ls = DOMAIN s.links
      /\ \A l \in DOMAIN s.links : /\ ls[l].source = s.links[l].source
                                   /\ ls[l].target = s.links[l].target
                                   /\ ls[l].generation = s.links[l].generation
  BY <1>2, RevalidationMap
<1> HIDE DEF ds, ls
<1>9. /\ IsMap(links', LinkId, LinkRecord)
      /\ DOMAIN links' = DOMAIN ls
      /\ \A l \in DOMAIN ls :
           /\ links'[l].topology_generation = topology_gen'
           /\ links'[l].source = ls[l].source
           /\ links'[l].target = ls[l].target
           /\ links'[l].generation = ls[l].generation
  BY <1>4, <1>5, <1>8, StampMap
<1>10. /\ \A d \in DOMAIN s.devices : s.devices[d].generation # 0
       /\ \A l \in DOMAIN s.links : /\ s.links[l].generation # 0
                                    /\ s.links[l].source # s.links[l].target
                                    /\ s.links[l].source \in DOMAIN s.devices
                                    /\ s.links[l].target \in DOMAIN s.devices
       /\ Cardinality(DOMAIN s.devices) <= max_devices
       /\ Cardinality(DOMAIN s.links) <= max_links
  BY <1>3 DEF restorable
<1>11. WellFormed(devices', links')
  BY <1>1, <1>5, <1>6, <1>7, <1>8, <1>9, <1>10 DEF WellFormed
<1>12. TopologyInv'
  BY <1>4, <1>8, <1>9, <1>11 DEF TopologyInv, LinksStamped
<1>13. EvidenceInv'
  <2>1. /\ << >> \in Seq(Observation) /\ Len(<< >>) = 0
        /\ << >> \in Seq(MeasurementRecord)
    BY EmptySeq
  <2>2. /\ observations' \in Seq(Observation)
        /\ Len(observations') <= max_observations
        /\ next_observation' \in Nat
    <3>1. /\ next_observation \in Nat /\ observe(<< >>, "restore", None)
          /\ "restore" \in ObservationKind
      BY DEF IInv, EvidenceInv, restore_durable_state, ObservationKind
    <3>2. Len(<< >>) <= max_observations
      BY <2>1, LimitsAssumption
    <3> QED BY <2>1, <3>1, <3>2, Observe
  <2> QED BY <2>1, <2>2, LimitsAssumption DEF EvidenceInv, restore_durable_state
<1>14. DurableInv'
  BY DEF IInv, DurableInv, restore_durable_state
<1> QED BY <1>12, <1>13, <1>14 DEF IInv

\* Every step preserves the invariant.
LEMMA NextInv == IInv /\ [Next]_vars => IInv'
<1> SUFFICES ASSUME IInv, [Next]_vars PROVE IInv'
  OBVIOUS
<1>1. ASSUME NEW id \in DeviceId \cup {None}, NEW d \in DeviceReports,
             upsert_device(id, d) PROVE IInv'
  BY <1>1, ReportsAssumption, UpsertDeviceStep
<1>2. ASSUME NEW id \in DeviceId, remove_device(id) PROVE IInv'
  BY <1>2, RemoveDeviceStep
<1>3. ASSUME NEW id \in LinkId \cup {None}, NEW r \in LinkReports,
             upsert_link(id, r) PROVE IInv'
  BY <1>3, ReportsAssumption, UpsertLinkStep
<1>4. ASSUME NEW id \in LinkId, remove_link(id) PROVE IInv'
  BY <1>4, RemoveLinkStep
<1>5. ASSUME NEW id \in LinkId, NEW s \in LinkStateReports,
             update_link_state(id, s[1], s[2]) PROVE IInv'
  <2>1. s[1] \in LinkOperationalState /\ s[2] \in BOOLEAN
    BY ReportsAssumption
  <2> QED BY <1>5, <2>1, UpdateLinkStateStep
<1>6. ASSUME NEW id \in DeviceId, NEW h \in HealthReports,
             update_device_health(id, h) PROVE IInv'
  BY <1>6, ReportsAssumption, UpdateDeviceHealthStep
<1>7. CASE advance_topology
  BY <1>7, AdvanceTopologyStep
<1>8. ASSUME NEW o \in ObservationReports, publish_observation(o) PROVE IInv'
  BY <1>8, PublishObservationStep
<1>9. ASSUME NEW m \in MeasurementReports, publish_measurement(m) PROVE IInv'
  BY <1>9, ReportsAssumption, PublishMeasurementStep
<1>10. CASE mark_dynamic_evidence_revalidation_required
  BY <1>10, MarkStep
<1>11. CASE capture_durable_state
  BY <1>11, CaptureStep
<1>12. ASSUME NEW s \in ForeignStates \cup ({durable} \ {None}),
              restore_durable_state(s) PROVE IInv'
  BY <1>12, RestoreStep
<1>13. CASE UNCHANGED vars
  BY <1>13 DEF vars, IInv, TopologyInv, EvidenceInv, DurableInv, LinksStamped
<1> QED BY <1>1, <1>2, <1>3, <1>4, <1>5, <1>6, <1>7, <1>8, <1>9, <1>10, <1>11,
           <1>12, <1>13 DEF Next


-----------------------------------------------------------------------------
(* Theorems *)

\* The constructor and every call of the registry keep its state well-typed.
THEOREM TypeCorrect == Spec => []TypeOK
<1>1. IInv => TypeOK
  BY DEF IInv, TopologyInv, EvidenceInv, DurableInv, WellFormed, TypeOK
<1> QED BY <1>1, InitInv, NextInv, PTL DEF Spec

\* In no reachable state does a link dangle or join a device to itself.
THEOREM LinksNeverDangle == Spec => []NoDanglingLinks
<1>1. IInv => NoDanglingLinks
  BY DEF IInv, TopologyInv, WellFormed, NoDanglingLinks
<1> QED BY <1>1, InitInv, NextInv, PTL DEF Spec

\* The registry never exceeds the limits it was constructed with.
THEOREM LimitsHold == Spec => []LimitsRespected
<1>1. IInv => LimitsRespected
  BY DEF IInv, TopologyInv, EvidenceInv, WellFormed, LimitsRespected
<1> QED BY <1>1, InitInv, NextInv, PTL DEF Spec

\* Every link always carries the generation of the topology it belongs to.
THEOREM StampsCurrent == Spec => []LinksStamped
<1>1. IInv => LinksStamped
  BY DEF IInv, TopologyInv
<1> QED BY <1>1, InitInv, NextInv, PTL DEF Spec

\* A checkpoint a registry took is accepted by its own restore.
THEOREM CheckpointsRestorable == Spec => []CapturedStateRestorable
<1>1. IInv => CapturedStateRestorable
  <2> SUFFICES ASSUME IInv, durable # None PROVE restorable(durable)
    BY DEF CapturedStateRestorable
  <2>1. /\ durable.format_version = durable_version
        /\ WellFormed(durable.devices, durable.links)
    BY DEF IInv, DurableInv
  <2>2. /\ \A d \in DOMAIN durable.devices : d \in DeviceId
        /\ \A l \in DOMAIN durable.links : l \in LinkId
    BY <2>1 DEF WellFormed, IsMap
  <2>3. \A x \in DeviceId \cup LinkId : x # None
    BY IdentityAssumption
  <2> QED BY <2>1, <2>2, <2>3 DEF WellFormed, restorable
<1> QED BY <1>1, InitInv, NextInv, PTL DEF Spec


\* A step either advances the topology generation or leaves the topology as
\* it is; only publishing evidence and capturing the state do the latter.
LEMMA StepAdvances ==
  ASSUME IInv, [Next]_vars
  PROVE  \/ topology_gen' > topology_gen
         \/ /\ UNCHANGED <<topology_gen, devices, links>>
            /\ \/ \E o \in ObservationReports : publish_observation(o)
               \/ \E m \in MeasurementReports : publish_measurement(m)
               \/ capture_durable_state
               \/ UNCHANGED vars
<1> USE DEF publish_topology
<1>1. topology_gen \in Nat
  BY DEF IInv, TopologyInv
<1>2. ASSUME NEW id, NEW d, upsert_device(id, d) PROVE topology_gen' > topology_gen
  BY <1>1, <1>2 DEF upsert_device, device_accepted
<1>3. ASSUME NEW id, remove_device(id) PROVE topology_gen' > topology_gen
  BY <1>1, <1>3 DEF remove_device
<1>4. ASSUME NEW id, NEW r, upsert_link(id, r) PROVE topology_gen' > topology_gen
  BY <1>1, <1>4 DEF upsert_link
<1>5. ASSUME NEW id, remove_link(id) PROVE topology_gen' > topology_gen
  BY <1>1, <1>5 DEF remove_link
<1>6. ASSUME NEW id, NEW st, NEW dg, update_link_state(id, st, dg)
      PROVE  topology_gen' > topology_gen
  BY <1>1, <1>6 DEF update_link_state
<1>7. ASSUME NEW id, NEW h, update_device_health(id, h)
      PROVE  topology_gen' > topology_gen
  BY <1>1, <1>7 DEF update_device_health
<1>8. CASE advance_topology
  BY <1>1, <1>8 DEF advance_topology
<1>9. ASSUME NEW d, publish_observation(d)
      PROVE  UNCHANGED <<topology_gen, devices, links>>
  BY <1>9 DEF publish_observation
<1>10. ASSUME NEW m, publish_measurement(m)
       PROVE  UNCHANGED <<topology_gen, devices, links>>
  BY <1>10 DEF publish_measurement
<1>11. CASE mark_dynamic_evidence_revalidation_required
  <2>1. topology_gen' = topology_gen + 1
    BY <1>11, Zenon DEF mark_dynamic_evidence_revalidation_required
  <2> QED BY <1>1, <2>1
<1>12. CASE capture_durable_state
  BY <1>12 DEF capture_durable_state
<1>13. ASSUME NEW s \in ForeignStates \cup ({durable} \ {None}),
              restore_durable_state(s)
       PROVE  topology_gen' > topology_gen
  <2>1. s.topology_generation \in Nat
    BY ReportsAssumption DEF IInv, DurableInv, IsDurableState
  <2> QED BY <1>1, <1>13, <2>1 DEF restore_durable_state, restored_generation
<1>14. CASE UNCHANGED vars
  BY <1>14 DEF vars
<1> QED BY <1>2, <1>3, <1>4, <1>5, <1>6, <1>7, <1>8, <1>9, <1>10, <1>11, <1>12,
           <1>13, <1>14 DEF Next

\* The topology generation identifies the topology: what a caller read under
\* a generation is what the registry still holds under that generation.
THEOREM GenerationIdentifiesTopology == Spec => ChangeAdvancesGeneration
<1>1. IInv /\ [Next]_vars =>
        [<<devices, links>>' # <<devices, links>>
           => topology_gen' > topology_gen]_vars
  BY StepAdvances
<1> QED BY <1>1, InitInv, NextInv, PTL DEF Spec, ChangeAdvancesGeneration

LinkRevalidated(l) ==
  /\ links[l].state = "REVALIDATION_REQUIRED"
  /\ links'[l].state # "REVALIDATION_REQUIRED"

\* A step that publishes the links ls frees a link from revalidation only if
\* ls holds a newer record of it.
LEMMA PublishRevalidates ==
  ASSUME topology_gen \in Nat, NEW ds, NEW ls, IsMap(ls, LinkId, LinkRecord),
         publish_topology(ds, ls),
         \A l \in DOMAIN links \cap DOMAIN ls :
           \/ ls[l].state = links[l].state
           \/ ls[l].generation > links[l].generation,
         NEW l \in DOMAIN links \cap DOMAIN links', LinkRevalidated(l)
  PROVE  links'[l].generation > links[l].generation
<1>1. links' = stamp(ls, topology_gen') /\ topology_gen' \in Nat
  BY DEF publish_topology
<1>2. /\ l \in DOMAIN ls
      /\ links'[l].state = ls[l].state
      /\ links'[l].generation = ls[l].generation
  BY <1>1, StampMap
<1> QED BY <1>2 DEF LinkRevalidated

\* Only a strictly newer record takes a link out of revalidation: a replay of
\* an older or equal one never restores its eligibility.
THEOREM ReplayNeverRevalidates == Spec => RevalidationNeedsNewerReport
<1>1. ASSUME IInv, Next,
             NEW l \in DOMAIN links \cap DOMAIN links', LinkRevalidated(l)
      PROVE  links'[l].generation > links[l].generation
  <2>1. /\ topology_gen \in Nat /\ IsMap(links, LinkId, LinkRecord)
        /\ \A k \in DOMAIN links : links[k] \in LinkRecord
    BY <1>1 DEF IInv, TopologyInv, WellFormed, IsMap
  <2>2. CASE UNCHANGED links
    BY <1>1, <2>2 DEF LinkRevalidated
  <2>3. CASE \E ds : publish_topology(ds, links)
    BY <1>1, <2>1, <2>3, PublishRevalidates
  <2>4. ASSUME NEW S, NEW ds, publish_topology(ds, erase(links, S))
        PROVE  links'[l].generation > links[l].generation
    <3>1. /\ IsMap(erase(links, S), LinkId, LinkRecord)
          /\ \A k \in DOMAIN erase(links, S) : erase(links, S)[k] = links[k]
      BY <2>1 DEF IsMap, erase
    <3> QED BY <1>1, <2>1, <2>4, <3>1, PublishRevalidates
  <2>5. ASSUME NEW id \in LinkId, NEW r \in LinkRecord, NEW ds,
               publish_topology(ds, put(links, id, r)),
               id \in DOMAIN links => r.generation > links[id].generation
        PROVE  links'[l].generation > links[l].generation
    <3>1. /\ IsMap(put(links, id, r), LinkId, LinkRecord)
          /\ DOMAIN put(links, id, r) = DOMAIN links \cup {id}
          /\ put(links, id, r)[id] = r
          /\ \A k \in DOMAIN links \ {id} : put(links, id, r)[k] = links[k]
      BY <2>1 DEF IsMap, put
    <3> QED BY <1>1, <2>1, <2>5, <3>1, PublishRevalidates
  <2>6. ASSUME NEW ls, IsMap(ls, LinkId, LinkRecord), NEW gen \in Nat,
               links' = stamp([k \in DOMAIN ls |-> requires_revalidation(ls[k])],
                              gen)
        PROVE  FALSE
    <3> DEFINE rs == [k \in DOMAIN ls |-> requires_revalidation(ls[k])]
    <3>1. /\ IsMap(rs, LinkId, LinkRecord)
          /\ \A k \in DOMAIN rs : rs[k].state = "REVALIDATION_REQUIRED"
      BY <2>6, RevalidationMap
    <3>2. links' = stamp(rs, gen)
      BY <2>6
    <3> HIDE DEF rs
    <3> QED BY <1>1, <2>6, <3>1, <3>2, StampMap DEF LinkRevalidated
  <2>7. ASSUME NEW id \in LinkId \cup {None}, NEW r \in LinkReports,
               upsert_link(id, r)
        PROVE  links'[l].generation > links[l].generation
    BY <2>5, <2>7, ReportsAssumption DEF upsert_link, link_accepted
  <2>8. ASSUME NEW id \in LinkId, NEW s \in LinkStateReports,
               update_link_state(id, s[1], s[2])
        PROVE  links'[l].generation > links[l].generation
    <3>1. /\ s[1] \in LinkOperationalState /\ s[2] \in BOOLEAN
          /\ id \in DOMAIN links /\ links[id] \in LinkRecord
      BY <2>1, <2>8, ReportsAssumption DEF update_link_state
    <3>2. PICK gen \in Nat : /\ gen = links[id].generation + 1
                             /\ gen > links[id].generation
      BY <3>1 DEF LinkRecord
    <3> DEFINE r == [links[id] EXCEPT !.state = s[1], !.degraded = s[2],
                                      !.generation = gen]
    <3>3. publish_topology(devices, put(links, id, r))
      BY <2>8, <3>2, Zenon DEF update_link_state
    <3>4. r \in LinkRecord /\ r.generation = gen
      BY <3>1 DEF LinkRecord
    <3> HIDE DEF r
    <3> QED BY <2>5, <3>2, <3>3, <3>4
  <2>9. CASE mark_dynamic_evidence_revalidation_required
    <3>1. links' = stamp([k \in DOMAIN links |-> requires_revalidation(links[k])],
                         topology_gen + 1)
      BY <2>9, Zenon
         DEF mark_dynamic_evidence_revalidation_required, publish_topology
    <3>2. topology_gen + 1 \in Nat
      BY <2>1
    <3> QED BY <2>1, <2>6, <3>1, <3>2
  <2>10. ASSUME NEW s \in ForeignStates \cup ({durable} \ {None}),
                restore_durable_state(s)
         PROVE  FALSE
    <3>1. /\ IsMap(s.links, LinkId, LinkRecord)
          /\ s.topology_generation \in Nat
      BY <1>1, ReportsAssumption DEF IInv, DurableInv, IsDurableState
    <3>2. restored_generation(s) \in Nat
      BY <2>1, <3>1 DEF restored_generation
    <3> QED BY <2>6, <2>10, <3>1, <3>2 DEF restore_durable_state
  <2>11. ASSUME NEW id, NEW d, upsert_device(id, d)
         PROVE  links'[l].generation > links[l].generation
    BY <2>3, <2>11 DEF upsert_device, device_accepted
  <2>12. ASSUME NEW id, remove_device(id)
         PROVE  links'[l].generation > links[l].generation
    BY <2>4, <2>12 DEF remove_device
  <2>13. ASSUME NEW id, remove_link(id)
         PROVE  links'[l].generation > links[l].generation
    BY <2>4, <2>13 DEF remove_link
  <2>14. ASSUME NEW id, NEW h, update_device_health(id, h)
         PROVE  links'[l].generation > links[l].generation
    BY <2>3, <2>14 DEF update_device_health
  <2>15. CASE advance_topology
    BY <2>3, <2>15 DEF advance_topology
  <2>16. ASSUME NEW d, publish_observation(d) PROVE UNCHANGED links
    BY <2>16 DEF publish_observation
  <2>17. ASSUME NEW m, publish_measurement(m) PROVE UNCHANGED links
    BY <2>17 DEF publish_measurement
  <2>18. CASE capture_durable_state
    BY <2>2, <2>18 DEF capture_durable_state
  <2> QED BY <1>1, <2>2, <2>7, <2>8, <2>9, <2>10, <2>11, <2>12, <2>13, <2>14,
             <2>15, <2>16, <2>17, <2>18 DEF Next
<1>2. IInv /\ [Next]_vars =>
        [\A l \in DOMAIN links \cap DOMAIN links' :
           /\ links[l].state = "REVALIDATION_REQUIRED"
           /\ links'[l].state # "REVALIDATION_REQUIRED"
           => links'[l].generation > links[l].generation]_vars
  BY <1>1 DEF LinkRevalidated
<1> QED BY <1>2, InitInv, NextInv, PTL DEF Spec, RevalidationNeedsNewerReport

-----------------------------------------------------------------------------
(* Parallel links *)

\* The links of ls that join the same two devices as r.
Beside(ls, r) == {k \in DOMAIN ls : same_unordered(ls[k], r)}

PairsBounded(ls) ==
  \A l \in DOMAIN ls : Cardinality(Beside(ls, ls[l])) <= max_parallel_links_per_pair

\* restore_durable_state does not count parallel links, so the files have to
\* respect the bound.
FilesRespectPairs == \A s \in ForeignStates : PairsBounded(s.links)

PairsInv == PairsBounded(links) /\ (durable # None => PairsBounded(durable.links))

\* Fewer links between the same devices respect the bound as well.
LEMMA FewerPairs ==
  ASSUME NEW ls, IsFiniteSet(DOMAIN ls), PairsBounded(ls),
         NEW ks, DOMAIN ks \subseteq DOMAIN ls,
         \A k \in DOMAIN ks : ks[k].source = ls[k].source /\ ks[k].target = ls[k].target
  PROVE  PairsBounded(ks)
<1> SUFFICES ASSUME NEW l \in DOMAIN ks
             PROVE  Cardinality(Beside(ks, ks[l])) <= max_parallel_links_per_pair
  BY DEF PairsBounded
<1>1. Beside(ks, ks[l]) \subseteq Beside(ls, ls[l])
  BY DEF Beside, same_unordered
<1>2. IsFiniteSet(Beside(ls, ls[l]))
  BY FS_Subset DEF Beside
<1>3. /\ Cardinality(Beside(ks, ks[l])) <= Cardinality(Beside(ls, ls[l]))
      /\ IsFiniteSet(Beside(ks, ks[l]))
  BY <1>1, <1>2, FS_Subset
<1>4. /\ Cardinality(Beside(ls, ls[l])) \in Nat /\ Cardinality(Beside(ks, ks[l])) \in Nat
  BY <1>2, <1>3, FS_CardinalityType
<1>5. Cardinality(Beside(ls, ls[l])) <= max_parallel_links_per_pair
  BY DEF PairsBounded
<1> QED BY <1>3, <1>4, <1>5, LimitsAssumption

\* A record for a pair that has room: its own pair gains at most the record, also
\* when the link comes from another pair, and no other pair gains.
LEMMA PutPair ==
  ASSUME NEW ls, IsFiniteSet(DOMAIN ls), PairsBounded(ls), NEW id, NEW r,
         Cardinality(Beside(ls, r)) < max_parallel_links_per_pair
  PROVE  PairsBounded(put(ls, id, r))
<1>1. PICK ks : ks = put(ls, id, r)
  OBVIOUS
<1>2. /\ DOMAIN ks = DOMAIN ls \cup {id} /\ ks[id] = r
      /\ \A k \in DOMAIN ls \ {id} : ks[k] = ls[k]
  BY <1>1 DEF put
<1> SUFFICES ASSUME NEW l \in DOMAIN ks
             PROVE  Cardinality(Beside(ks, ks[l])) <= max_parallel_links_per_pair
  BY <1>1 DEF PairsBounded
<1>3. CASE same_unordered(ks[l], r)
  <2>1. Beside(ks, ks[l]) \subseteq Beside(ls, r) \cup {id}
    BY <1>2, <1>3 DEF Beside, same_unordered
  <2>2. IsFiniteSet(Beside(ls, r)) /\ Cardinality(Beside(ls, r)) \in Nat
    BY FS_Subset, FS_CardinalityType DEF Beside
  <2>3. /\ IsFiniteSet(Beside(ls, r) \cup {id})
        /\ Cardinality(Beside(ls, r) \cup {id}) <= Cardinality(Beside(ls, r)) + 1
    <3>1. PICK B : B = Beside(ls, r)
      OBVIOUS
    <3>2. IsFiniteSet(B) /\ Cardinality(B) \in Nat
      BY <2>2, <3>1, Zenon
    <3>3. /\ IsFiniteSet(B \cup {id})
          /\ \/ Cardinality(B \cup {id}) = Cardinality(B)
             \/ Cardinality(B \cup {id}) = Cardinality(B) + 1
      BY <3>2, FS_AddElement, Zenon
    <3>4. Cardinality(B \cup {id}) <= Cardinality(B) + 1
      BY <3>2, <3>3
    <3> QED BY <3>1, <3>3, <3>4, Zenon
  <2>4. /\ Cardinality(Beside(ks, ks[l])) <= Cardinality(Beside(ls, r) \cup {id})
        /\ IsFiniteSet(Beside(ks, ks[l]))
    BY <2>1, <2>3, FS_Subset
  <2>5. /\ Cardinality(Beside(ls, r) \cup {id}) \in Nat
        /\ Cardinality(Beside(ks, ks[l])) \in Nat
    BY <2>3, <2>4, FS_CardinalityType
  <2> QED BY <2>2, <2>3, <2>4, <2>5, LimitsAssumption
<1>4. CASE ~same_unordered(ks[l], r)
  <2>1. l \in DOMAIN ls /\ ks[l] = ls[l]
    BY <1>2, <1>4 DEF same_unordered
  <2>2. Beside(ks, ks[l]) \subseteq Beside(ls, ls[l])
    <3>1. \A k \in DOMAIN ks : same_unordered(ks[k], ks[l]) => k # id
      BY <1>2, <1>4 DEF same_unordered
    <3> QED BY <1>2, <2>1, <3>1 DEF Beside
  <2>3. IsFiniteSet(Beside(ls, ls[l]))
    BY FS_Subset DEF Beside
  <2>4. /\ Cardinality(Beside(ks, ks[l])) <= Cardinality(Beside(ls, ls[l]))
        /\ IsFiniteSet(Beside(ks, ks[l]))
    BY <2>2, <2>3, FS_Subset
  <2>5. /\ Cardinality(Beside(ls, ls[l])) \in Nat /\ Cardinality(Beside(ks, ks[l])) \in Nat
    BY <2>3, <2>4, FS_CardinalityType
  <2>6. Cardinality(Beside(ls, ls[l])) <= max_parallel_links_per_pair
    BY <2>1 DEF PairsBounded
  <2> QED BY <2>4, <2>5, <2>6, LimitsAssumption
<1> QED BY <1>3, <1>4

\* Publishing links that respect the bound, stamped.
LEMMA PublishPairs ==
  ASSUME NEW ls, IsMap(ls, LinkId, LinkRecord), IsFiniteSet(DOMAIN ls), PairsBounded(ls),
         NEW gen \in Nat, links' = stamp(ls, gen)
  PROVE  PairsBounded(links')
<1>1. PICK ks : ks = stamp(ls, gen)
  OBVIOUS
<1>2. /\ DOMAIN ks = DOMAIN ls
      /\ \A l \in DOMAIN ls : ks[l].source = ls[l].source /\ ks[l].target = ls[l].target
  BY <1>1, StampMap
<1>3. PairsBounded(ks)
  BY <1>2, FewerPairs
<1> QED BY <1>1, <1>3

\* Marking or restoring links that respect the bound.
LEMMA RevalidationPairs ==
  ASSUME NEW ls, IsMap(ls, LinkId, LinkRecord), IsFiniteSet(DOMAIN ls), PairsBounded(ls),
         NEW gen \in Nat,
         links' = stamp([l \in DOMAIN ls |-> requires_revalidation(ls[l])], gen)
  PROVE  PairsBounded(links')
<1>1. PICK rs : rs = [l \in DOMAIN ls |-> requires_revalidation(ls[l])]
  OBVIOUS
<1>2. /\ IsMap(rs, LinkId, LinkRecord) /\ DOMAIN rs = DOMAIN ls
      /\ \A l \in DOMAIN ls : rs[l].source = ls[l].source /\ rs[l].target = ls[l].target
  BY <1>1, RevalidationMap, Zenon
<1>3. PairsBounded(rs)
  BY <1>2, FewerPairs
<1> QED BY <1>1, <1>2, <1>3, PublishPairs, Zenon

\* Every step keeps the bound, of the links and of the captured state.
LEMMA PairsStep ==
  ASSUME IInv, PairsInv, FilesRespectPairs, [Next]_vars
  PROVE  PairsInv'
<1>1. /\ topology_gen \in Nat /\ IsMap(links, LinkId, LinkRecord) /\ IsFiniteSet(DOMAIN links)
      /\ PairsBounded(links) /\ topology_gen + 1 \in Nat
  BY DEF IInv, TopologyInv, WellFormed, PairsInv
<1>2. ASSUME UNCHANGED links PROVE PairsBounded(links')
  BY <1>1, <1>2
<1>3. ASSUME NEW ds, publish_topology(ds, links) PROVE PairsBounded(links')
  BY <1>1, <1>3, PublishPairs DEF publish_topology
<1>4. ASSUME NEW ds, NEW S, publish_topology(ds, erase(links, S)) PROVE PairsBounded(links')
  <2>1. PICK ls : ls = erase(links, S)
    OBVIOUS
  <2>2. /\ IsMap(ls, LinkId, LinkRecord) /\ DOMAIN ls \subseteq DOMAIN links
        /\ \A l \in DOMAIN ls : ls[l] = links[l]
    BY <1>1, <2>1 DEF IsMap, erase
  <2>3. IsFiniteSet(DOMAIN ls)
    BY <1>1, <2>2, FS_Subset
  <2>4. PairsBounded(ls)
    BY <1>1, <2>2, FewerPairs
  <2> QED BY <1>1, <1>4, <2>1, <2>2, <2>3, <2>4, PublishPairs DEF publish_topology
<1>5. ASSUME NEW ds, NEW id \in LinkId, NEW r \in LinkRecord, PairsBounded(put(links, id, r)),
             publish_topology(ds, put(links, id, r))
      PROVE  PairsBounded(links')
  <2>1. PICK ls : ls = put(links, id, r)
    OBVIOUS
  <2>2. IsMap(ls, LinkId, LinkRecord) /\ DOMAIN ls = DOMAIN links \cup {id}
    BY <1>1, <2>1 DEF IsMap, put
  <2>3. IsFiniteSet(DOMAIN ls)
    BY <1>1, <2>2, FS_AddElement
  <2> QED BY <1>1, <1>5, <2>1, <2>2, <2>3, PublishPairs DEF publish_topology
<1>6. ASSUME NEW id \in LinkId \cup {None}, NEW r \in LinkReports, upsert_link(id, r)
      PROVE  PairsBounded(links')
  <2>1. /\ id \in LinkId /\ r \in LinkRecord /\ parallel(r) < max_parallel_links_per_pair
        /\ publish_topology(devices, put(links, id, r))
    BY <1>6, ReportsAssumption DEF upsert_link, link_accepted
  <2>2. Cardinality(Beside(links, r)) < max_parallel_links_per_pair
    BY <2>1 DEF parallel, Beside
  <2>3. PairsBounded(put(links, id, r))
    BY <1>1, <2>2, PutPair
  <2> QED BY <1>5, <2>1, <2>3
<1>7. ASSUME NEW id \in LinkId, NEW s \in LinkStateReports, update_link_state(id, s[1], s[2])
      PROVE  PairsBounded(links')
  <2>1. /\ s[1] \in LinkOperationalState /\ s[2] \in BOOLEAN
        /\ id \in DOMAIN links /\ links[id] \in LinkRecord
    BY <1>1, <1>7, ReportsAssumption DEF update_link_state, IsMap
  <2>2. PICK gen \in Nat : gen = links[id].generation + 1
    BY <2>1 DEF LinkRecord
  <2>3. PICK r : r = [links[id] EXCEPT !.state = s[1], !.degraded = s[2], !.generation = gen]
    OBVIOUS
  <2>4. publish_topology(devices, put(links, id, r))
    BY <1>7, <2>2, <2>3, Zenon DEF update_link_state
  <2>5. r \in LinkRecord /\ r.source = links[id].source /\ r.target = links[id].target
    BY <2>1, <2>3 DEF LinkRecord
  <2>6. PICK ls : ls = put(links, id, r)
    OBVIOUS
  <2>7. /\ DOMAIN ls = DOMAIN links
        /\ \A l \in DOMAIN ls : ls[l].source = links[l].source /\ ls[l].target = links[l].target
    BY <2>1, <2>5, <2>6 DEF put
  <2>8. PairsBounded(ls)
    BY <1>1, <2>7, FewerPairs
  <2> QED BY <1>5, <2>4, <2>5, <2>6, <2>8
<1>8. ASSUME mark_dynamic_evidence_revalidation_required PROVE PairsBounded(links')
  <2>1. links' = stamp([l \in DOMAIN links |-> requires_revalidation(links[l])],
                       topology_gen + 1)
    BY <1>8, Zenon DEF mark_dynamic_evidence_revalidation_required, publish_topology
  <2> QED BY <1>1, <2>1, RevalidationPairs
<1>9. ASSUME NEW s \in ForeignStates \cup ({durable} \ {None}), restore_durable_state(s)
      PROVE  PairsBounded(links')
  <2>1. /\ IsMap(s.links, LinkId, LinkRecord) /\ IsFiniteSet(DOMAIN s.links)
        /\ s.topology_generation \in Nat /\ PairsBounded(s.links)
    BY ReportsAssumption
       DEF IInv, DurableInv, IsDurableState, WellFormed, PairsInv, FilesRespectPairs
  <2>2. restored_generation(s) \in Nat
    BY <1>1, <2>1 DEF restored_generation
  <2> QED BY <1>9, <2>1, <2>2, RevalidationPairs DEF restore_durable_state
<1>10. ASSUME NEW id, NEW d, upsert_device(id, d) PROVE PairsBounded(links')
  BY <1>3, <1>10 DEF upsert_device
<1>11. ASSUME NEW id, remove_device(id) PROVE PairsBounded(links')
  BY <1>4, <1>11 DEF remove_device
<1>12. ASSUME NEW id, remove_link(id) PROVE PairsBounded(links')
  BY <1>4, <1>12 DEF remove_link
<1>13. ASSUME NEW id, NEW h, update_device_health(id, h) PROVE PairsBounded(links')
  BY <1>3, <1>13 DEF update_device_health
<1>14. ASSUME advance_topology PROVE PairsBounded(links')
  BY <1>3, <1>14 DEF advance_topology
<1>15. ASSUME NEW o, publish_observation(o) PROVE PairsBounded(links')
  BY <1>2, <1>15 DEF publish_observation
<1>16. ASSUME NEW m, publish_measurement(m) PROVE PairsBounded(links')
  BY <1>2, <1>16 DEF publish_measurement
<1>17. ASSUME capture_durable_state PROVE PairsBounded(links')
  BY <1>2, <1>17 DEF capture_durable_state
<1>18. PairsBounded(links')
  BY <1>2, <1>6, <1>7, <1>8, <1>9, <1>10, <1>11, <1>12, <1>13, <1>14, <1>15, <1>16, <1>17,
     Zenon DEF Next, vars
<1>19. durable' = durable \/ durable'.links = links
  <2>1. capture_durable_state => durable'.links = links
    BY DEF capture_durable_state
  <2>2. durable' = durable \/ capture_durable_state
    BY Zenon DEF Next, vars, upsert_device, remove_device, upsert_link, remove_link,
       update_link_state, update_device_health, advance_topology, publish_observation,
       publish_measurement, mark_dynamic_evidence_revalidation_required,
       restore_durable_state
  <2> QED BY <2>1, <2>2
<1> QED BY <1>1, <1>18, <1>19 DEF PairsInv

\* If the files that are restored respect the bound, upsert_link keeps it: at most
\* max_parallel_links_per_pair links join two devices, in either direction, also
\* after a newer record has moved a link from another pair.
THEOREM PairsStayBounded ==
  ASSUME FilesRespectPairs
  PROVE  Spec => []ParallelLinksBounded
<1>1. Init => PairsInv
  BY DEF Init, PairsInv, PairsBounded, empty_map
<1>2. PairsInv => ParallelLinksBounded
  BY DEF PairsInv, PairsBounded, ParallelLinksBounded, parallel, Beside
<1>3. IInv /\ PairsInv /\ [Next]_vars => (IInv /\ PairsInv)'
  BY NextInv, PairsStep
<1> QED BY <1>1, <1>2, <1>3, InitInv, PTL DEF Spec

=============================================================================
