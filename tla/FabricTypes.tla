------------------------------ MODULE FabricTypes ------------------------------
(***************************************************************************)
(* Identities, enumerations and records shared by the registry and the     *)
(* route planner (include/nvlinkfabric/enums.hpp, topology.hpp,            *)
(* measurement.hpp, registry.hpp).  Strings, timestamps other than the     *)
(* measurement's, and evidence texts are left out; a record keeps the      *)
(* fields that some decision of the code reads.                            *)
(***************************************************************************)
EXTENDS Integers

CONSTANTS
  DeviceId, LinkId, WorkerId,   \* identities that may be published
  None                          \* the zero identity, and an absent optional

ASSUME IdentityAssumption == None \notin DeviceId \cup LinkId \cup WorkerId \cup Nat

LinkOperationalState ==
  {"UNKNOWN", "PRESENT", "ABSENT", "SUPPORTED", "UNSUPPORTED", "UP", "DOWN",
   "DEGRADED", "REVALIDATION_REQUIRED", "STALE", "INCOMPATIBLE", "UNREACHABLE"}

InterconnectTechnology == {"UNKNOWN", "NONE", "NVLINK", "PCIE", "CXL", "OTHER"}

DeviceHealthState ==
  {"UNKNOWN", "PRESENT", "ABSENT", "DEGRADED", "REVALIDATION_REQUIRED",
   "INCOMPATIBLE", "UNREACHABLE"}

ObservationKind ==
  {"device", "link", "link_state", "device_health", "topology", "external",
   "recovery", "restore"}

DeviceRecord ==
  [health: DeviceHealthState, generation: Nat,
   owner_worker: WorkerId \cup {None}, owner_boot: Nat \cup {None}]

\* interconnect and nominal_bandwidth are those of the link's capability.
LinkRecord ==
  [source: DeviceId, target: DeviceId, directed: BOOLEAN,
   technology: InterconnectTechnology, interconnect: InterconnectTechnology,
   nominal_bandwidth: Nat, state: LinkOperationalState, degraded: BOOLEAN,
   generation: Nat, topology_generation: Nat]

MeasurementRecord ==
  [source: DeviceId, target: DeviceId, measured_at: Nat, valid: BOOLEAN,
   bandwidth: Nat, contended: BOOLEAN, stale: BOOLEAN, revalidation_required: BOOLEAN]

Observation ==
  [id: Nat, kind: ObservationKind, source: DeviceId \cup {None},
   stale: BOOLEAN]

=============================================================================
