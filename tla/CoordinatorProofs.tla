--------------------------- MODULE CoordinatorProofs ---------------------------
(***************************************************************************)
(* Theorems about Coordinator, for any number of connections, any workers, *)
(* boots and reports, and servers and processes that follow each other.    *)
(* The steps are stated for all well-typed records, not only for those of  *)
(* the report sets, so that they can be used for particular workers.       *)
(***************************************************************************)
EXTENDS Coordinator, TopologyRegistryProofs

-----------------------------------------------------------------------------
(* The inductive invariant *)

registered_phases == {"accepted", "serving", "marking", "unregistering"}

\* A worker that was counted stays counted until its thread unregisters it.
Counted(ph) ==
  {c \in Conn : ph[c] \in registered_phases \cup {"dropped"}}

CountInv == live_count = Cardinality(Counted(phase))

\* A thread that serves a connection knows the worker it serves.
AdmittedInv == \A c \in Conn : phase[c] \in registered_phases => hello[c] # None

\* A link can be eligible only while some thread still serves or is about to
\* mark: a thread that has marked, or that has not begun to serve, vouches for
\* nothing.
MarkedInv ==
  (\A c \in Conn : phase[c] \notin {"serving", "marking"}) =>
    \A l \in DOMAIN links : links[l].state = "REVALIDATION_REQUIRED"

\* last_boot dominates every boot that was announced to this server; an
\* announcement to an earlier server of the process names an earlier epoch.
BootInv ==
  \A c \in Conn : hello[c] # None =>
    /\ hello[c].epoch <= epoch
    /\ hello[c].epoch = epoch =>
         /\ hello[c].worker \in DOMAIN last_boot
         /\ hello[c].boot <= last_boot[hello[c].worker]

CoordInv ==
  /\ IInv /\ CoordinatorTypeOK
  /\ CountInv /\ AdmittedInv /\ MarkedInv /\ BootInv

-----------------------------------------------------------------------------
(* Counting *)

\* The number that LiveCountExact adds up is the size of one set.
LEMMA CountSplit ==
  ASSUME NEW ph \in [Conn -> Phase]
  PROVE  /\ IsFiniteSet(Counted(ph))
         /\ Cardinality(Counted(ph)) \in Nat
         /\ Cardinality(Counted(ph))
              = Cardinality({c \in Conn : ph[c] \in registered_phases})
                  + Cardinality({c \in Conn : ph[c] = "dropped"})
<1> DEFINE R == {c \in Conn : ph[c] \in registered_phases}
           D == {c \in Conn : ph[c] = "dropped"}
<1>1. IsFiniteSet(Conn)
  BY CoordinatorAssumption
<1>2. IsFiniteSet(R) /\ IsFiniteSet(D)
  BY <1>1, FS_Subset
<1>3. Counted(ph) = R \cup D /\ R \cap D = {}
  BY DEF Counted, registered_phases
<1>4. /\ IsFiniteSet(R \cup D)
      /\ Cardinality(R \cup D)
           = Cardinality(R) + Cardinality(D) - Cardinality(R \cap D)
  BY <1>2, FS_Union
<1>5. Cardinality({}) = 0
  BY FS_EmptySet
<1>6. Cardinality(R) \in Nat /\ Cardinality(D) \in Nat
  BY <1>2, FS_CardinalityType
<1> HIDE DEF R, D
<1>7. /\ IsFiniteSet(Counted(ph))
      /\ Cardinality(Counted(ph)) = Cardinality(R) + Cardinality(D) - 0
  BY <1>3, <1>4, <1>5, Zenon
<1>8. Cardinality(Counted(ph)) = Cardinality(R) + Cardinality(D)
  BY <1>6, <1>7
<1>9. Cardinality(Counted(ph)) \in Nat
  BY <1>6, <1>8
<1> QED BY <1>7, <1>8, <1>9, Zenon DEF R, D

\* A thread that moves between two phases of which both or neither count.
LEMMA CountKept ==
  ASSUME phase \in [Conn -> Phase], NEW c \in Conn, NEW p, goto(c, p),
         p \in registered_phases \cup {"dropped"}
           <=> phase[c] \in registered_phases \cup {"dropped"}
  PROVE  Counted(phase') = Counted(phase)
BY DEF Counted, goto

\* What the initial state and every new server are: nobody is counted.
LEMMA NobodyCounted ==
  ASSUME NEW ph, \A c \in Conn : ph[c] \in {"none", "closed"}
  PROVE  Cardinality(Counted(ph)) = 0
<1>1. Counted(ph) = {}
  BY DEF Counted, registered_phases
<1> QED BY <1>1, FS_EmptySet

-----------------------------------------------------------------------------
(* The steps *)

\* The constructor establishes the invariant.
LEMMA CoordinatorInitInv == CoordinatorInit => CoordInv
<1> SUFFICES ASSUME CoordinatorInit PROVE CoordInv
  OBVIOUS
<1>1. IInv
  BY InitInv DEF CoordinatorInit
<1>2. CoordinatorTypeOK
  BY DEF CoordinatorInit, CoordinatorTypeOK, IsMap, empty_map, Phase
<1>3. CountInv
  BY NobodyCounted DEF CoordinatorInit, CountInv
<1>4. AdmittedInv /\ BootInv
  BY DEF CoordinatorInit, AdmittedInv, BootInv, registered_phases
<1>5. MarkedInv
  BY DEF CoordinatorInit, Init, MarkedInv, empty_map
<1> QED BY <1>1, <1>2, <1>3, <1>4, <1>5 DEF CoordInv

\* A thread moves on without a change of the registry or of the handshake's
\* tables, and neither begins to count nor stops to vouch for links.
LEMMA MoveStep ==
  ASSUME CoordInv, NEW c \in Conn, NEW p \in Phase, goto(c, p),
         UNCHANGED <<vars, hello, last_boot, live_count, stop_vars>>,
         peer' \in [Conn -> {"none", "open", "gone"}],
         p \in registered_phases \cup {"dropped"}
           <=> phase[c] \in registered_phases \cup {"dropped"},
         p \in registered_phases => phase[c] \in registered_phases,
         phase[c] \in {"serving", "marking"} => p \in {"serving", "marking"}
  PROVE  CoordInv'
<1>0. phase \in [Conn -> Phase]
  BY DEF CoordInv, CoordinatorTypeOK
<1>1. IInv'
  BY NextInv DEF CoordInv
<1>2. CoordinatorTypeOK'
  BY DEF CoordInv, CoordinatorTypeOK, stop_vars, goto, IsMap
<1>3. CountInv'
  BY <1>0, CountKept DEF CoordInv, CountInv
<1>4. AdmittedInv'
  BY <1>0 DEF CoordInv, AdmittedInv, goto
<1>5. links' = links /\ epoch' = epoch
  BY DEF vars, stop_vars
<1>6. MarkedInv'
  BY <1>0, <1>5 DEF CoordInv, MarkedInv, goto
<1>7. BootInv'
  BY <1>5 DEF CoordInv, BootInv
<1> QED BY <1>1, <1>2, <1>3, <1>4, <1>6, <1>7 DEF CoordInv

\* Nothing but the worker's end or the progress of stop() changes.
LEMMA IdleStep ==
  ASSUME CoordInv, UNCHANGED <<vars, phase, hello, last_boot, live_count, epoch>>,
         peer' \in [Conn -> {"none", "open", "gone"}],
         running' \in BOOLEAN, listener' \in BOOLEAN,
         acceptor' \in {"polling", "done"},
         stopper' \in {"idle", "closing", "joining", "stopped"}
  PROVE  CoordInv'
<1>1. IInv'
  BY NextInv DEF CoordInv
<1>2. CoordinatorTypeOK'
  BY DEF CoordInv, CoordinatorTypeOK, IsMap
<1>3. links' = links
  BY DEF vars
<1> QED BY <1>1, <1>2, <1>3
        DEF CoordInv, CountInv, Counted, AdmittedInv, MarkedInv, BootInv

\* HELLO: the boot that is announced, accepted or not, is dominated by
\* last_boot afterwards, and exactly an accepted worker begins to count.
LEMMA HelloStep ==
  ASSUME CoordInv, NEW c \in Conn, NEW h \in Hellos, receive_hello(c, h)
  PROVE  CoordInv'
<1>1. /\ phase \in [Conn -> Phase] /\ hello \in [Conn -> Hellos \cup {None}]
      /\ IsMap(last_boot, WorkerId, Nat) /\ live_count \in Nat /\ epoch \in Nat
  BY DEF CoordInv, CoordinatorTypeOK
<1>2. h.worker \in WorkerId /\ h.boot \in Nat /\ h.epoch \in Nat
  BY CoordinatorAssumption
<1>3. /\ UNCHANGED <<vars, peer, stop_vars>>
      /\ phase[c] = "hello"
      /\ hello' = [hello EXCEPT ![c] = IF h.epoch = epoch THEN h ELSE None]
  BY DEF receive_hello
<1>4. links' = links /\ epoch' = epoch
  BY <1>3 DEF vars, stop_vars
<1>5. IInv'
  BY <1>3, NextInv DEF CoordInv
<1>6. CASE boot_accepted(h)
  <2>1. /\ last_boot' = put(last_boot, h.worker, h.boot)
        /\ live_count' = live_count + 1
        /\ phase' = [phase EXCEPT ![c] = "accepted"]
        /\ hello' = [hello EXCEPT ![c] = h]
    BY <1>3, <1>6 DEF receive_hello, goto, boot_accepted
  <2>2. /\ IsMap(last_boot', WorkerId, Nat)
        /\ DOMAIN last_boot' = DOMAIN last_boot \cup {h.worker}
        /\ last_boot'[h.worker] = h.boot
        /\ \A w \in DOMAIN last_boot : last_boot'[w] >= last_boot[w]
    BY <1>1, <1>2, <1>6, <2>1 DEF IsMap, put, boot_accepted
  <2>3. CoordinatorTypeOK'
    BY <1>1, <1>3, <2>1, <2>2
       DEF CoordInv, CoordinatorTypeOK, stop_vars, Phase
  <2>4. /\ Counted(phase') = Counted(phase) \cup {c}
        /\ c \notin Counted(phase)
    BY <1>1, <1>3, <2>1 DEF Counted, registered_phases
  <2>5. CountInv'
    <3>1. IsFiniteSet(Counted(phase)) /\ Cardinality(Counted(phase)) \in Nat
      BY <1>1, CountSplit
    <3>2. Cardinality(Counted(phase) \cup {c}) = Cardinality(Counted(phase)) + 1
      BY <2>4, <3>1, FS_AddElement
    <3>3. Cardinality(Counted(phase')) = Cardinality(Counted(phase)) + 1
      BY <2>4, <3>2, Zenon
    <3> QED BY <2>1, <3>3 DEF CoordInv, CountInv
  <2>6. AdmittedInv'
    BY <1>1, <2>1, CoordinatorAssumption DEF CoordInv, AdmittedInv
  <2>7. MarkedInv'
    BY <1>1, <1>3, <1>4, <2>1 DEF CoordInv, MarkedInv
  <2>8. BootInv'
    <3> SUFFICES ASSUME NEW d \in Conn, hello'[d] # None
                 PROVE  /\ hello'[d].epoch <= epoch
                        /\ hello'[d].epoch = epoch =>
                             /\ hello'[d].worker \in DOMAIN last_boot'
                             /\ hello'[d].boot <= last_boot'[hello'[d].worker]
      BY <1>4 DEF BootInv
    <3>1. CASE d = c
      BY <1>1, <1>2, <1>6, <2>1, <2>2, <3>1 DEF boot_accepted
    <3>2. CASE d # c
      <4>1. hello'[d] = hello[d] /\ hello[d] \in Hellos
        BY <1>1, <2>1, <3>2
      <4>2. hello[d].boot \in Nat /\ hello[d].worker \in WorkerId
        BY <4>1, CoordinatorAssumption
      <4>3. \A w \in DOMAIN last_boot : last_boot[w] \in Nat /\ last_boot'[w] \in Nat
        BY <1>1, <2>2 DEF IsMap
      <4> QED BY <2>2, <4>1, <4>2, <4>3 DEF CoordInv, BootInv
    <3> QED BY <3>1, <3>2
  <2> QED BY <1>5, <2>3, <2>5, <2>6, <2>7, <2>8 DEF CoordInv
<1>7. CASE ~boot_accepted(h)
  <2>1. /\ UNCHANGED <<last_boot, live_count>>
        /\ goto(c, "rejected")
    BY <1>7 DEF receive_hello
  <2>2. phase' = [phase EXCEPT ![c] = "rejected"]
    BY <2>1 DEF goto
  <2>3. CoordinatorTypeOK'
    BY <1>1, <1>3, <2>1, <2>2
       DEF CoordInv, CoordinatorTypeOK, stop_vars, Phase, IsMap
  <2>4. CountInv'
    <3>1. Counted(phase') = Counted(phase)
      BY <1>1, <1>3, <2>1, CountKept DEF registered_phases
    <3> QED BY <2>1, <3>1, Zenon DEF CoordInv, CountInv
  <2>5. AdmittedInv' /\ MarkedInv'
    BY <1>1, <1>3, <1>4, <2>2
       DEF CoordInv, AdmittedInv, MarkedInv, registered_phases
  <2>6. BootInv'
    <3> SUFFICES ASSUME NEW d \in Conn, hello'[d] # None
                 PROVE  /\ hello'[d].epoch <= epoch
                        /\ hello'[d].epoch = epoch =>
                             /\ hello'[d].worker \in DOMAIN last_boot
                             /\ hello'[d].boot <= last_boot[hello'[d].worker]
      BY <1>4, <2>1 DEF BootInv
    <3>1. CASE d = c
      <4>1. hello'[d] = h /\ h.epoch = epoch
        BY <1>1, <1>3, <3>1
      <4>2. h.worker \in DOMAIN last_boot /\ ~(h.boot > last_boot[h.worker])
        BY <1>7, <4>1 DEF boot_accepted
      <4>3. last_boot[h.worker] \in Nat
        BY <1>1, <4>2 DEF IsMap
      <4> QED BY <1>1, <1>2, <4>1, <4>2, <4>3
    <3>2. CASE d # c
      BY <1>1, <1>3, <3>2 DEF CoordInv, BootInv
    <3> QED BY <3>1, <3>2
  <2> QED BY <1>5, <2>3, <2>4, <2>5, <2>6 DEF CoordInv
<1> QED BY <1>6, <1>7

\* A serving thread calls a mutator of the registry.
LEMMA ServeStep ==
  ASSUME CoordInv, NEW c \in Conn, phase[c] = "serving",
         UNCHANGED <<conn_vars, stop_vars>>, IInv'
  PROVE  CoordInv'
<1>1. UNCHANGED <<phase, hello, peer, last_boot, live_count>>
  BY DEF conn_vars
<1>2. CoordinatorTypeOK'
  BY <1>1 DEF CoordInv, CoordinatorTypeOK, stop_vars, IsMap
<1> QED BY <1>1, <1>2
        DEF CoordInv, CountInv, Counted, AdmittedInv, MarkedInv, BootInv, stop_vars

\* A device is published in the name of the worker and the boot that said HELLO.
LEMMA PublishDeviceStep ==
  ASSUME CoordInv, NEW c \in Conn, NEW id \in DeviceId, NEW d \in DeviceRecord,
         publish_device(c, id, d)
  PROVE  CoordInv'
<1> DEFINE owned == [d EXCEPT !.owner_worker = hello[c].worker,
                              !.owner_boot = hello[c].boot]
<1>1. /\ phase[c] = "serving" /\ UNCHANGED <<conn_vars, stop_vars>>
      /\ upsert_device(id, owned)
  BY Zenon DEF publish_device
<1>2. hello[c] \in Hellos
  BY <1>1 DEF CoordInv, CoordinatorTypeOK, AdmittedInv, registered_phases
<1>3. hello[c].worker \in WorkerId /\ hello[c].boot \in Nat
  BY <1>2, CoordinatorAssumption
<1>4. owned \in DeviceRecord
  BY <1>3 DEF DeviceRecord
<1> HIDE DEF owned
<1>5. IInv'
  BY <1>1, <1>4, UpsertDeviceStep DEF CoordInv
<1> QED BY <1>1, <1>5, ServeStep

\* The other two publications reach the registry as they are.
LEMMA PublishLinkStep ==
  ASSUME CoordInv, NEW c \in Conn, NEW id \in LinkId, NEW r \in LinkRecord,
         publish_link(c, id, r)
  PROVE  CoordInv'
BY ServeStep, UpsertLinkStep DEF publish_link, CoordInv

LEMMA ServeMeasurementStep ==
  ASSUME CoordInv, NEW c \in Conn, NEW m \in MeasurementRecord,
         serve_measurement(c, m)
  PROVE  CoordInv'
BY ServeStep, PublishMeasurementStep DEF serve_measurement, CoordInv

\* The marking establishes MarkedInv afresh, so that the thread may stop to
\* vouch.
LEMMA MarkEvidenceStep ==
  ASSUME CoordInv, NEW c \in Conn, mark_evidence(c)
  PROVE  CoordInv'
<1>1. /\ phase[c] = "marking" /\ goto(c, "unregistering")
      /\ mark_dynamic_evidence_revalidation_required
      /\ UNCHANGED <<hello, peer, last_boot, live_count, stop_vars>>
  BY DEF mark_evidence
<1>2. phase \in [Conn -> Phase]
  BY DEF CoordInv, CoordinatorTypeOK
<1>3. IInv'
  BY <1>1, MarkStep DEF CoordInv
<1>4. CoordinatorTypeOK'
  BY <1>1 DEF CoordInv, CoordinatorTypeOK, goto, stop_vars, Phase, IsMap
<1>5. CountInv'
  <2>1. Counted(phase') = Counted(phase)
    BY <1>1, <1>2, CountKept DEF registered_phases
  <2> QED BY <1>1, <2>1, Zenon DEF CoordInv, CountInv
<1>6. AdmittedInv'
  BY <1>1, <1>2 DEF CoordInv, AdmittedInv, goto, registered_phases
<1>7. \A l \in DOMAIN links' : links'[l].state = "REVALIDATION_REQUIRED"
  <2> DEFINE rs == [l \in DOMAIN links |-> requires_revalidation(links[l])]
  <2>1. links' = stamp(rs, topology_gen + 1)
    BY <1>1, Zenon DEF mark_dynamic_evidence_revalidation_required, publish_topology
  <2>2. IsMap(links, LinkId, LinkRecord) /\ topology_gen + 1 \in Nat
    BY DEF CoordInv, IInv, TopologyInv, WellFormed
  <2>3. /\ IsMap(rs, LinkId, LinkRecord)
        /\ \A l \in DOMAIN rs : rs[l].state = "REVALIDATION_REQUIRED"
    BY <2>2, RevalidationMap
  <2> HIDE DEF rs
  <2>4. PICK gen \in Nat : links' = stamp(rs, gen)
    BY <2>1, <2>2
  <2> QED BY <2>3, <2>4, StampMap
<1>8. BootInv'
  BY <1>1 DEF CoordInv, BootInv, stop_vars
<1> QED BY <1>3, <1>4, <1>5, <1>6, <1>7, <1>8 DEF CoordInv, MarkedInv

\* The worker is counted off: the test for zero never hides a miscount.
LEMMA UnregisterStep ==
  ASSUME CoordInv, NEW c \in Conn, unregister(c)
  PROVE  CoordInv'
<1>1. /\ phase[c] = "unregistering"
      /\ phase' = [phase EXCEPT ![c] = "closed"]
      /\ UNCHANGED <<vars, hello, peer, last_boot, stop_vars>>
  BY DEF unregister, goto
<1>2. phase \in [Conn -> Phase] /\ live_count \in Nat
  BY DEF CoordInv, CoordinatorTypeOK
<1>3. c \in Counted(phase) /\ Counted(phase') = Counted(phase) \ {c}
  BY <1>1, <1>2 DEF Counted, registered_phases
<1>4. CountInv' /\ live_count' \in Nat
  <2>1. IsFiniteSet(Counted(phase)) /\ Cardinality(Counted(phase)) \in Nat
    BY <1>2, CountSplit
  <2>2. /\ Cardinality(Counted(phase) \ {c}) = Cardinality(Counted(phase)) - 1
        /\ IsFiniteSet(Counted(phase) \ {c})
    BY <1>3, <2>1, FS_RemoveElement
  <2>3. Cardinality(Counted(phase) \ {c}) \in Nat
    BY <2>2, FS_CardinalityType
  <2>4. Cardinality(Counted(phase')) = Cardinality(Counted(phase) \ {c})
    BY <1>3, Zenon
  <2>5. live_count = Cardinality(Counted(phase))
    BY DEF CoordInv, CountInv
  <2>6. live_count' = Cardinality(Counted(phase'))
    BY <2>1, <2>2, <2>3, <2>4, <2>5 DEF unregister
  <2> QED BY <2>3, <2>4, <2>6 DEF CountInv
<1>5. IInv'
  BY <1>1, NextInv DEF CoordInv
<1>6. CoordinatorTypeOK'
  BY <1>1, <1>4 DEF CoordInv, CoordinatorTypeOK, stop_vars, Phase, IsMap
<1>7. AdmittedInv'
  BY <1>1, <1>2 DEF CoordInv, AdmittedInv, registered_phases
<1>8. links' = links /\ epoch' = epoch
  BY <1>1 DEF vars, stop_vars
<1>9. MarkedInv' /\ BootInv'
  BY <1>1, <1>2, <1>8 DEF CoordInv, MarkedInv, BootInv
<1> QED BY <1>4, <1>5, <1>6, <1>7, <1>9 DEF CoordInv

\* A new server starts with an empty registry and empty tables, and under an
\* epoch that nothing announced so far names.
LEMMA FreshServerStep ==
  ASSUME CoordInv, fresh_server, next_observation' \in Nat, epoch' \in Nat,
         phase' = [c \in Conn |-> IF phase[c] = "none" THEN "none" ELSE "closed"],
         peer' \in [Conn -> {"none", "open", "gone"}],
         hello' \in [Conn -> Hellos \cup {None}],
         \A c \in Conn : hello'[c] # None => hello'[c].epoch < epoch'
  PROVE  CoordInv'
<1>1. /\ topology_gen' = 1 /\ devices' = empty_map /\ links' = empty_map
      /\ measurement_history' = << >> /\ observations' = << >>
      /\ durable' = durable /\ DOMAIN empty_map = {}
  BY DEF fresh_server, empty_map
<1>2. IInv'
  <2>1. IsFiniteSet({}) /\ Cardinality({}) = 0
    BY FS_EmptySet
  <2>2. WellFormed(devices', links')
    BY <1>1, <2>1, LimitsAssumption DEF WellFormed, IsMap, empty_map
  <2>3. TopologyInv'
    BY <1>1, <2>2 DEF TopologyInv, LinksStamped
  <2>4. EvidenceInv'
    BY <1>1, LimitsAssumption DEF EvidenceInv
  <2>5. DurableInv'
    BY <1>1 DEF CoordInv, IInv, DurableInv
  <2> QED BY <2>3, <2>4, <2>5 DEF IInv
<1>3. CoordinatorTypeOK'
  BY DEF fresh_server, CoordinatorTypeOK, Phase, IsMap, empty_map
<1>4. CountInv'
  BY NobodyCounted DEF fresh_server, CountInv
<1>5. AdmittedInv'
  BY DEF AdmittedInv, registered_phases
<1>6. MarkedInv'
  BY <1>1 DEF MarkedInv
<1>7. BootInv'
  <2> SUFFICES ASSUME NEW c \in Conn, hello'[c] # None
               PROVE  /\ hello'[c].epoch <= epoch'
                      /\ hello'[c].epoch # epoch'
    BY DEF BootInv
  <2>1. hello'[c].epoch \in Nat
    BY CoordinatorAssumption
  <2> QED BY <2>1
<1> QED BY <1>2, <1>3, <1>4, <1>5, <1>6, <1>7 DEF CoordInv

\* Every step of the coordinator's threads preserves the invariant.
LEMMA ThreadStep ==
  ASSUME CoordInv, NEW c \in Conn,
         \/ accept(c) \/ worker_gone(c) \/ no_hello(c)
         \/ send_reply(c) \/ send_reply_fails(c) \/ connection_closed(c)
         \/ mark_evidence(c) \/ unregister(c)
  PROVE  CoordInv'
<1>1. /\ phase \in [Conn -> Phase]
      /\ peer \in [Conn -> {"none", "open", "gone"}]
      /\ running \in BOOLEAN /\ listener \in BOOLEAN
      /\ acceptor \in {"polling", "done"}
      /\ stopper \in {"idle", "closing", "joining", "stopped"}
  BY DEF CoordInv, CoordinatorTypeOK
<1>2. CASE accept(c)
  BY <1>1, <1>2, MoveStep DEF accept, Phase, registered_phases
<1>3. CASE worker_gone(c)
  BY <1>1, <1>3, IdleStep DEF worker_gone, stop_vars
<1>4. CASE no_hello(c)
  BY <1>1, <1>4, MoveStep DEF no_hello, Phase, registered_phases
<1>5. CASE send_reply(c)
  BY <1>1, <1>5, MoveStep DEF send_reply, Phase, registered_phases
<1>6. CASE send_reply_fails(c)
  BY <1>1, <1>6, MoveStep DEF send_reply_fails, Phase, registered_phases
<1>7. CASE connection_closed(c)
  BY <1>1, <1>7, MoveStep DEF connection_closed, Phase, registered_phases
<1> QED BY <1>2, <1>3, <1>4, <1>5, <1>6, <1>7, MarkEvidenceStep, UnregisterStep

\* The accept thread's exit and the steps of stop() touch no connection.
LEMMA StopStep ==
  ASSUME CoordInv, acceptor_exits \/ stop
  PROVE  CoordInv'
<1>1. /\ peer \in [Conn -> {"none", "open", "gone"}]
      /\ running \in BOOLEAN /\ listener \in BOOLEAN
      /\ acceptor \in {"polling", "done"}
      /\ stopper \in {"idle", "closing", "joining", "stopped"}
  BY DEF CoordInv, CoordinatorTypeOK
<1> QED BY <1>1, IdleStep
        DEF acceptor_exits, stop, stop_begins, stop_closes_listener, stop_returns,
            conn_vars

\* A server after another, in the same process or in a new one.
LEMMA ServerStep ==
  ASSUME CoordInv, reconstruct \/ process_restarts
  PROVE  CoordInv'
<1>1. /\ peer \in [Conn -> {"none", "open", "gone"}]
      /\ hello \in [Conn -> Hellos \cup {None}] /\ epoch \in Nat
      /\ next_observation \in Nat
  BY DEF CoordInv, CoordinatorTypeOK, IInv, EvidenceInv
<1>2. CASE reconstruct
  <2>1. epoch' = epoch + 1 /\ UNCHANGED <<hello, peer, next_observation>>
    BY <1>2 DEF reconstruct
  <2>2. \A c \in Conn : hello[c] # None =>
          hello[c].epoch \in Nat /\ hello[c].epoch <= epoch
    BY <1>1, CoordinatorAssumption DEF CoordInv, BootInv
  <2>3. \A c \in Conn : hello'[c] # None => hello'[c].epoch < epoch'
    BY <1>1, <2>1, <2>2
  <2> QED BY <1>1, <1>2, <2>1, <2>3, FreshServerStep DEF reconstruct
<1>3. CASE process_restarts
  BY <1>1, <1>3, FreshServerStep DEF process_restarts
<1> QED BY <1>2, <1>3

\* Every step of the system preserves the invariant.
LEMMA CoordinatorNextInv ==
  CoordInv /\ [CoordinatorNext \/ reconstruct \/ process_restarts]_coordinator_vars
    => CoordInv'
<1> SUFFICES ASSUME CoordInv,
                    [CoordinatorNext \/ reconstruct \/ process_restarts]_coordinator_vars
             PROVE  CoordInv'
  OBVIOUS
<1>1. ASSUME NEW c \in Conn, NEW h \in Hellos, receive_hello(c, h) PROVE CoordInv'
  BY <1>1, HelloStep
<1>2. ASSUME NEW c \in Conn, serve(c) PROVE CoordInv'
  BY <1>2, ReportsAssumption, PublishDeviceStep, PublishLinkStep,
     ServeMeasurementStep DEF serve
<1>3. ASSUME NEW c \in Conn,
             accept(c) \/ worker_gone(c) \/ send_reply_fails(c) \/ teardown(c)
      PROVE  CoordInv'
  BY <1>3, ThreadStep DEF teardown
<1>4. CASE acceptor_exits \/ stop
  BY <1>4, StopStep
<1>5. CASE reconstruct \/ process_restarts
  BY <1>5, ServerStep
<1>6. CASE UNCHANGED coordinator_vars
  <2>1. /\ UNCHANGED <<vars, phase, hello, last_boot, live_count, epoch>>
        /\ UNCHANGED <<peer, running, listener, acceptor, stopper>>
    BY <1>6 DEF coordinator_vars, conn_vars, stop_vars
  <2> QED BY <2>1, IdleStep DEF CoordInv, CoordinatorTypeOK
<1> QED BY <1>1, <1>2, <1>3, <1>4, <1>5, <1>6 DEF CoordinatorNext

-----------------------------------------------------------------------------
(* Theorems *)

\* Whatever workers announce and publish, and however servers and processes
\* follow each other, the coordinator's state is well-typed.
THEOREM CoordinatorTypeCorrect == RestartSpec => []CoordinatorTypeOK
<1>1. CoordInv => CoordinatorTypeOK
  BY DEF CoordInv
<1> QED BY <1>1, CoordinatorInitInv, CoordinatorNextInv, PTL DEF RestartSpec

\* The registry keeps its promises under the threads that share it, with the
\* records they stamp with worker and boot, and from one server to the next.
THEOREM RegistryServed ==
  RestartSpec => [](TypeOK /\ NoDanglingLinks /\ LimitsRespected /\ LinksStamped)
<1>1. CoordInv => TypeOK /\ NoDanglingLinks /\ LimitsRespected /\ LinksStamped
  BY DEF CoordInv, IInv, TopologyInv, EvidenceInv, DurableInv, WellFormed, TypeOK,
         NoDanglingLinks, LimitsRespected
<1> QED BY <1>1, CoordinatorInitInv, CoordinatorNextInv, PTL DEF RestartSpec

\* live_worker_count() counts the registered workers and those whose READY
\* could not be sent, and nothing else.
THEOREM LiveCountIsExact == RestartSpec => []LiveCountExact
<1>1. CoordInv => LiveCountExact
  <2> SUFFICES ASSUME CoordInv PROVE LiveCountExact
    OBVIOUS
  <2>1. phase \in [Conn -> Phase] /\ live_count = Cardinality(Counted(phase))
    BY DEF CoordInv, CoordinatorTypeOK, CountInv
  <2>2. Cardinality(Counted(phase))
          = Cardinality({c \in Conn : phase[c] \in registered_phases})
              + Cardinality({c \in Conn : phase[c] = "dropped"})
    BY <2>1, CountSplit
  <2> QED BY <2>1, <2>2, Zenon DEF LiveCountExact, registered, registered_phases
<1> QED BY <1>1, CoordinatorInitInv, CoordinatorNextInv, PTL DEF RestartSpec

\* When no worker is registered, or live_worker_count() says so, every link
\* waits for revalidation.
THEOREM DepartureRevokes == RestartSpec => []NoWorkersNoEligibleLinks
<1>1. CoordInv => NoWorkersNoEligibleLinks
  <2> SUFFICES ASSUME CoordInv, live_count = 0 \/ registered = {}
               PROVE  \A l \in DOMAIN links : links[l].state = "REVALIDATION_REQUIRED"
    BY DEF NoWorkersNoEligibleLinks
  <2>1. phase \in [Conn -> Phase] /\ live_count = Cardinality(Counted(phase))
    BY DEF CoordInv, CoordinatorTypeOK, CountInv
  <2>2. IsFiniteSet(Counted(phase))
    BY <2>1, CountSplit
  <2>3. live_count = 0 => Counted(phase) = {}
    BY <2>1, <2>2, FS_EmptySet, Zenon
  <2>4. \A c \in Conn : phase[c] \notin {"serving", "marking"}
    BY <2>3 DEF registered, Counted, registered_phases
  <2> QED BY <2>4 DEF CoordInv, MarkedInv
<1> QED BY <1>1, CoordinatorInitInv, CoordinatorNextInv, PTL DEF RestartSpec

\* Only the handshake accepts a connection.
LEMMA AcceptedByHello ==
  ASSUME CoordInv,
         [CoordinatorNext \/ reconstruct \/ process_restarts]_coordinator_vars,
         NEW c \in Conn, phase[c] = "hello", phase'[c] = "accepted"
  PROVE  \E h \in Hellos : receive_hello(c, h) /\ boot_accepted(h)
<1>1. phase \in [Conn -> Phase]
  BY DEF CoordInv, CoordinatorTypeOK
<1>2. ASSUME NEW d \in Conn, NEW h \in Hellos, receive_hello(d, h)
      PROVE  receive_hello(c, h) /\ boot_accepted(h)
  BY <1>1, <1>2 DEF receive_hello, goto
<1>3. ASSUME NEW d \in Conn,
             \/ accept(d) \/ worker_gone(d) \/ send_reply_fails(d)
             \/ serve(d) \/ teardown(d)
      PROVE  FALSE
  BY <1>1, <1>3 DEF accept, worker_gone, send_reply_fails, serve, teardown,
     no_hello, send_reply, connection_closed, mark_evidence, unregister, goto,
     publish_device, publish_link, serve_measurement, conn_vars
<1>4. ASSUME acceptor_exits \/ stop PROVE FALSE
  BY <1>4 DEF acceptor_exits, stop, stop_begins, stop_closes_listener,
     stop_returns, conn_vars
<1>5. ASSUME reconstruct \/ process_restarts PROVE FALSE
  BY <1>5 DEF reconstruct, process_restarts
<1>6. ASSUME UNCHANGED coordinator_vars PROVE FALSE
  BY <1>6 DEF coordinator_vars, conn_vars
<1> QED BY <1>2, <1>3, <1>4, <1>5, <1>6 DEF CoordinatorNext

\* No boot is admitted twice, and none after a later one has been announced to
\* the same server.
THEOREM BootsInOrder == RestartSpec => BootsAdmittedInOrder
<1>1. CoordInv /\ [CoordinatorNext \/ reconstruct \/ process_restarts]_coordinator_vars
        => [\A c \in Conn :
              phase[c] = "hello" /\ phase'[c] = "accepted" =>
                \A d \in Conn \ {c} :
                  /\ hello[d] # None
                  /\ hello[d].worker = hello'[c].worker /\ hello[d].epoch = epoch
                  => hello[d].boot < hello'[c].boot]_coordinator_vars
  <2> SUFFICES ASSUME CoordInv,
                      [CoordinatorNext \/ reconstruct \/ process_restarts]_coordinator_vars,
                      NEW c \in Conn, phase[c] = "hello", phase'[c] = "accepted",
                      NEW d \in Conn \ {c}, hello[d] # None,
                      hello[d].worker = hello'[c].worker, hello[d].epoch = epoch
               PROVE  hello[d].boot < hello'[c].boot
    OBVIOUS
  <2>1. PICK h \in Hellos : receive_hello(c, h) /\ boot_accepted(h)
    BY AcceptedByHello
  <2>2. /\ hello \in [Conn -> Hellos \cup {None}]
        /\ IsMap(last_boot, WorkerId, Nat)
    BY DEF CoordInv, CoordinatorTypeOK
  <2>3. hello'[c] = h
    BY <2>1, <2>2 DEF receive_hello, boot_accepted
  <2>4. /\ h.worker \in DOMAIN last_boot
        /\ hello[d].boot <= last_boot[h.worker]
    BY <2>3 DEF CoordInv, BootInv
  <2>5. h.boot > last_boot[h.worker]
    BY <2>1, <2>4 DEF boot_accepted
  <2>6. hello[d].boot \in Nat /\ h.boot \in Nat /\ last_boot[h.worker] \in Nat
    BY <2>2, <2>4, CoordinatorAssumption DEF IsMap
  <2> QED BY <2>3, <2>4, <2>5, <2>6
<1> QED BY <1>1, CoordinatorInitInv, CoordinatorNextInv, PTL
        DEF RestartSpec, BootsAdmittedInOrder

=============================================================================
