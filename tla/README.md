# NVLink Fabric in TLA+

A TLA+ model of the topology registry, the route planner, the coordinator, its
worker processes, the protocol between them and the durable-state file of NVLink
Fabric, checked with TLC on small instances. Every safety property that a run
checks, and the refinement of an abstract lease by the route decisions, is also
proved with TLAPS for all instances; liveness is checked with TLC only. Paths are
relative to the repository; file names without a directory are in `src/core/` or
`include/nvlinkfabric/`.

## The system

| Part | State | Operations | What makes it hard |
|---|---|---|---|
| Topology registry (`registry.cpp`) | devices, links, bounded measurement and observation histories, topology generation | upsert/remove device and link, link state, device health, advance, publish evidence, mark for revalidation | callers in many threads; each mutator must keep limits, stamps and generations by itself |
| Durable state (`registry.cpp`, `durable.hpp`) | what was captured | capture, restore | a restart brings back older state under generations that were used before |
| Path planning (`path.cpp`, `policy.cpp`) | none | enumerate, rate, filter, rank | recursion bounded by depth and number of candidates |
| Route decisions (`path.cpp`, `route.hpp`) | decisions held by callers | decide, test, revalidate | decisions outlive the topology they were made on; `decide_route` reads the registry twice |
| Coordinator (`runtime.cpp`) | last boot of each worker, live count, threads | accept, handshake, serve frames, tear down, stop | threads interleave, workers die anywhere, old and new boots coexist |
| Worker client, worker process (`runtime.cpp`, `tools/nvlink_worker.cpp`) | position in `main`, connection | spawn, connect, publish, heartbeat, query, disconnect, kill | killed anywhere with part of its frames delivered; publishes once and never looks back |
| Persistence, serialization (`persistence.cpp`, `serialization.cpp`) | a file | save, load | contending saves, a crash between write and replace; bounds that differ between save and load |
| Protocol (`protocol.cpp`, `runtime.cpp`) | the bytes under way | encode, send, receive, decode frames | streams cut or damaged anywhere; one bound stated three times |
| Backends, inspection tool, examples | none | discovery, printing | hardware, I/O |

The coordinator owns one registry. Worker connections publish into it; when a
connection closes, its thread calls
`mark_dynamic_evidence_revalidation_required`. Route queries and local callers
read it. The registry publishes an immutable state behind a lock, so a reader
sees a consistent view but may hold it while the state moves on; generations are
the only means to find out.

What each part has to guarantee:

* registry: links have their ends; limits hold; a change of the topology is
  always a new topology generation, stamped on every link; what was revoked
  needs a newer report to come back; a checkpoint can be restored;
* planner: exactly the simple paths within the limits;
* decisions: an executable decision describes a usable, connected path now, meets
  the policy it was made for on the present topology, and cites evidence of the
  present topology, and a decision that was refused stays refused: a decision is a lease on one version of the topology;
* coordinator: boots are admitted in order; nothing is eligible when nobody is
  behind it; the live count is right; departures are processed; `stop()` returns;
* workers: a fresh boot becomes eligible, and no evidence goes back to an older
  boot; a route request is answered;
* protocol: what is acted on is a prefix of what was sent, and a frame that one
  side builds the other accepts;
* durable file: what was saved loads, and nothing else ever does.

## Modules

| Module | Models | Uses |
|---|---|---|
| `FabricTypes` | identities, enumerations, records | |
| `TopologyRegistry` | the registry, capture and restore | `FabricTypes` |
| `TopologyRegistryProofs` | theorems about the registry | `TopologyRegistry` |
| `PathPlanning` | enumeration, quality, eligibility, ranking | `FabricTypes` |
| `PathPlanningProofs` | what the search returns, for every topology | `PathPlanning` |
| `PathEnumeration` | the search against a reference definition | `PathPlanning` |
| `PathEnumerationProofs` | the same for any number of devices and links | `PathEnumeration`, `PathPlanningProofs` |
| `RouteAuthority` | decisions and their holders, composed with the registry | `TopologyRegistry`, `PathPlanning` |
| `RouteAuthorityProofs` | theorems about decisions | `RouteAuthority`, `TopologyRegistryProofs`, `PathPlanningProofs` |
| `RouteLease` | abstract: what a decision promises its holder | |
| `Coordinator` | accept thread, connection threads, `stop()`, new servers and processes, composed with the registry | `TopologyRegistry` |
| `CoordinatorProofs` | theorems about the coordinator | `Coordinator`, `TopologyRegistryProofs` |
| `WorkerFleet` | the real worker processes and their connections, composed with the coordinator | `Coordinator` |
| `WorkerFleetProofs` | theorems about workers and their evidence | `WorkerFleet`, `CoordinatorProofs` |
| `WireProtocol` | frames on a stream that is cut or damaged | |
| `WireProtocolProofs` | theorems about streams | `WireProtocol` |
| `DurableStore` | the file: frames, save, load, crashes | |
| `DurableStoreProofs` | theorems about the file | `DurableStore` |
| `MC*` | instances for TLC | |

**Registry.** Every mutator holds the unique lock, changes a copy and swaps the
pointer, so it is one action. A call that returns an error changes nothing and
is a stuttering step; the guard of an action is the conjunction of the
conditions under which the code does not return early. `observe` is the
`push_back`/`pop_front` on the observations, `publish_topology` the bump-and-stamp
tail that the code repeats in every topology mutator. A map from identities to
records stands for the `unordered_map`s and for the sorted vectors of
`DurableState`. `ForeignStates` are files written by other registries. The zero
identity and an absent optional are `None`. Texts, timestamps (but the
measurement's) and evidence notes are left out.

**Planner.** A view is a record of what `consistent_view` returns. A path is the
sequence of its hops. The weighted ranking is reduced to the order it induces;
what it leaves to a hash is left open, so every path the code may select is
considered. Evidence is taken to be of one class. All hard constraints that the
code reads are modelled (`require_current_topology` is read nowhere).

**Decisions.** `decide_route` is two actions: up to the selection, and the second
read of the registry for the cited observations (`cite_evidence`). An early
return is one action. `reconstruct_and_restore` (only in `RestartSpec`) is the
construction of a registry followed by a restore, with the callers keeping their
decisions, as `tests/persistence_test.cpp` does.

**Leases.** `RouteLease` knows nothing of generations, paths or evidence: a client
computes on the topology, is granted a lease if no change has overtaken the
computation, and every change revokes all leases and computations at once.
`RouteAuthority` implements it under the mapping that takes a decision, or a
computation between its two reads, for live exactly while `is_route_executable`
would accept it.

**Coordinator.** `phase[c]` is the position of a connection's thread in
`handle_connection`; each action is the code between two points where another
thread can interfere (the mutex, the registry's lock, the socket). The initial
state is a coordinator after `start()`. `reconstruct` is a new server object in
the same process, with the next epoch of its counter; `process_restarts` is a new
process, whose counters begin at one. A connection that was accepted but could
not be sent its `READY` is "dropped", because it stays in the live count. A worker may send any announced `HELLO`
and any reports, and may vanish at any time; frames it sent before can still be
read. A malformed frame has the effect of the end of the stream. Heartbeats,
route queries and refused reports change nothing. The code polls with
`select(0, ...)`, which only observes sockets on Windows: the model describes
that build.

**Fleet.** In `Coordinator` a worker may send anything; in `WorkerFleet` it is
`nvlink_worker`. `pc[c]` is its position in `main()`, `published(c)` the frames it
sends once, with the generations and the link identity that it derives from its
boot. Connecting is completed by the listening socket before the accept thread
sees it (`backlog`), and a connection that is still there when the listener is
closed is reset. The transport holds `socket_buffer` frames, then `send()`
blocks. A killed process loses any suffix of what was not read. Other programs on
`WorkerClient` also request routes and disconnect. `overlap` is a history
variable: connections that were registered together with another.

**Protocol.** A stream is a sequence of cells, one for each field and each
character; the bounds count cells. `recv_frame` is enabled when it can return:
the header announces too much, or the announced frame is there, or the stream has
ended. A string is cut to what its length field can say. The checksum has no
collisions. `dec_device` yields what `PayloadReader` yields from a payload that is
too short, since the handlers do not look at `bad`. One direction with device
records and heartbeats is modelled; links and measurements are built of the same
fields.

**Durable file.** A file is a sequence of cells: header, generation, counts, one
cell per record, checksum. `intact`, `parses` and `within_limits` are what
`deserialize_durable_state` tests; all failures have the same error code. A save
is the sequence of system calls it makes: create or truncate `path.tmp`, write it
piece by piece, close, rename, and remove it if the rename failed. A load takes
the size, reads piece by piece, and pads with zeros a file that became shorter.
Names lead to inodes, so a descriptor survives a rename. Writes, renames and
removals may fail at any time, which includes what Windows refuses while a file
is open. The checksum is taken to have no collisions, and strings are shorter
than 65536 bytes, from which on `Writer::str` writes a length modulo 65536. A loss
of power is not modelled: the file is flushed, never synchronised.

Operators commented "Mutant of" are altered copies of the definition that
follows them. No specification uses them; they serve to confirm that each
property fails when the code is changed in that way.

## Runs

Each takes from seconds to about four minutes with two workers. Deadlock is
checked only for the durable file: bounds stop the other models, a stopped
coordinator has nothing left to do, and neither has a reader that has failed.

| Run | Result | Shows |
|---|---|---|
| `Registry.cfg` | pass | the eight registry properties over all interleavings of all mutators |
| `PathEnumeration.cfg` | pass | the search equals the definition of simple paths on every topology of up to three links on four devices |
| `RouteAuthority.cfg` | pass | executable decisions are usable and connected, meet their policy and cite their view; refused ones stay refused; decisions implement leases |
| `Coordinator.cfg` | pass | boots in order, exact live count, no eligible link without a worker, across stopped servers and restarted processes |
| `WorkerFleet.cfg` | pass | two incarnations of the worker: no evidence regresses, a lone worker becomes and stays eligible, departures are processed, route requests answered, `stop()` returns once the workers are gone |
| `WireProtocol.cfg` | pass | what is delivered is a prefix of what was sent; no good frame is refused; what is sent arrives |
| `DurableStore.cfg` | pass | unless saves overlap, what was saved loads, whatever failed or died later; even if they do, a load returns nothing that nobody saved |
| `RouteRestart.cfg` | violation | a decision from before a restart is executable on the restored topology |
| `StopWithWorkers.cfg` | violation | `stop()` waits for ever for a connected worker |
| `LateMarking.cfg` | violation | the thread of a dead boot revokes what the fresh boot has published |
| `FullPair.cfg` | violation | links of dead boots fill the pair, and no fresh boot becomes eligible |
| `SharedTempFile.cfg` | violation | of two concurrent saves one renames what the other has truncated |

### Bounds

* `MaxTopologyGeneration`, `MaxObservationId`: how many changes a behaviour has.
  In `Registry.cfg` five changes are enough to fill the registry, capture,
  remove, restore and publish again; in `RouteAuthority.cfg` to restore, publish
  both links, decide, and change the topology once more. Health reports, to the
  decisions just another change of the topology, are left to `Registry.cfg`.
* `MaxGeneration` limits the generations that `update_link_state` and
  `update_device_health` produce; reports carry generations below, at and above.
* Registry limits are one or two, so that each is reached, and a link can move
  to a pair that is full. Three device identities for two places make removal
  and replacement happen; the file set holds an acceptable file and one for each
  reason of refusal.
* Three connections of two workers cover two boots of one worker beside another
  worker. Connections are interchangeable, and the run uses that symmetry (none
  of its properties is a liveness property). `MaxPublished` stops publishing
  before the bound on topology generations, so that marking is never cut off by a
  bound. `MaxEpoch = 2` allows two servers in a process, and hellos name either
  epoch; processes restart any number of times.
* `WorkerFleet.cfg` has no bound on steps: two processes of one worker publish
  each their five frames, which bounds everything else, and the bounds inherited
  from the registry are out of reach (99). Two boots are what every property
  speaks of; two frames of buffer let a worker be ahead of the coordinator and
  block. `FullPair.cfg` is the same with room for one link on the pair, as the
  default of 16 is for seventeen boots.
* `WireProtocol.cfg` has strings that are empty, fit, and are too long; `max_bytes`
  admits all records but the one with two full strings, so that the largest
  admissible frame and the smallest refused one occur. Two frames show that the
  reader keeps in step; one damaged cell hits every field with smaller, larger and
  valid-looking numbers.
* The checkpoints have frames of different lengths (leftovers and holes), of
  equal lengths (mixtures that fit the announced length) and one beyond the
  size bound. `Resave = FALSE` lets each be saved once, enough for two saves to
  contend over an existing file or a leftover. One loader suffices, since
  loaders do not affect each other. `max_persisted_state_bytes` counts cells,
  and a record is its longest string.

### Fairness

`ThreadFairness` (`StopWithWorkers.cfg`) is weak fairness of each connection's own
steps, of the accept thread and of the steps of `stop()` once begun:
operating-system threads that are not blocked eventually run, and the accept
thread wakes every 100 ms. Nothing is assumed of workers.

`FleetFairness` (`WorkerFleet.cfg`) adds the same for worker processes (`main()`
goes on until it blocks; its heartbeat loop never ends) and for the transport,
which completes what was begun: an established connection is accepted or reset,
the end of a stream is reported. Nobody has to spawn or kill a worker, ask for a
route or call `stop()`. `StopReturnsAfterWorkers` has the departure of all workers
as a hypothesis; `StopWithWorkers.cfg` shows that `stop()` depends on it.

`WireSpec` has weak fairness of `recv_frame`: the reader's thread runs when
`recv` has what it waits for.

## Disagreements between documents and code

1. *Decisions across a restart.* A restored registry continues from the
   checkpoint's generation plus one and so repeats generations issued after the
   checkpoint. `is_route_executable` compares generations only, so a decision
   made before the restart can be accepted while every restored link waits for
   revalidation, even if the selected link now joins other devices (README,
   lines 130-132 and 140).
2. *stop().* It closes the listener but no worker connection
   (`runtime.hpp:39`).
3. *Late marking.* A closed connection's thread marks all links and all
   worker-owned devices, where the README (lines 138-139) speaks of that worker's
   evidence. It does so whenever it is scheduled (`runtime.cpp:445`); if a fresh
   boot has published by then, its link is revoked too, and `nvlink_worker` never
   publishes it again. `LoneBootEligible` holds: only workers registered at the
   same time are affected.
4. *Full pair.* Each boot names a new link (`nvlink_worker.cpp:67`), the links of
   dead boots are never removed, and they count against the bound
   (`registry.cpp:216`): after 16 boots, by default, no boot is eligible again.
5. *Concurrent saves.* All saves to a path use one temporary name without a
   lock, so the file under the final name can be partial (`persistence.hpp:11`).
   Loading then fails; it never returns a mixture (`LoadsOnlySaved`).

More, without a run of their own:

* the second read in `decide_route` (`path.cpp:459`) may see observations made
  after the view. Such a decision is never executable (`ExecutableCitesItsView`);
* a policy's demands on measurements (`min_measured_bandwidth_bps`,
  `exclude_contended`) hold when the decision is made and are not looked at again:
  a new measurement revokes nothing (`registry.cpp:341`). Links without a nominal
  bandwidth are ignored in a path's minimum (`path.cpp:169`);
* the live count is not taken back when `READY` cannot be sent (`runtime.cpp:367`,
  `runtime.hpp:46`). `LiveCountExact` states the count with this leak, and that
  nothing else is miscounted;
* the boot is compared at `HELLO` only (`runtime.cpp:390`), so a superseded boot
  goes on publishing, against the fencing that the README promises (lines 37 and
  137). Its records do not replace those of the newer boot
  (`EvidenceNeverRegresses`), because `nvlink_worker` derives generations from
  its boot;
* a restarted coordinator process has epoch 1 again and has forgotten the boots
  (`runtime.cpp:222`), where the README (line 141) says that a restart advances the
  epoch. `BootsAdmittedInOrder` is stated for the life of one process;
* the reader of a checkpoint bounds strings by 4096 bytes and record counts by the
  default limits, which the writer does not, so that a save can succeed that no
  load accepts (`serialization.cpp:65` and `257`);
* removing a record forgets its generation, so an older report is accepted after
  it (`registry.cpp:258`), against "Backward generation movement ... rejected"
  (README, lines 103-105). Nothing in the runtime removes records.

## Proofs

The theorems hold for all values of the constants that satisfy the named
assumptions of the modules:

* `IdentityAssumption`, `LimitsAssumption`, `ReportsAssumption`
  (`TopologyRegistry`): `None` is no identity; limits are natural numbers and there
  is room for one observation, since a restore appends one without testing the
  bound; reports and files are well-typed, and files are finite. Nothing else is
  assumed of files: they may be malformed in every way that
  `restore_durable_state` tests;
* `RequestsAssumption` (`RouteAuthority`): clients ask for devices with policies;
* `CoordinatorAssumption`: connections are finitely many, and an announced `HELLO`
  is something other than none;
* `FleetAssumption`: the command lines name announced hellos, the two devices
  differ, and `boot * 1000000 + 1` is the identity of a link, that is, the product
  does not wrap around in 64 bits;
* `CheckpointsAssumption` (`DurableStore`): a checkpoint consists of a generation
  and two lists, and there is an inode for every process and both names;
* `WireAssumption`: bounds are natural numbers, strings sequences of them.

| Theorem | States | Provided that |
|---|---|---|
| `TypeCorrect` | `Spec => []TypeOK` | |
| `LinksNeverDangle` | `Spec => []NoDanglingLinks` | |
| `LimitsHold` | `Spec => []LimitsRespected` | |
| `StampsCurrent` | `Spec => []LinksStamped` | |
| `CheckpointsRestorable` | `Spec => []CapturedStateRestorable` | |
| `GenerationIdentifiesTopology` | `Spec => ChangeAdvancesGeneration` | |
| `ReplayNeverRevalidates` | `Spec => RevalidationNeedsNewerReport` | |
| `PairsStayBounded` | `Spec => []ParallelLinksBounded` | `FilesRespectPairs` |
| `SearchExact` | `enumerated_exactly(view, src, tgt)` | `Routable(view)` |
| `EnumerationIsExact` | `Spec => []EnumerationExact` | |
| `ExecutableMeansUsable` | `RouteSpec => []ExecutableLinksUsable` | |
| `ExecutableMeansPolicyMet` | `RouteSpec => []ExecutableMeetsPolicy` | |
| `RefusedStaysRefused` | `RouteSpec => StaleDecisionStaysStale` | |
| `DecisionsAreLeases` | `RouteSpec => ImplementsRouteLease` | |
| `ExecutableCitesWhatItSaw` | `RouteSpec => []ExecutableCitesItsView` | `CallersLeaveDevices` |
| `RouteTypeCorrect` | `RouteSpec => []RouteTypeOK` | |
| `ExecutableMeansConnected` | `RouteSpec => []ExecutableRouteConnects` | |
| `CoordinatorTypeCorrect` | `RestartSpec => []CoordinatorTypeOK` | |
| `RegistryServed` | the registry's invariants under `RestartSpec` | |
| `LiveCountIsExact` | `RestartSpec => []LiveCountExact` | |
| `DepartureRevokes` | `RestartSpec => []NoWorkersNoEligibleLinks` | |
| `BootsInOrder` | `RestartSpec => BootsAdmittedInOrder` | |
| `FleetTypeCorrect` | `FleetSpec => []FleetTypeOK` | |
| `EvidenceOrdered` | `FleetSpec => EvidenceNeverRegresses` | |
| `LoneBootIsEligible` | `FleetSpec => []LoneBootEligible` | `RoomForAll`, `BootsNameWorkers` |
| `StreamStaysInStep` | `WireSpec => []DeliveredIsPrefixOfSent` | |
| `GoodFramesAccepted` | `WireSpec => []NoGoodFrameRefused` | |
| `StoreTypeCorrect` | `Spec => []StoreTypeOK` | |
| `LoadsReturnSavedStates` | `Spec => []LoadsOnlySaved` | |
| `SavedStatesLoad` | `Spec => []SavedStateLoads` | checkpoints are `within_limits` |

The hypotheses mark where the code relies on its callers:

* `FilesRespectPairs`: `restore_durable_state` does not count parallel links, so a
  file made elsewhere can exceed the bound; one that was captured cannot;
* `Routable`: links of the view join two different devices (not necessarily
  registered ones). Every view of the registry does (`ViewRoutable`);
* `CallersLeaveDevices`: no caller publishes an observation of kind "device". None
  in the repository publishes any; one that did would make it citable without a
  new generation;
* `RoomForAll`: the registry and the pair have room for the links of all boots.
  `FullPair.cfg` shows what happens otherwise;
* `BootsNameWorkers`: no two workers use the same boot number. `nvlink_worker`
  derives the identity of its link from the boot alone, so two workers with one
  boot number would publish the same link, and the second report would not count;
* `within_limits`: the reader's bounds on records and strings, which the writer
  does not test (`serialization.cpp:65`).

*The registry's invariant* `IInv` has three parts. `TopologyInv` says that the
current devices and links are `WellFormed` (typed, finite, within the limits,
every record with a generation, every link between two different registered
devices) and stamped. `EvidenceInv` types and bounds the histories. `DurableInv`
says the same of the captured state as of the current one; without it a restore
could bring back a dangling link, and `NoDanglingLinks` alone is not inductive.
There is one lemma per action, all resting on `PublishTopology` (what the common
tail establishes) and `Observe`. `StepAdvances` then says that a step leaves the
topology alone or advances the generation; the action properties follow.

*The decisions' invariant* `RouteInv` adds to `IInv` that every decision, finished
or not, is `Sound`: its generation is not in the future, and if it is executable
and of the current generation then its links are usable and meet its policy now. A
registry step
either changes nothing a decision speaks of or makes every decision one of an
earlier generation (`StepAdvances`); a new decision is sound because
`compute_quality` rates a path as allowed only if none of its links is missing
or unusable (`ExecutableQuality`), whatever path it is given, and because only
eligible paths are selected. What a policy demands of the topology depends on the
links alone (`PolicyOnLinks`), so that measurements, which change without a new
generation, cannot disturb it (`SoundKept`). The proof is about
`RouteSpec`: with `RestartSpec` generations are reused, `StepAdvances` fails, and
`RouteRestart.cfg` shows the consequence.

*The refinement* rests on the same invariant, with the mapping written out in
`Mapping`. A registry step that changes the generation takes every
decision's authority away, because none is of a later generation: it is `Change`;
one that does not leaves devices and links alone and is a stutter
(`RegistryLease`). The first half of `decide_route` is `Compute` or `Refuse`
(`DecideLease`), `cite_evidence` is `Grant` if the view is still current and
`Refuse` if it is not (`CiteLease`), and a revalidation that replaces the decision
is `Refuse` (`RevalidateLease`).

*Parallel links.* `PairsInv` is the bound for the current and for the captured
links. The registry counts the links on the pair before an upsert, the updated one
included if it is there already (`registry.cpp:209`), and refuses when the count has
reached the bound. Whether the link is new, stays on its pair or moves there from
another, afterwards the pair has at most one more, and no other pair has more.

*Evidence.* `EvidenceDated` says that device observations are older than the next
identity, that a view which is still current has seen all of them, and that a
current decision cites only what its view had seen. It is inductive because the
registry's own device observations come with a new generation (`CitableStep`).

*The search.* `dfs` and the concatenation of its branches are recursive functions.
That such a function satisfies its equation, and what it computes, needs induction,
and the library's induction theorems cannot be instantiated by the provers at hand.
`PathPlanningProofs` argues from the least counterexample instead: a set of natural
numbers that is not empty has a least element (`LeastNumber`, from the
well-foundedness of the strict-subset relation on a finite set). With it
`SearchDefined` gives the equation of the search, `SearchLists` says what is found
beyond a partial path, by the number of hops that remain, and `SearchExact` puts it
together with the bound on candidates. `PathEnumeration`'s topologies are
`Routable`, and so are the registry's views; `FoundPaths` then gives decisions
their connected paths, and `PathsInv` keeps them connected as `Sound` keeps them
usable.

*The coordinator's invariant* `CoordInv` contains the registry's `IInv`, so the
registry's lemmas serve again. `CountInv` counts registered and dropped
connections as one set; `MarkedInv` says that a link is eligible only while some
thread serves or is about to mark, which is what `NoWorkersNoEligibleLinks` lacks
to be inductive; `BootInv` says that `last_boot` dominates what was announced to
this server, and that other announcements name earlier epochs.

*The fleet's invariant* `FleetInv` adds where each process is and what it can have
sent by then, that a device's generation is one of the boot that owns it, and that
a link's generation is its identity; `EvidenceNeverRegresses` follows from the
generations alone. For `LoneBootEligible`, `LoneInv` says that a worker that has
shared the coordinator with nobody is alone in it, that its link is registered only
once its own frame was served, and that each of its devices and its link is either
in the registry or still to come, the devices first.

*The stream's invariant* `WireInv` says that positions exist at which the frames
not yet read begin (`Framed`), and that between them each cell is the one written
or, after damage, some number. A header or checksum that was damaged is noticed;
a frame that passes both is the one that was sent.

*The file's invariant* has two layers. `StoreInv` holds whatever overlaps: all
cells in files are cells of given states, so that a frame with a matching checksum
is one of theirs (`LoadsOnlySaved`). `ExclusiveInv` holds while saves have not
overlapped: one saver at most is under way, the temporary file holds what it has
written so far, and the file holds the last state reported as saved.

Only model-checked, because fairness is out of the prover's reach:
`SentFramesArrive`, `AdmissionLeadsToEligibility`, `DepartureProcessed`,
`RouteRequestAnswered`, `StopReturnsAfterWorkers`. `RestartSpec` of
`RouteAuthority` and the other specifications of the runs that end in a violation
have no theorem: what they would state is false.

## Not modelled

* Backends: discovery through the NVIDIA driver, and generated topologies. To the
  rest they are a source of reports, and the report sets stand for them.
* The inspection tool, examples and benchmarks: they print and measure, and change
  nothing that another part reads.
* Texts, names of enumerators, hashing of identities, timestamps.
* Rankings other than the default, latencies, and evidence of mixed classes: data,
  in decisions whose control is modelled.
* A second `start()` on one object, and a port that cannot be bound.
* `wait_worker`, which only waits.
* 64-bit overflow of generations and of `boot * 1000000`.

## Plan

1. The durable file composed with the registry: capture, save, crash, load and
   restore as one behaviour, with `LoadsReturnSavedStates` and
   `CheckpointsRestorable` as the two halves of its proof.
2. A lease on the topology for the fleet: what a client of a coordinator may
   conclude from an executable decision about the worker behind each link.
3. Step-by-step versions of the liveness arguments: the safety facts (a measure
   that no step increases and each fair step decreases) that the model-checked
   liveness properties rest on.
