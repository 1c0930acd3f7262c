------------------------------ MODULE WorkerFleet ------------------------------
(***************************************************************************)
(* The coordinator with the worker processes it is made for: nvlink_worker *)
(* (src/tools/nvlink_worker.cpp) on WorkerClient, spawned and killed from  *)
(* outside (src/core/runtime.cpp).                                         *)
(*                                                                         *)
(* Every process makes one connection, which is named after it.  A         *)
(* connection carries frames in order in each direction; a process that    *)
(* dies takes with it any suffix of what it sent and was not read yet.     *)
(* The threads of the coordinator are those of Coordinator, reading what   *)
(* is on the wire.                                                         *)
(***************************************************************************)
EXTENDS Coordinator

CONSTANTS
  descriptor,      \* the worker, boot and epoch on each process's command line
  gpu0, gpu1,      \* the two devices that nvlink_worker publishes
  socket_buffer    \* frames the transport holds before send() blocks

ASSUME FleetAssumption ==
  /\ descriptor \in [Conn -> Hellos]
  /\ {gpu0, gpu1} \subseteq DeviceId /\ gpu0 # gpu1
  /\ \A c \in Conn : descriptor[c].boot * 1000000 + 1 \in LinkId
  /\ socket_buffer \in Nat \ {0}

VARIABLES
  pc,        \* where each process is in main(), "unspawned" before it is
  todo,      \* the frames that main() still has to publish
  backlog,   \* connections established and not accepted yet
  wire,      \* per process, the frames sent to the coordinator and not read
  replies,   \* per process, the coordinator's reply that it has not read, or None
  overlap    \* history: connections registered at the same time as another

worker_vars == <<pc, todo, wire, replies>>
fleet_vars == <<coordinator_vars, worker_vars, backlog, overlap>>

ProgramCounter ==
  {"unspawned", "connecting", "handshake", "publishing", "beating", "routing",
   "exited"}

-----------------------------------------------------------------------------
(* What nvlink_worker publishes *)

frame(type, id, body) == [type |-> type, id |-> id, body |-> body]

\* Mutant of base: every incarnation starts from the same number.
base_constant(c) == 1000000

\* Generations and link identities are seeded from the boot.
base(c) == descriptor[c].boot * 1000000

device_frame(id, generation) ==
  frame("PUBLISH_DEVICE", id,
        [health |-> "PRESENT", generation |-> generation,
         owner_worker |-> None, owner_boot |-> None])

\* enc_link leaves the degraded flag, the capability's interconnect and the
\* stamp out, so dec_link has their defaults.  Bandwidths are in Gbit/s.
link_frame(id, generation) ==
  frame("PUBLISH_LINK", id,
        [source |-> gpu0, target |-> gpu1, directed |-> FALSE,
         technology |-> "NVLINK", interconnect |-> "UNKNOWN",
         nominal_bandwidth |-> 400, state |-> "UP", degraded |-> FALSE, generation |-> generation,
         topology_generation |-> 0])

\* dec_meas stamps the time of arrival; one instant stands for all of them.
measurement_frame ==
  frame("PUBLISH_MEASUREMENT", None,
        [source |-> gpu0, target |-> gpu1, measured_at |-> 1, valid |-> TRUE,
         bandwidth |-> 380, contended |-> FALSE, stale |-> FALSE, revalidation_required |-> FALSE])

signal(type) == frame(type, None, None)

\* Mutant of published: the link goes out before its second device.
published_link_first(c) ==
  << device_frame(gpu0, base(c) + 1), link_frame(base(c) + 1, base(c) + 1),
     device_frame(gpu1, base(c) + 2), measurement_frame, signal("READY") >>

\* What main() sends once it is connected, in this order and only once.
published(c) ==
  << device_frame(gpu0, base(c) + 1), device_frame(gpu1, base(c) + 2),
     link_frame(base(c) + 1, base(c) + 1), measurement_frame, signal("READY") >>

-----------------------------------------------------------------------------
(* The worker process *)

goto_pc(c, p) == pc' = [pc EXCEPT ![c] = p]

\* Mutant of send: the transport is taken to be unbounded.
send_unbounded(c, f) == wire' = [wire EXCEPT ![c] = Append(@, f)]

\* send() takes a frame while the transport has room, and blocks otherwise.
send(c, f) ==
  /\ Len(wire[c]) < socket_buffer
  /\ wire' = [wire EXCEPT ![c] = Append(@, f)]

spawn_worker(c) ==
  /\ pc[c] = "unspawned"
  /\ goto_pc(c, "connecting")
  /\ UNCHANGED <<coordinator_vars, todo, wire, replies, backlog, overlap>>

\* The listening socket completes the connection, and HELLO is sent into it,
\* before the accept thread has seen either.
connect(c) ==
  /\ pc[c] = "connecting" /\ listener
  /\ backlog' = backlog \cup {c}
  /\ send(c, signal("HELLO"))
  /\ goto_pc(c, "handshake")
  /\ UNCHANGED <<coordinator_vars, todo, replies, overlap>>

connect_refused(c) ==
  /\ pc[c] = "connecting" /\ ~listener
  /\ goto_pc(c, "exited")
  /\ UNCHANGED <<coordinator_vars, todo, wire, replies, backlog, overlap>>

\* GOODBYE makes connect() fail, and main() return.
receive_reply(c) ==
  /\ pc[c] = "handshake" /\ replies[c] # None
  /\ replies' = [replies EXCEPT ![c] = None]
  /\ IF replies[c] = "READY"
       THEN /\ goto_pc(c, "publishing")
            /\ todo' = [todo EXCEPT ![c] = published(c)]
       ELSE goto_pc(c, "exited") /\ UNCHANGED todo
  /\ UNCHANGED <<coordinator_vars, wire, backlog, overlap>>

publish(c) ==
  /\ pc[c] = "publishing"
  /\ send(c, Head(todo[c]))
  /\ todo' = [todo EXCEPT ![c] = Tail(@)]
  /\ goto_pc(c, IF Len(todo[c]) = 1 THEN "beating" ELSE "publishing")
  /\ UNCHANGED <<coordinator_vars, replies, backlog, overlap>>

heartbeat(c) ==
  /\ pc[c] = "beating"
  /\ send(c, signal("HEARTBEAT"))
  /\ UNCHANGED <<coordinator_vars, pc, todo, replies, backlog, overlap>>

\* nvlink_worker itself only heartbeats; other programs on WorkerClient also
\* ask for routes, and wait for the answer.
request_route(c) ==
  /\ pc[c] = "beating"
  /\ send(c, signal("ROUTE"))
  /\ goto_pc(c, "routing")
  /\ UNCHANGED <<coordinator_vars, todo, replies, backlog, overlap>>

receive_route(c) ==
  /\ pc[c] = "routing" /\ replies[c] # None
  /\ replies' = [replies EXCEPT ![c] = None]
  /\ goto_pc(c, "beating")
  /\ UNCHANGED <<coordinator_vars, todo, wire, backlog, overlap>>

\* Such a program may also close the connection: what it sent still arrives.
disconnect(c) ==
  /\ pc[c] = "beating"
  /\ goto_pc(c, "exited")
  /\ UNCHANGED <<coordinator_vars, todo, wire, replies, backlog, overlap>>

\* The process is terminated at any point of main().
kill_worker(c) ==
  /\ pc[c] \notin {"unspawned", "exited"}
  /\ goto_pc(c, "exited")
  /\ \E n \in 0..Len(wire[c]) :
       wire' = [wire EXCEPT ![c] = SubSeq(@, 1, n)]
  /\ todo' = [todo EXCEPT ![c] = << >>]
  /\ replies' = [replies EXCEPT ![c] = None]
  /\ UNCHANGED <<coordinator_vars, backlog, overlap>>

-----------------------------------------------------------------------------
(* The coordinator's threads on that connection *)

accept_worker(c) ==
  /\ c \in backlog
  /\ accept(c)
  /\ backlog' = backlog \ {c}
  /\ UNCHANGED <<worker_vars, overlap>>

\* The listener is closed on a connection that was not accepted: it is reset.
connection_reset(c) ==
  /\ c \in backlog /\ ~listener
  /\ backlog' = backlog \ {c}
  /\ goto_pc(c, "exited")
  /\ wire' = [wire EXCEPT ![c] = << >>]
  /\ UNCHANGED <<coordinator_vars, todo, replies, overlap>>

received(c) == wire' = [wire EXCEPT ![c] = Tail(@)]

read_hello(c) ==
  /\ wire[c] # << >>
  /\ receive_hello(c, descriptor[c])
  /\ received(c)
  /\ overlap' = IF boot_accepted(descriptor[c]) /\ registered # {}
                  THEN overlap \cup registered \cup {c} ELSE overlap
  /\ UNCHANGED <<pc, todo, replies, backlog>>

\* What the coordinator sends to a process that has exited is lost.
reply(c, r) == replies' = [replies EXCEPT ![c] = IF pc[c] = "exited" THEN None ELSE r]

reply_to_hello(c) ==
  /\ send_reply(c)
  /\ reply(c, IF phase[c] = "accepted" THEN "READY" ELSE "GOODBYE")
  /\ UNCHANGED <<pc, todo, wire, backlog, overlap>>

\* A record the registry refuses is dropped: the error is not looked at.
apply_publication(c, f) ==
  \/ /\ f.type = "PUBLISH_DEVICE"
     /\ IF device_accepted(f.id, f.body) THEN publish_device(c, f.id, f.body)
                                        ELSE UNCHANGED coordinator_vars
  \/ /\ f.type = "PUBLISH_LINK"
     /\ IF link_accepted(f.id, f.body) THEN publish_link(c, f.id, f.body)
                                      ELSE UNCHANGED coordinator_vars
  \/ /\ f.type = "PUBLISH_MEASUREMENT"
     /\ serve_measurement(c, f.body)

serve_publication(c) ==
  /\ phase[c] = "serving" /\ wire[c] # << >>
  /\ apply_publication(c, Head(wire[c]))
  /\ received(c)
  /\ UNCHANGED <<pc, todo, replies, backlog, overlap>>

\* Mutant of serve_query: a query is taken for a frame without an answer.
serve_query_silently(c) ==
  /\ phase[c] = "serving" /\ wire[c] # << >>
  /\ Head(wire[c]).type \in {"ROUTE", "READY", "HEARTBEAT"}
  /\ received(c)
  /\ UNCHANGED <<coordinator_vars, pc, todo, replies, backlog, overlap>>

\* ROUTE is answered; READY and HEARTBEAT are ignored.
serve_query(c) ==
  /\ phase[c] = "serving" /\ wire[c] # << >>
  /\ Head(wire[c]).type \in {"ROUTE", "READY", "HEARTBEAT"}
  /\ IF Head(wire[c]).type = "ROUTE" THEN reply(c, "ROUTE") ELSE UNCHANGED replies
  /\ received(c)
  /\ UNCHANGED <<coordinator_vars, pc, todo, backlog, overlap>>

\* recv() reports the end of the stream once everything before it is read.
stream_ends(c) ==
  /\ pc[c] = "exited" /\ wire[c] = << >>
  /\ worker_gone(c)
  /\ UNCHANGED <<worker_vars, backlog, overlap>>

\* The steps of the thread that involve no frame.
closes(c) ==
  /\ \/ no_hello(c) \/ send_reply_fails(c)
     \/ connection_closed(c) \/ mark_evidence(c) \/ unregister(c)
  /\ UNCHANGED <<worker_vars, backlog, overlap>>

-----------------------------------------------------------------------------
FleetInit ==
  /\ CoordinatorInit
  /\ pc = [c \in Conn |-> "unspawned"]
  /\ todo = [c \in Conn |-> << >>] /\ wire = [c \in Conn |-> << >>]
  /\ replies = [c \in Conn |-> None]
  /\ backlog = {} /\ overlap = {}

worker(c) ==
  \/ connect(c) \/ connect_refused(c) \/ receive_reply(c)
  \/ publish(c) \/ heartbeat(c) \/ receive_route(c)

thread(c) ==
  \/ read_hello(c) \/ reply_to_hello(c)
  \/ serve_publication(c) \/ serve_query(c) \/ closes(c)

transport(c) == stream_ends(c) \/ connection_reset(c)

begin_stop == stop_begins /\ UNCHANGED <<worker_vars, backlog, overlap>>

finish_stop ==
  /\ acceptor_exits \/ stop_closes_listener \/ stop_returns
  /\ UNCHANGED <<worker_vars, backlog, overlap>>

FleetNext ==
  \/ \E c \in Conn :
       \/ spawn_worker(c) \/ kill_worker(c) \/ request_route(c) \/ disconnect(c)
       \/ worker(c) \/ accept_worker(c) \/ thread(c) \/ transport(c)
  \/ begin_stop \/ finish_stop

\* Processes, threads and the transport make progress.  Nobody is obliged to
\* spawn or to kill a worker, to ask for a route or to call stop().
FleetFairness ==
  /\ \A c \in Conn :
       /\ WF_fleet_vars(worker(c)) /\ WF_fleet_vars(accept_worker(c))
       /\ WF_fleet_vars(thread(c)) /\ WF_fleet_vars(transport(c))
  /\ WF_fleet_vars(finish_stop)

FleetSpec == FleetInit /\ [][FleetNext]_fleet_vars

FairFleetSpec == FleetSpec /\ FleetFairness

-----------------------------------------------------------------------------
(* Properties *)

\* Types of the processes' state.
FleetTypeOK ==
  /\ pc \in [Conn -> ProgramCounter]
  /\ \A c \in Conn : Len(wire[c]) <= socket_buffer
  /\ replies \in [Conn -> {None, "READY", "GOODBYE", "ROUTE"}]
  /\ backlog \subseteq Conn /\ overlap \subseteq Conn

\* Nothing is left to happen on account of what c published, or of what any
\* other connection left behind.
settled(c) ==
  /\ phase[c] = "serving" /\ pc[c] \in {"beating", "routing"}
  /\ \A i \in DOMAIN wire[c] : wire[c][i].type \in {"HEARTBEAT", "ROUTE"}
  /\ \A d \in Conn \ {c} : ended(d)

link_of(c) == base(c) + 1

usable_link_of(c) ==
  link_of(c) \in DOMAIN links /\ links[link_of(c)].state = "UP"

\* README: "A new worker with a fresh boot may restore eligibility"; the test's
\* "Worker #2 with a fresh boot identity restores eligibility."  A worker that
\* was admitted, has published everything and is still connected, with all
\* earlier connections gone, has its link up.
FreshBootRestoresEligibility ==
  \A c \in Conn : settled(c) => usable_link_of(c)

\* The same for a worker that was never registered together with another one:
\* however many incarnations came and died before it, at whatever point, and
\* with whatever part of their frames, its link is up.
LoneBootEligible ==
  \A c \in Conn \ overlap : settled(c) => usable_link_of(c)

\* nvlink_worker: "one process incarnation never collides with (or regresses) a
\* previous incarnation's evidence".  The coordinator goes on serving an older
\* boot next to a newer one; still no device passes from a newer boot back to
\* an older one, and no link is replaced by another incarnation.
EvidenceNeverRegresses ==
  [][/\ \A d \in DOMAIN devices :
          devices'[d].owner_boot >= devices[d].owner_boot
     /\ \A l \in DOMAIN links : links'[l].generation = links[l].generation
    ]_fleet_vars

\* The handshake leads somewhere: a worker that is admitted, and not killed, is
\* eligible some day, unless it shared the coordinator with another one.
AdmissionLeadsToEligibility ==
  \A c \in Conn :
    (phase[c] = "accepted") ~> (usable_link_of(c) \/ pc[c] = "exited" \/ c \in overlap)

\* A worker process that has died is noticed: its thread reads what is left,
\* marks the evidence, counts it off and ends.
DepartureProcessed ==
  \A c \in Conn :
    (pc[c] = "exited" /\ phase[c] # "none") ~> ended(c)

\* Nobody waits for ever in request_route: the answer arrives behind the frames
\* that were sent before, or the client is killed.
RouteRequestAnswered == \A c \in Conn : (pc[c] = "routing") ~> (pc[c] # "routing")

\* stop() returns once the worker processes have been ended, whatever was in
\* flight: handshakes in the backlog, unread frames, threads that mark.
StopReturnsAfterWorkers ==
  <>[](\A c \in Conn : pc[c] \in {"unspawned", "exited"})
    => ((stopper = "closing") ~> (stopper = "stopped"))

=============================================================================
