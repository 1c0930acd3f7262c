------------------------------ MODULE Coordinator ------------------------------
(***************************************************************************)
(* The coordinator server (src/core/runtime.cpp): its accept thread, one   *)
(* thread per worker connection, stop(), the registry they share, and what *)
(* a new server object, or a new process, starts from.                     *)
(*                                                                         *)
(* A connection is one TCP connection of one worker process; its identity  *)
(* is never used again.  The worker's side is nondeterministic: it may     *)
(* send any HELLO of the constant set and any reports, and may vanish at   *)
(* any time.  Frames already sent when it vanishes can still be read.  A   *)
(* publish frame that the registry refuses, a heartbeat and a route query  *)
(* change nothing and are stuttering steps.                                *)
(***************************************************************************)
EXTENDS TopologyRegistry

CONSTANTS
  Conn,          \* worker connections
  Hellos,        \* the [worker, boot, epoch] that workers announce
  MaxPublished,  \* bound: topology generation up to which workers publish
  MaxEpoch       \* bound: servers constructed in one process

ASSUME CoordinatorAssumption ==
  /\ IsFiniteSet(Conn)
  /\ Hellos \subseteq [worker: WorkerId, boot: Nat, epoch: Nat] /\ None \notin Hellos
  /\ MaxPublished \in Nat /\ MaxEpoch \in Nat

VARIABLES
  phase,       \* where each connection's thread is in handle_connection
  hello,       \* the HELLO each connection announced to this process, None
               \* before it and for one that does not name the server's epoch
  peer,        \* whether the worker's end of the connection is still there
  last_boot,   \* Impl::last_boot, a map from WorkerId
  live_count,  \* Impl::live_count
  running,     \* Impl::running
  listener,    \* the listening socket is open
  acceptor,    \* the accept thread: "polling" or "done"
  stopper,     \* the thread in stop(): "idle", "closing", "joining", "stopped"
  epoch        \* CoordinatorServer::epoch_, the latest of the process's counter

conn_vars == <<phase, hello, peer, last_boot, live_count>>
stop_vars == <<running, listener, acceptor, stopper, epoch>>
coordinator_vars == <<vars, conn_vars, stop_vars>>

Phase == {"none", "hello", "accepted", "rejected", "serving", "marking",
          "unregistering", "closed", "dropped"}

\* No thread is in handle_connection for the connection.
ended(c) == phase[c] \in {"none", "closed", "dropped"}

\* Connections whose HELLO was accepted and counted, and not counted off.
registered == {c \in Conn :
                 phase[c] \in {"accepted", "serving", "marking", "unregistering"}}

goto(c, p) == phase' = [phase EXCEPT ![c] = p]

-----------------------------------------------------------------------------
(* The accept thread and the workers' ends *)

\* accept() succeeds only on an open listener, but running may have been
\* cleared since the loop tested it.
accept(c) ==
  /\ acceptor = "polling" /\ listener
  /\ phase[c] = "none"
  /\ goto(c, "hello")
  /\ peer' = [peer EXCEPT ![c] = "open"]
  /\ UNCHANGED <<vars, hello, last_boot, live_count, stop_vars>>

\* Mutant of acceptor_exits: closing the listener does not wake the thread.
acceptor_exits_if_open ==
  /\ acceptor = "polling" /\ ~running /\ listener
  /\ acceptor' = "done"
  /\ UNCHANGED <<vars, conn_vars, running, listener, stopper, epoch>>

\* The select() poll times out or fails, and the loop sees running cleared.
acceptor_exits ==
  /\ acceptor = "polling" /\ ~running
  /\ acceptor' = "done"
  /\ UNCHANGED <<vars, conn_vars, running, listener, stopper, epoch>>

\* The worker process dies or disconnects, or its stream turns undecodable.
worker_gone(c) ==
  /\ peer[c] = "open"
  /\ peer' = [peer EXCEPT ![c] = "gone"]
  /\ UNCHANGED <<vars, phase, hello, last_boot, live_count, stop_vars>>

-----------------------------------------------------------------------------
(* handle_connection *)

boot_accepted(h) ==
  /\ h.epoch = epoch
  /\ h.worker \notin DOMAIN last_boot \/ h.boot > last_boot[h.worker]

\* Mutant of receive_hello: the map is filled under the wrong key.
receive_hello_by_boot(c, h) ==
  /\ phase[c] = "hello"
  /\ hello' = [hello EXCEPT ![c] = IF h.epoch = epoch THEN h ELSE None]
  /\ IF boot_accepted(h)
       THEN /\ last_boot' = put(last_boot, h.boot, h.worker)
            /\ live_count' = live_count + 1
            /\ goto(c, "accepted")
       ELSE /\ goto(c, "rejected")
            /\ UNCHANGED <<last_boot, live_count>>
  /\ UNCHANGED <<vars, peer, stop_vars>>

\* HELLO is read, and epoch and boot are validated under the mutex.
receive_hello(c, h) ==
  /\ phase[c] = "hello"
  /\ hello' = [hello EXCEPT ![c] = IF h.epoch = epoch THEN h ELSE None]
  /\ IF boot_accepted(h)
       THEN /\ last_boot' = put(last_boot, h.worker, h.boot)
            /\ live_count' = live_count + 1
            /\ goto(c, "accepted")
       ELSE /\ goto(c, "rejected")
            /\ UNCHANGED <<last_boot, live_count>>
  /\ UNCHANGED <<vars, peer, stop_vars>>

\* The stream ends, or its first frame is not a well-formed HELLO.
no_hello(c) ==
  /\ phase[c] = "hello" /\ peer[c] = "gone"
  /\ goto(c, "closed")
  /\ UNCHANGED <<vars, hello, peer, last_boot, live_count, stop_vars>>

\* The reply is handed to the transport.  After READY the thread serves the
\* connection; after GOODBYE it closes it.
send_reply(c) ==
  /\ phase[c] \in {"accepted", "rejected"}
  /\ goto(c, IF phase[c] = "accepted" THEN "serving" ELSE "closed")
  /\ UNCHANGED <<vars, hello, peer, last_boot, live_count, stop_vars>>

\* Mutant of send_reply_fails: the worker is counted off even when it was
\* rejected and never counted.
send_reply_fails_counts_off(c) ==
  /\ phase[c] \in {"accepted", "rejected"} /\ peer[c] = "gone"
  /\ goto(c, "closed")
  /\ live_count' = IF live_count > 0 THEN live_count - 1 ELSE live_count
  /\ UNCHANGED <<vars, hello, peer, last_boot, stop_vars>>

\* The reply cannot be sent: the thread returns at once.  A worker that was
\* counted when it was accepted stays counted.
send_reply_fails(c) ==
  /\ phase[c] \in {"accepted", "rejected"} /\ peer[c] = "gone"
  /\ goto(c, IF phase[c] = "accepted" THEN "dropped" ELSE "closed")
  /\ UNCHANGED <<vars, hello, peer, last_boot, live_count, stop_vars>>

\* A publish frame is applied on behalf of the connection's worker and boot.
publish_device(c, id, d) ==
  /\ phase[c] = "serving" /\ topology_gen < MaxPublished
  /\ upsert_device(id, [d EXCEPT !.owner_worker = hello[c].worker,
                                 !.owner_boot = hello[c].boot])
  /\ UNCHANGED <<conn_vars, stop_vars>>

publish_link(c, id, r) ==
  /\ phase[c] = "serving" /\ topology_gen < MaxPublished
  /\ upsert_link(id, r)
  /\ UNCHANGED <<conn_vars, stop_vars>>

serve_measurement(c, m) ==
  /\ phase[c] = "serving" /\ topology_gen < MaxPublished
  /\ publish_measurement(m)
  /\ UNCHANGED <<conn_vars, stop_vars>>

\* Mutant of connection_closed: the evidence is not marked.
connection_closed_unmarked(c) ==
  /\ phase[c] = "serving" /\ peer[c] = "gone"
  /\ goto(c, "unregistering")
  /\ UNCHANGED <<vars, hello, peer, last_boot, live_count, stop_vars>>

connection_closed(c) ==
  /\ phase[c] = "serving" /\ peer[c] = "gone"
  /\ goto(c, "marking")
  /\ UNCHANGED <<vars, hello, peer, last_boot, live_count, stop_vars>>

mark_evidence(c) ==
  /\ phase[c] = "marking"
  /\ mark_dynamic_evidence_revalidation_required
  /\ goto(c, "unregistering")
  /\ UNCHANGED <<hello, peer, last_boot, live_count, stop_vars>>

\* Mutant of unregister: stop() holds the mutex while it joins the threads.
unregister_if_unlocked(c) ==
  /\ phase[c] = "unregistering" /\ stopper # "joining"
  /\ live_count' = IF live_count > 0 THEN live_count - 1 ELSE live_count
  /\ goto(c, "closed")
  /\ UNCHANGED <<vars, hello, peer, last_boot, stop_vars>>

unregister(c) ==
  /\ phase[c] = "unregistering"
  /\ live_count' = IF live_count > 0 THEN live_count - 1 ELSE live_count
  /\ goto(c, "closed")
  /\ UNCHANGED <<vars, hello, peer, last_boot, stop_vars>>

-----------------------------------------------------------------------------
(* stop() *)

stop_begins ==
  /\ stopper = "idle"
  /\ running' = FALSE
  /\ stopper' = "closing"
  /\ UNCHANGED <<vars, conn_vars, listener, acceptor, epoch>>

stop_closes_listener ==
  /\ stopper = "closing"
  /\ listener' = FALSE
  /\ stopper' = "joining"
  /\ UNCHANGED <<vars, conn_vars, running, acceptor, epoch>>

\* The accept thread is joined, then every connection thread.
stop_returns ==
  /\ stopper = "joining" /\ acceptor = "done"
  /\ \A c \in Conn : ended(c)
  /\ stopper' = "stopped"
  /\ UNCHANGED <<vars, conn_vars, running, listener, acceptor, epoch>>

-----------------------------------------------------------------------------
(* A new server object, in the same process or in a new one *)

\* The members of a server that has been constructed and started.
fresh_server ==
  /\ topology_gen' = 1
  /\ devices' = empty_map /\ links' = empty_map
  /\ measurement_history' = << >> /\ observations' = << >>
  /\ last_boot' = empty_map /\ live_count' = 0
  /\ running' = TRUE /\ listener' = TRUE /\ acceptor' = "polling"
  /\ stopper' = "idle"
  /\ UNCHANGED durable

\* Mutant of reconstruct: the epoch is not taken from the counter.
reconstruct_same_epoch ==
  /\ stopper = "stopped"
  /\ fresh_server
  /\ phase' = [c \in Conn |-> IF phase[c] = "none" THEN "none" ELSE "closed"]
  /\ UNCHANGED <<hello, peer, next_observation, epoch>>

\* The server is stopped and destroyed, and its process constructs another:
\* the process's counters go on.
reconstruct ==
  /\ stopper = "stopped" /\ epoch < MaxEpoch
  /\ fresh_server
  /\ epoch' = epoch + 1
  /\ phase' = [c \in Conn |-> IF phase[c] = "none" THEN "none" ELSE "closed"]
  /\ UNCHANGED <<hello, peer, next_observation>>

\* The coordinator process dies, its connections with it, and is started
\* again: its counters begin anew, and nothing it was told is known.
process_restarts ==
  /\ fresh_server
  /\ epoch' = 1 /\ next_observation' = 1
  /\ phase' = [c \in Conn |-> IF phase[c] = "none" THEN "none" ELSE "closed"]
  /\ hello' = [c \in Conn |-> None]
  /\ peer' = [c \in Conn |-> IF peer[c] = "open" THEN "gone" ELSE peer[c]]

-----------------------------------------------------------------------------
CoordinatorInit ==
  /\ Init
  /\ phase = [c \in Conn |-> "none"]
  /\ hello = [c \in Conn |-> None]
  /\ peer = [c \in Conn |-> "none"]
  /\ last_boot = empty_map
  /\ live_count = 0
  /\ running = TRUE /\ listener = TRUE /\ acceptor = "polling"
  /\ stopper = "idle" /\ epoch = 1

serve(c) ==
  \/ \E id \in DeviceId, d \in DeviceReports : publish_device(c, id, d)
  \/ \E id \in LinkId, r \in LinkReports : publish_link(c, id, r)
  \/ \E m \in MeasurementReports : serve_measurement(c, m)

\* The steps of a connection's thread that need nothing from the worker.
teardown(c) ==
  \/ no_hello(c) \/ send_reply(c)
  \/ connection_closed(c) \/ mark_evidence(c) \/ unregister(c)

stop == stop_begins \/ stop_closes_listener \/ stop_returns

CoordinatorNext ==
  \/ \E c \in Conn :
       \/ accept(c) \/ worker_gone(c)
       \/ \E h \in Hellos : receive_hello(c, h)
       \/ send_reply_fails(c) \/ serve(c) \/ teardown(c)
  \/ acceptor_exits
  \/ stop

CoordinatorSpec == CoordinatorInit /\ [][CoordinatorNext]_coordinator_vars

\* The coordinator's own threads are scheduled fairly; the workers are not
\* obliged to do anything.
ThreadFairness ==
  /\ \A c \in Conn : WF_coordinator_vars(teardown(c))
  /\ WF_coordinator_vars(acceptor_exits)
  /\ WF_coordinator_vars(stop_closes_listener)
  /\ WF_coordinator_vars(stop_returns)

FairSpec == CoordinatorSpec /\ ThreadFairness

\* A server that may be stopped and constructed again, in a process that may
\* die and be started again.
RestartSpec ==
  /\ CoordinatorInit
  /\ [][CoordinatorNext \/ reconstruct \/ process_restarts]_coordinator_vars

-----------------------------------------------------------------------------
(* Properties *)

\* Types of the coordinator's state.
CoordinatorTypeOK ==
  /\ phase \in [Conn -> Phase]
  /\ hello \in [Conn -> Hellos \cup {None}]
  /\ peer \in [Conn -> {"none", "open", "gone"}]
  /\ IsMap(last_boot, WorkerId, Nat)
  /\ live_count \in Nat
  /\ running \in BOOLEAN /\ listener \in BOOLEAN
  /\ acceptor \in {"polling", "done"}
  /\ stopper \in {"idle", "closing", "joining", "stopped"}
  /\ epoch \in Nat

\* Whenever live_worker_count() is zero, or no connection is registered any
\* more, no link is eligible: whatever the interleaving of publishing, dying
\* and marking threads, everything that the departed workers published waits
\* for revalidation.
NoWorkersNoEligibleLinks ==
  live_count = 0 \/ registered = {} =>
    \A l \in DOMAIN links : links[l].state = "REVALIDATION_REQUIRED"

\* A HELLO is accepted only when its boot is newer than every boot that any
\* other connection has announced to a server of that epoch for that worker
\* since the process started, accepted or not, closed or not: however
\* handshakes overlap and servers follow each other, no boot is admitted twice
\* and none after a later one.
BootsAdmittedInOrder ==
  [][\A c \in Conn :
       phase[c] = "hello" /\ phase'[c] = "accepted" =>
         \A d \in Conn \ {c} :
           /\ hello[d] # None
           /\ hello[d].worker = hello'[c].worker /\ hello[d].epoch = epoch
           => hello[d].boot < hello'[c].boot]_coordinator_vars

\* live_worker_count() (runtime.hpp: "Number of currently-registered live
\* workers") is the number of registered connections plus the number of
\* connections dropped because the READY of an accepted HELLO could not be
\* sent: those are never counted off, and nothing else is miscounted, in
\* particular no registered worker is counted away by another's departure.
LiveCountExact ==
  live_count = Cardinality(registered)
                 + Cardinality({c \in Conn : phase[c] = "dropped"})

\* runtime.hpp: stop() "Stops the listener, closes worker connections, and
\* joins all threads": once called it returns.
StopReturns == (stopper = "closing") ~> (stopper = "stopped")

=============================================================================
