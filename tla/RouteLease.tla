------------------------------ MODULE RouteLease ------------------------------
(***************************************************************************)
(* What a route decision promises to the client that holds it, without the *)
(* registry's generations, the path search or the evidence: a decision is  *)
(* a lease on the topology it was computed on.  A change of the topology   *)
(* revokes every lease, and every computation that is under way, at once;  *)
(* only a computation that no change has overtaken grants a lease.         *)
(* (README: "A decision created under topology generation N is not         *)
(* executable after the topology changes until explicitly revalidated".)   *)
(***************************************************************************)
CONSTANT Client

VARIABLES
  topology,  \* what is registered, as far as a route can depend on it
  view,      \* per client: "live" while it computes on this topology, or "none"
  lease      \* per client: "live" while its decision is executable, or "none"

lease_vars == <<topology, view, lease>>

LeaseInit ==
  /\ view = [c \in Client |-> "none"]
  /\ lease = [c \in Client |-> "none"]

Change ==
  /\ view' = [c \in Client |-> "none"]
  /\ lease' = [c \in Client |-> "none"]

Compute(c) ==
  /\ view' = [view EXCEPT ![c] = "live"]
  /\ UNCHANGED <<topology, lease>>

Grant(c) ==
  /\ view[c] = "live"
  /\ lease' = [lease EXCEPT ![c] = "live"]
  /\ view' = [view EXCEPT ![c] = "none"]
  /\ UNCHANGED topology

\* A decision without a route, or one whose topology is gone already.
Refuse(c) ==
  /\ lease' = [lease EXCEPT ![c] = "none"]
  /\ view' = [view EXCEPT ![c] = "none"]
  /\ UNCHANGED topology

LeaseNext == Change \/ \E c \in Client : Compute(c) \/ Grant(c) \/ Refuse(c)

LeaseSpec == LeaseInit /\ [][LeaseNext]_lease_vars

=============================================================================
