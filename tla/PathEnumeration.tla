---------------------------- MODULE PathEnumeration ----------------------------
(***************************************************************************)
(* The depth-first enumeration of PathPlanning against a definition of the *)
(* paths it should find, on every topology that can be built from the link *)
(* identities.  Links are added one at a time, so each reachable state is   *)
(* one topology.                                                           *)
(***************************************************************************)
EXTENDS PathPlanning, FiniteSets

VARIABLE links

view ==
  [generation |-> 1, devices |-> [d \in DeviceId |-> None], links |-> links,
   measurements |-> << >>]

Link(s, t, directed) ==
  [source |-> s, target |-> t, directed |-> directed,
   technology |-> "NVLINK", interconnect |-> "UNKNOWN", nominal_bandwidth |-> 4,
   state |-> "UP", degraded |-> FALSE, generation |-> 1,
   topology_generation |-> 1]

Init == links = << >>

AddLink(s, t, directed) ==
  /\ s # t /\ Len(links) + 1 \in LinkId
  /\ links' = Append(links, Link(s, t, directed))

Next == \E s, t \in DeviceId, directed \in BOOLEAN : AddLink(s, t, directed)

Spec == Init /\ [][Next]_links

-----------------------------------------------------------------------------
\* On every topology and for every pair of endpoints the search returns
\* distinct simple paths within the depth limit: all of them when they fit
\* max_candidate_paths, exactly that many otherwise.
EnumerationExact ==
  \A src, tgt \in DeviceId : enumerated_exactly(view, src, tgt)

=============================================================================
