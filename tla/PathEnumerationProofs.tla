------------------------- MODULE PathEnumerationProofs -------------------------
(***************************************************************************)
(* The topologies that PathEnumeration builds are ones on which the search *)
(* is exact, for any devices, links and limits.                            *)
(***************************************************************************)
EXTENDS PathEnumeration, PathPlanningProofs

BuiltLink ==
  [source: DeviceId, target: DeviceId, directed: BOOLEAN, technology: {"NVLINK"},
   interconnect: {"UNKNOWN"}, nominal_bandwidth: {4}, state: {"UP"},
   degraded: {FALSE}, generation: {1}, topology_generation: {1}]

\* The links are numbered in the order in which they were added and join two
\* different devices each.
LinksInv ==
  /\ links \in Seq(BuiltLink)
  /\ DOMAIN links \subseteq LinkId
  /\ \A l \in DOMAIN links : links[l].source # links[l].target

\* A topology of such links is one the search is exact on.
LEMMA BuiltRoutable == LinksInv => Routable(view)
<1> SUFFICES ASSUME LinksInv PROVE Routable(view)
  OBVIOUS
<1>1. view.links = links
  BY DEF view
<1>2. DOMAIN links = 1..Len(links) /\ Len(links) \in Nat
  BY LenProperties DEF LinksInv
<1>3. IsFiniteSet(DOMAIN links)
  BY <1>2, FS_Interval
<1>4. \A l \in DOMAIN links : links[l] \in BuiltLink
  BY <1>2, ElementOfSeq DEF LinksInv
<1>5. \A l \in DOMAIN links : links[l].source \in DeviceId /\ links[l].target \in DeviceId
  BY <1>4 DEF BuiltLink
<1> QED BY <1>1, <1>3, <1>5 DEF LinksInv, Routable

\* Adding a link keeps them numbered.
LEMMA AddLinkInv ==
  ASSUME LinksInv, NEW s \in DeviceId, NEW t \in DeviceId, NEW directed \in BOOLEAN,
         AddLink(s, t, directed)
  PROVE  LinksInv'
<1>1. PICK e : e = Link(s, t, directed)
  OBVIOUS
<1>2. e \in BuiltLink /\ e.source # e.target
  BY <1>1 DEF Link, AddLink, BuiltLink
<1>3. /\ links \in Seq(BuiltLink) /\ DOMAIN links \subseteq LinkId
      /\ \A l \in DOMAIN links : links[l].source # links[l].target
  BY DEF LinksInv
<1>4. links' = Append(links, e) /\ Len(links) + 1 \in LinkId
  BY <1>1 DEF AddLink
<1>5. DOMAIN links = 1..Len(links) /\ Len(links) \in Nat
  BY <1>3, LenProperties
<1>6. /\ links' \in Seq(BuiltLink) /\ DOMAIN links' = 1..(Len(links) + 1)
      /\ links'[Len(links) + 1] = e
      /\ \A l \in 1..Len(links) : links'[l] = links[l]
  BY <1>2, <1>3, <1>4, <1>5, AppendProperties
<1>7. \A l \in DOMAIN links' : l \in DOMAIN links \/ l = Len(links) + 1
  BY <1>5, <1>6
<1>8. DOMAIN links' \subseteq LinkId /\ \A l \in DOMAIN links' : links'[l].source # links'[l].target
  BY <1>2, <1>3, <1>4, <1>5, <1>6, <1>7
<1> QED BY <1>6, <1>8 DEF LinksInv

\* For every number of devices and links and every pair of limits: on each
\* topology that can be built, enumerate_paths_impl returns distinct simple paths
\* within max_path_depth, all of them unless max_candidate_paths cuts it short.
THEOREM EnumerationIsExact == Spec => []EnumerationExact
<1>1. Init => LinksInv
  BY EmptySeq DEF Init, LinksInv
<1>2. LinksInv /\ [Next]_links => LinksInv'
  <2> SUFFICES ASSUME LinksInv, [Next]_links PROVE LinksInv'
    OBVIOUS
  <2>1. CASE UNCHANGED links
    BY <2>1 DEF LinksInv
  <2> QED BY <2>1, AddLinkInv DEF Next
<1>3. LinksInv => EnumerationExact
  <2> SUFFICES ASSUME LinksInv, NEW src \in DeviceId, NEW tgt \in DeviceId
               PROVE  enumerated_exactly(view, src, tgt)
    BY DEF EnumerationExact
  <2> QED BY BuiltRoutable, SearchExact, Zenon
<1> QED BY <1>1, <1>2, <1>3, PTL DEF Spec

=============================================================================
