---------------------------- MODULE MCWireProtocol ----------------------------
(***************************************************************************)
(* WireProtocol with strings that are empty, fit, and are cut, and         *)
(* a bound on frames that the longest pair of strings exceeds by one cell. *)
(***************************************************************************)
EXTENDS WireProtocol

CONSTANT Lengths

MCDevices ==
  {[id |-> 5, name |-> [i \in 1..n |-> 8], generation |-> 9, pci |-> [i \in 1..p |-> 8]] :
     n \in Lengths, p \in Lengths}

=============================================================================
