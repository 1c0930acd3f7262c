----------------------------- MODULE MCWorkerFleet -----------------------------
(***************************************************************************)
(* WorkerFleet with processes of one worker, numbered by their boot.       *)
(***************************************************************************)
EXTENDS WorkerFleet, TLC

CONSTANTS w

MCDescriptor == [c \in Conn |-> [worker |-> w, boot |-> c, epoch |-> 1]]

MCHellos == {MCDescriptor[c] : c \in Conn}

MCLinkId == {MCDescriptor[c].boot * 1000000 + 1 : c \in Conn}

=============================================================================
