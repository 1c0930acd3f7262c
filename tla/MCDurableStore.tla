---------------------------- MODULE MCDurableStore ----------------------------
(***************************************************************************)
(* DurableStore with checkpoints of different lengths, so that a shorter   *)
(* frame can be written over a longer one, and of equal lengths, so that   *)
(* a mixture of two frames can have the length it announces.               *)
(***************************************************************************)
EXTENDS DurableStore, TLC

CONSTANTS p1, p2

rec(id, n) == [id |-> id, longest |-> n]

checkpoint(g, ds, ls) ==
  [topology_generation |-> g, devices |-> ds, links |-> ls]

Short == checkpoint(1, <<rec("a", 1)>>, <<>>)
Other == checkpoint(2, <<rec("b", 1)>>, <<>>)
Empty == checkpoint(3, <<>>, <<>>)
TooLarge == checkpoint(4, <<rec("a", 1)>>, <<rec("l", 1)>>)

MCCheckpoints == {Short, Other, Empty, TooLarge}

SaverSymmetry == Permutations({p1, p2})
=============================================================================
