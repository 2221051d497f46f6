------------------------------ MODULE MCHashtbl ------------------------------
(***************************************************************************)
(* Keys for UoHashtbl that collide, at the end of the table and across the *)
(* wrap to its first slot, in the small table and partly in the doubled    *)
(* one.                                                                    *)
(***************************************************************************)
EXTENDS UoHashtbl, TLC

MCKeys == {"k1", "k2", "k3", "k4"}
MCHash == [k1 |-> 7, k2 |-> 7, k3 |-> 15, k4 |-> 0]
Symmetry == Permutations(Values)      \* values are only stored and compared
=============================================================================
