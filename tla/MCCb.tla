-------------------------------- MODULE MCCb --------------------------------
(* UoCb for TLC: the workers, and the callbacks, are interchangeable.        *)
EXTENDS UoCb, TLC

Symmetry == Permutations(Threads \ {main}) \cup Permutations(Cbs)

(* When three threads were there at a time only half of the allocations are  *)
(* made.                                                                     *)
FewThreadsOrChunks == peak <= 2 \/ 2 * chunks <= MaxChunks
=============================================================================
