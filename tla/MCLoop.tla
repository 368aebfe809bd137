------------------------------ MODULE MCLoop ------------------------------
(***************************************************************************)
(* Model checking of Loop: the descriptors, the addresses and the masks    *)
(* are interchangeable.                                                    *)
(***************************************************************************)
EXTENDS LoopProps, TLC

Symmetry == Permutations(Fd) \cup Permutations(Ptr) \cup Permutations(Mask)
=============================================================================
