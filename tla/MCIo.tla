-------------------------------- MODULE MCIo --------------------------------
(***************************************************************************)
(* Model values for the runs of IoProps.                                   *)
(***************************************************************************)
EXTENDS IoProps, TLC

Symmetry == Permutations(Fd) \cup Permutations(Chan) \cup Permutations(Data)
=============================================================================
