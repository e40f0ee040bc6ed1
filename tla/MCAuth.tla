-------------------------------- MODULE MCAuth --------------------------------
(* Instances of Auth for TLC.                                                 *)
EXTENDS Auth, TLC

AuthSymmetry == Permutations(Requests) \cup Permutations(Sessions) \cup Permutations(Words)
=============================================================================
