-------------------------------- MODULE MCTrust --------------------------------
(* Instance of Trust for TLC. *)
EXTENDS Trust
=============================================================================
