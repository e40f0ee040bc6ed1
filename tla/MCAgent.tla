-------------------------------- MODULE MCAgent --------------------------------
(* Instance of Agent for TLC. *)
EXTENDS Agent
=============================================================================
