----------------------------- MODULE MCProcess -----------------------------
(* Instance of Process for TLC. *)
EXTENDS Process
============================================================================
