----------------------------- MODULE MCTerminal -----------------------------
(* Instance of Terminal for TLC. *)
EXTENDS Terminal
=============================================================================
