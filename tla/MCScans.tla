------------------------------ MODULE MCScans ------------------------------
(* Instance of Scans for TLC. *)
EXTENDS Scans

CONSTANT c1

DashboardOfFirst == {[planner |-> FALSE, subnets |-> {1}]}
============================================================================
