------------------------------ MODULE MCOutbox ------------------------------
(* Instances of Outbox for TLC.                                               *)
EXTENDS Outbox, TLC

CONSTANTS v1, v2, s1, s2

\* Every event goes to every subscription.
WantsAll == [v \in Events |-> Subs]
=============================================================================
