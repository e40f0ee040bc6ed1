----------------------------- MODULE MCPresence -----------------------------
(* Instances of Presence for TLC: which tasks overlap in each run.          *)
EXTENDS Presence, TLC

CONSTANTS d1, d2, p1, p2, p3

\* A device with an agent: a full scan, the minute probe and the sync.
KindScans == (p1 :> "dashboard") @@ (p2 :> "probe") @@ (p3 :> "sync")
\* The two tasks that decide about devices by themselves, and the agent's reports.
KindLoops == (p1 :> "planner") @@ (p2 :> "probe") @@ (p3 :> "report")
=============================================================================
