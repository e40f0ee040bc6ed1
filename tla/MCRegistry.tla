----------------------------- MODULE MCRegistry -----------------------------
(* Instances of Registry for TLC. *)
EXTENDS Registry, TLC

CONSTANTS a1, a2, a3, a4

\* Three devices in three subnets, each sharing a signal with the next; the second looks
\* like a duplicate of the first, the third has an agent.  A fourth address is only
\* discovered, and might be the gateway of its subnet.
McAddresses == {a1, a2, a3, a4}
McDiscovered == {a4}
McSegment == a1 :> "s1" @@ a2 :> "s2" @@ a3 :> "s3" @@ a4 :> "s2"
McSignals == a1 :> {"mac"} @@ a2 :> {"mac", "name"} @@ a3 :> {"name"} @@ a4 :> {}
McGateway == a1 :> "entered" @@ a2 :> "no" @@ a3 :> "no" @@ a4 :> "suggested"

Device(a, p) == [ip |-> a, parent |-> p]
McDevices == <<Device(a1, 2), Device(a2, 0), Device(a3, 2), Device("none", 0)>>
McServices ==
  {[id |-> 1, of |-> 1, port |-> 22, auto |-> TRUE],
   [id |-> 2, of |-> 2, port |-> 22, auto |-> TRUE],
   [id |-> 3, of |-> 2, port |-> 80, auto |-> FALSE]}
McLinks == {<<1, 2>>, <<3, 2>>}

TaskSymmetry == Permutations(Tasks)
=============================================================================
