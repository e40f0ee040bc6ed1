----------------------------- MODULE MCInventory -----------------------------
(* Instances of Inventory for TLC. *)
EXTENDS Inventory, TLC

\* Device 1 has the MAC m1 and starts at a1, device 2 has m2 and starts at a2.
CONSTANTS a1, a2, a3, m1, m2, m3

MCMac == 1 :> m1 @@ 2 :> m2
MCHome == 1 :> a1 @@ 2 :> a2

\* One subnet; two subnets with a3 as the gateway of the second, and either device 2 an
\* Unraid host or device 1 not answering.
OneSubnet == a1 :> "a" @@ a2 :> "a" @@ a3 :> "a"
TwoSubnets == a1 :> "a" @@ a2 :> "b" @@ a3 :> "b"
Site(unraid, subnet, gateways, offline) ==
  [unraid |-> unraid, subnet |-> subnet, gateways |-> gateways, offline |-> offline]
MCSites ==
  {Site({}, OneSubnet, {}, {}), Site({m2}, TwoSubnets, {a3}, {}), Site({}, TwoSubnets, {a3}, {1})}
MCAddresses == {a1, a2, a3}
MCMacs == {m1, m2, m3}

\* The sessions run the same code.
CONSTANTS s1, s2
MCSessions == {s1, s2}
SessionsSymmetry == Permutations(MCSessions)

=============================================================================
