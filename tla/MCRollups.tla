------------------------------ MODULE MCRollups ------------------------------
(* Instances of Rollups for TLC. *)
EXTENDS Rollups, TLC

\* An hour of raw rows, a day of hourly rows and one of daily rows, or twice as many
\* raw and daily ones.
KeepLess == [raw |-> 1, hourly |-> 1, daily |-> 1]
KeepMore == [raw |-> 2, hourly |-> 1, daily |-> 2]
KeepEither == {KeepLess, KeepMore}

\* No device is told from another.
DeviceSymmetry == Permutations(Devices)
=============================================================================
