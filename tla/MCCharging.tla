----------------------------- MODULE MCCharging -----------------------------
(***************************************************************************)
(* Instances of Charging: a battery of five units that is full or empty    *)
(* within two or three turns of the loop.                                  *)
(***************************************************************************)
EXTENDS Charging

BothWays == {-3, -1, 0, 2}
Wide == {[charge |-> 3, discharge |-> 3]}
Shrinking == {[charge |-> 3, discharge |-> 3], [charge |-> 1, discharge |-> 0]}
=============================================================================
