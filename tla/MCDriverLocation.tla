-------------------------- MODULE MCDriverLocation -------------------------
(***************************************************************************)
(* An instance of DriverLocation for TLC: two positions in one zone, one   *)
(* just across its border, and one beyond the zones around the first.      *)
(***************************************************************************)
EXTENDS DriverLocation, TLC

MCPoints == {<<0, 0>>, <<1, 2>>, <<1, 3>>, <<0, 8>>}
MCReported == MCPoints \ {<<0, 8>>}
MCParked == {<<0, 0>>, <<0, 8>>}
Symmetry == Permutations(Slots)
=============================================================================
