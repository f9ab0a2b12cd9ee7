--------------------------- MODULE MCConbeeDevice ---------------------------
(***************************************************************************)
(* What TLC needs beyond ConbeeDevice: the clients are interchangeable.    *)
(* Only the runs that check safety use the symmetry.                       *)
(***************************************************************************)
EXTENDS ConbeeDevice, TLC

ClientSymmetry == Permutations(Clients)
=============================================================================
