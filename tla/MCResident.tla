----------------------------- MODULE MCResident -----------------------------
(* The instance of Resident for TLC: two clicks are on the same card.      *)
EXTENDS Resident, TLC
CONSTANTS k1, k2, k3, k4
MCCardOf == (k1 :> 1) @@ (k2 :> 1) @@ (k3 :> 2) @@ (k4 :> 3)
=============================================================================
