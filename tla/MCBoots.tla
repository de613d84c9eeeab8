------------------------------ MODULE MCBoots ------------------------------
(* Boots for TLC: two driver branches, one managed file.               *)
EXTENDS Boots

Drivers == <<535, 550>>
=============================================================================
