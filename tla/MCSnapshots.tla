---------------------------- MODULE MCSnapshots ----------------------------
(* Snapshots for TLC: two driver branches, one of which has two versions and *)
(* leaves configuration files behind; two of three snapshots are kept.       *)
EXTENDS Snapshots

Drivers == {<<"driver-535", 1>>, <<"driver-535", 2>>, <<"driver-550", 1>>}
Leaves  == {"driver-535"}
=============================================================================
