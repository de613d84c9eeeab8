-------------------------- MODULE MCModifications --------------------------
(* Modifications for TLC: of the three services two are enough, the one the *)
(* hibernate fix enables by itself and one of the other two; Verde finds    *)
(* both off, one on, or both on with a configuration that is not its own.   *)
EXTENDS Modifications

Units == <<"nvidia-suspend", "nvidia-hibernate">>
Found == {[enabled |-> {}, conf |-> "absent"],
          [enabled |-> {"nvidia-suspend"}, conf |-> "absent"],
          [enabled |-> ToSet(Units), conf |-> "foreign"]}
Mode  == {"standard", "offload"}
=============================================================================
