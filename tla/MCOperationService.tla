------------------------ MODULE MCOperationService ------------------------
(* OperationService for TLC: model values for the operations, and the      *)
(* symmetry between them, sound for the runs that check no liveness.       *)
EXTENDS OperationRefinement, TLC

OpSymmetry == Permutations(Op)
=============================================================================
