---------------------------- MODULE MCNodeService ----------------------------
(* Instances of NodeService; handlers are interchangeable where no liveness *)
(* is checked.                                                              *)
EXTENDS NodeService, TLC

Symmetry == Permutations(Proc)
=============================================================================
