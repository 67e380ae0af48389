---------------------------- MODULE MCOrderService ----------------------------
(***************************************************************************)
(* Small instances of OrderService for TLC.                                *)
(***************************************************************************)
EXTENDS OrderService, TLC

Symmetry == Permutations(Handlers) \cup Permutations(Orders)
=============================================================================
