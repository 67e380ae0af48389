------------------------------ MODULE MCRebuild ------------------------------
(***************************************************************************)
(* Small instances of Rebuild for TLC.                                     *)
(***************************************************************************)
EXTENDS Rebuild, TLC

CONSTANTS a, b

\* One member keeps its directory and one starts over, each always the same way.
OneOfEach == (a :> {"checkpoint"}) @@ (b :> {"full"})

OrderSymmetry == Permutations(Orders)
=============================================================================
