----------------------------- MODULE MCTakeover -----------------------------
(***************************************************************************)
(* Takeover with model values: where the tree is deployed first, and the   *)
(* permutations that leave that placement alone, for the safety runs.      *)
(***************************************************************************)
EXTENDS Takeover, TLC

CONSTANTS i1, i2, i3, clone1, clone2

OneClone == Main :> i1 @@ clone1 :> i2
TwoClones == Main :> i1 @@ clone1 :> i2 @@ clone2 :> i3

Symmetry == Permutations(Instances \ {i1, i2, i3})
            \cup Permutations(BrokenNames) \cup Permutations(Runs)
=============================================================================
