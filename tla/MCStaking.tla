------------------------------ MODULE MCStaking ------------------------------
(***************************************************************************)
(* Small instances of StakingSystem for TLC.  Handlers, pollers, keys and  *)
(* accounts are model values; handlers are interchangeable, so are keys.   *)
(***************************************************************************)
EXTENDS StakingProperties, TLC

Symmetry == Permutations(Handlers) \cup Permutations(Keys) \cup Permutations(Pollers)
=============================================================================
