------------------------- MODULE MCAccountLifecycle -------------------------
(***************************************************************************)
(* Small instances of AccountLifecycle for TLC.                            *)
(***************************************************************************)
EXTENDS AccountLifecycle, TLC

Symmetry == Permutations(Calls)

=============================================================================
