--------------------------- MODULE MCBalanceCache ---------------------------
(***************************************************************************)
(* Small instances of BalanceCache for TLC.                                *)
(***************************************************************************)
EXTENDS BalanceCache, TLC

Symmetry == Permutations(Wallets) \cup Permutations(Requests) \cup Permutations(Snapshots)

=============================================================================
