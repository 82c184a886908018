--------------------------- MODULE MCWalletLinks ---------------------------
(***************************************************************************)
(* Small instances of WalletLinks for TLC.                                 *)
(***************************************************************************)
EXTENDS WalletLinks, TLC

Symmetry == Permutations(Wallets) \cup Permutations(Calls)

=============================================================================
