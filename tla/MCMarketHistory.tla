--------------------------- MODULE MCMarketHistory ---------------------------
(***************************************************************************)
(* Small instances of MarketHistory for TLC.                               *)
(***************************************************************************)
EXTENDS MarketHistory, TLC

Symmetry == Permutations(Fetches) \cup Permutations(Tokens) \cup Permutations(Pools)

=============================================================================
