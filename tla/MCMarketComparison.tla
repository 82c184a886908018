------------------------- MODULE MCMarketComparison -------------------------
(***************************************************************************)
(* Small instances of MarketComparison for TLC.                              *)
(***************************************************************************)
EXTENDS MarketComparison, TLC

Symmetry == Permutations(Requests) \cup Permutations(Symbols)

=============================================================================
