--------------------------- MODULE MCCandleStream ---------------------------
(***************************************************************************)
(* Small instances of CandleStream for TLC.                                *)
(***************************************************************************)
EXTENDS CandleStream

=============================================================================
