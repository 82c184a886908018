--------------------------- MODULE MCChartStream ---------------------------
(***************************************************************************)
(* Small instances of ChartStream for TLC.                                 *)
(***************************************************************************)
EXTENDS ChartStream, TLC

Symmetry ==
  Permutations(Clients) \cup Permutations(Symbols) \cup Permutations(Handlers)
    \cup Permutations(Sockets) \cup Permutations(Timers)

=============================================================================
