--------------------------- MODULE MCRunDispatch ----------------------------
(* Small instances of the dispatch of runs for TLC.                        *)
EXTENDS RunDispatch, TLC

CONSTANT g1

PluginOnly == {"PLUGIN"}

(* The order of the runs is in the stream, not in their names.             *)
RelaySymmetry == Permutations(RelayWorkers) \cup Permutations(Runs)

=============================================================================
