--------------------------- MODULE MCRecurrentTask ---------------------------
(* RecurrentTask for TLC: at most MaxRuns calls of mFunction and MaxOps   *)
(* start/stopAsync calls, enough for a start or a stop to land in each of *)
(* the three windows of taskCallback.                                      *)
EXTENDS RecurrentTask

MCMaxRuns == 3
MCMaxOps == 4
=============================================================================
