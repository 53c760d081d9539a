----------------------------- MODULE MCBacktest -----------------------------
(* Two windows that share a resolution, two classes, one of them in both. *)
EXTENDS Backtest

CONSTANTS year, quarter, storm, quake, weather, seismic

BothRuns        == {year, quarter}
BothResolutions == {storm, quake}
BothClasses     == {weather, seismic}
Windows         == [run \in Runs |-> IF run = year THEN {storm, quake} ELSE {storm}]
Mapped          == [r \in Resolutions |-> IF r = storm THEN weather ELSE seismic]

=============================================================================
