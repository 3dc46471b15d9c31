-------------------------- MODULE MCMigrationRunner --------------------------
(* A small instance of MigrationRunner for TLC: a rolling upgrade. *)
EXTENDS MigrationRunner

CONSTANTS old, new

\* The new release adds a script and, between two old ones, another.
TwoReleases == [i \in Instances |-> IF i = old THEN {1, 3} ELSE {1, 2, 3, 4}]
AllScripts == 1..4
=============================================================================
