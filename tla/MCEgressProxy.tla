--------------------------- MODULE MCEgressProxy ---------------------------
(* Small instances of EgressProxy for TLC. *)
EXTENDS EgressProxy, TLC

\* Workers only differ in their names.
Symmetric == Permutations(Workers)
=============================================================================
