--------------------------- MODULE MCSettingsFile ---------------------------
(* settings.json on a small instance.                                      *)
EXTENDS SettingsFile, TLC

Symmetry == Permutations(Processes) \cup Permutations(Values)
=============================================================================
