---------------------------- MODULE MCConfigForm ----------------------------
(* The settings form on a small instance.                                  *)
EXTENDS ConfigForm, FiniteSets

CONSTANT MaxCalls    \* bound on the calls under way, given up ones included

FewCalls == Cardinality(calls) <= MaxCalls
=============================================================================
