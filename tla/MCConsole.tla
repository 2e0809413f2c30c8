----------------------------- MODULE MCConsole -----------------------------
(* The console on a small instance.  It is checked under fairness, hence   *)
(* without symmetry.                                                       *)
EXTENDS Console
=============================================================================
