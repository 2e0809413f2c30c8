--------------------------- MODULE MCAccountNode ---------------------------
(* The account service on a small instance: two signers that may act for   *)
(* the same FID.  It is checked under fairness, hence without symmetry.    *)
EXTENDS AccountNode

CONSTANTS x, y, f1

MCFidOf == [s \in Signers |-> f1]
=============================================================================
