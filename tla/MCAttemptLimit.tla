--------------------------- MODULE MCAttemptLimit ---------------------------
(* The limits of the account service on a small instance.                  *)
EXTENDS AttemptLimit, TLC

MCCapacity == [k \in Kinds |-> IF k = "start" THEN 2 ELSE 1]
=============================================================================
