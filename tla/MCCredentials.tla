--------------------------- MODULE MCCredentials ---------------------------
(* The credential store on small instances.  The random values are         *)
(* interchangeable, and so are the well-formed inputs of each kind.        *)
EXTENDS Credentials, TLC

CONSTANTS f1, f2, i1, n1, n2, a1, a2

MCFids == {f1, f2, Malformed}
MCIdentities == {i1, Malformed}
MCNames == {n1, n2, Malformed}
MCAuthorities == {a1, a2, Malformed}

Symmetry == Permutations(Secrets) \cup Permutations(Sids)
              \cup Permutations(Jtis) \cup Permutations({f1, f2})
              \cup Permutations({n1, n2})
              \cup Permutations({a1, a2})
=============================================================================
