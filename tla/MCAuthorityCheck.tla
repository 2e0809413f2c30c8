-------------------------- MODULE MCAuthorityCheck --------------------------
(* The authority client on a small instance: one FID, the custody wallet w *)
(* and an authentication address k.                                        *)
EXTENDS AuthorityCheck, TLC

CONSTANTS w, k, fid

Registries(custody, keys, code) ==
  [code |-> [a \in Addresses |-> IF a = w THEN code ELSE "none"],
   custody |-> [f \in Fids |-> custody],
   keys |-> {<<f, a>> : f \in Fids, a \in keys},
   id |-> [a \in Addresses |-> IF a = custody THEN fid ELSE None]]

MCGenesis == Registries(None, {}, "none")

\* Custody of a contract, with a key beside it; moved to the address of that
\* key, while the contract refuses to sign; released.
MCBlockStates ==
  {Registries(w, {k}, "accepts"), Registries(k, {}, "rejects"),
   Registries(None, {k}, "delegated")}

\* Wallets that do as they are asked.
MCMessages ==
  {[text |-> "ours", address |-> a, fid |-> fid, skew |-> 0, extend |-> 0,
    defer |-> 0, signature |-> "eoa"] : a \in {w, k}}

Symmetry == Permutations(Hashes)
=============================================================================
