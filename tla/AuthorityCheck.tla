--------------------------- MODULE AuthorityCheck ---------------------------
(***************************************************************************)
(* The Farcaster authority client (crates/psky-farcaster-auth/src/         *)
(* client.rs): verify and recheck_identity as the RPC calls they make.     *)
(*                                                                         *)
(* The provider is a set of nodes behind one URL.  Between two calls       *)
(* blocks are finalized, a node that lags behind or follows another fork   *)
(* answers, or a call fails.  Reads after the second call name the block   *)
(* hash of the first ("requireCanonical"), so they are answered from that  *)
(* block or fail.                                                          *)
(*                                                                         *)
(* The caller, whose own steps module AccountNode has, starts challenges,  *)
(* receives proofs from the relay and keeps the last accepted evidence.    *)
(***************************************************************************)
EXTENDS SignInMessage

CONSTANTS
  Hashes,           \* block hashes
  BlockStates,      \* what a block may say of wallets and registries
  Genesis,          \* what the first one says
  Messages,         \* what wallets do to a message: see Sign
  MAX_FINALIZED_AGE_SECONDS,
  CHALLENGE_TTL,    \* lifetime of the challenges account.rs makes
  MaxNow,           \* bound on the clock
  MaxNonce          \* bound on the number of challenges

VARIABLES
  blocks,     \* the finalized blocks that exist, by hash
  tip,        \* the block the provider calls finalized
  now,
  challenge,  \* the challenge of the sign-in under way
  proof,      \* the proof the relay has
  check,      \* the call under way, stopped at an await
  answer,     \* its result, until the caller has dealt with it
  evidence    \* the caller's persisted evidence

world == <<blocks, tip, now, challenge, proof>>
vars == <<world, check, answer, evidence>>

Codes == [Addresses -> {"none", "delegated", "accepts", "rejects"}]
Custody == [Fids -> Addresses \cup {None}]
Keys == SUBSET (Fids \X Addresses)
Ids == [Addresses -> Fids \cup {None}]

State == [code : Codes, custody : Custody, keys : Keys, id : Ids]

Block(number, time, s) ==
  [number |-> number, time |-> time, code |-> s.code, custody |-> s.custody,
   keys |-> s.keys, id |-> s.id]

Blocks == [number : Nat, time : Nat, code : Codes, custody : Custody,
           keys : Keys, id : Ids]

VerifiedIdentity ==
  [fid : Fids, address : Addresses, custody_address : Addresses,
   wallet_kind : {"Eoa", "Erc1271"}, proof_kind : {"AuthAddress", "Custody"},
   checked_block : Nat, block_hash : Hashes, checked_at : Nat]

\* Errors on which account.rs revokes, and the others.
Lost == {"InvalidSignature", "Unauthorized"}
NoVerdict == {"Unavailable", "InvalidChainEvidence", "InvalidChallenge",
              "InvalidMessage", "UnsupportedWallet"}

Evidence == [identity : VerifiedIdentity, proof : Proof]
Question == [to : {"verify", "recheck"}, proof : Proof,
             baseline : VerifiedIdentity \cup {None}, at : Nat]
Answered == [to : {"verify", "recheck"}, proof : Proof,
             result : Lost \cup NoVerdict \cup {"ok"},
             identity : VerifiedIdentity \cup {None}]
Check == [pc : {"chain", "block", "code", "erc1271", "custody", "key", "id"},
          to : {"verify", "recheck"}, proof : Proof,
          baseline : VerifiedIdentity \cup {None}, at : Nat,
          block_hash : Hashes \cup {None},
          wallet_kind : {"Eoa", "Erc1271", None},
          custody_address : Addresses \cup {None}]

ASSUME CheckAssumption ==
  /\ BlockStates \subseteq State /\ Genesis \in State
  /\ Messages \subseteq
       [text : {"ours", "foreign"}, address : Addresses, fid : Fids,
        skew : Int, extend : Nat \cup {None}, defer : Nat \cup {None},
        signature : {"malformed", "erc6492", "eoa", "other"}]
  /\ MAX_FINALIZED_AGE_SECONDS \in Nat
  /\ CHALLENGE_TTL \in 1..MAX_CHALLENGE_SECONDS
  /\ MaxNow \in Nat /\ MaxNonce \in Nat
  /\ None \notin Addresses /\ None \notin Hashes /\ None \notin Fids
  /\ None \notin {"Eoa", "Erc1271"} /\ None \notin Challenge /\ None \notin Proof
  /\ None \notin Blocks /\ None \notin VerifiedIdentity /\ None \notin Check
  /\ None \notin Evidence
  /\ None \notin Question /\ None \notin Answered

Init ==
  /\ tip \in Hashes
  /\ blocks = [h \in Hashes |-> IF h = tip THEN Block(0, 0, Genesis) ELSE None]
  /\ now = 0
  /\ challenge = None /\ proof = None
  /\ check = None /\ answer = None /\ evidence = None

-----------------------------------------------------------------------------
(* The world outside.                                                      *)

\* The clock of the worker, which may be set back.
Tick ==
  /\ now' \in 0..MaxNow
  /\ UNCHANGED <<blocks, tip, challenge, proof, check, answer,
                 evidence>>

\* A block is finalized on top of another, perhaps on a fork.
Finalize(h, parent, s) ==
  /\ blocks[h] = None /\ blocks[parent] # None
  /\ blocks' = [blocks EXCEPT
                  ![h] = Block(blocks[parent].number + 1, now, s)]
  /\ tip' = h
  /\ UNCHANGED <<now, challenge, proof, check, answer, evidence>>

\* Another node answers for the provider from here on.
Switch(h) ==
  /\ blocks[h] # None
  /\ tip' = h
  /\ UNCHANGED <<blocks, now, challenge, proof, check, answer,
                 evidence>>

\* A wallet signs a message for the challenge on display: m says with which
\* address, for which FID, how far its clock is off, and how the times it
\* writes differ from the ones it was asked to write (None: left out).
Sign(m) ==
  /\ challenge # None
  /\ proof' = [text |-> m.text, address |-> m.address, fid |-> m.fid,
               nonce |-> challenge.nonce,
               issued_at |-> now + m.skew,
               expiration_time |-> IF m.extend = None THEN None
                                   ELSE challenge.expires_at + m.extend,
               not_before |-> IF m.defer = None THEN None
                              ELSE challenge.created_at + m.defer,
               signature |-> m.signature]
  /\ UNCHANGED <<blocks, tip, now, challenge, check, answer, evidence>>

-----------------------------------------------------------------------------
(* The caller, one request at a time.                                      *)

Free == check = None /\ answer = None

\* Action::Start.  The relay may still hold the proof of an earlier one.
StartChallenge ==
  LET nonce == IF challenge = None THEN 1 ELSE challenge.nonce + 1 IN
  /\ Free
  /\ nonce <= MaxNonce
  /\ challenge' = [nonce |-> nonce, created_at |-> now,
                   expires_at |-> now + CHALLENGE_TTL]
  /\ UNCHANGED <<blocks, tip, now, proof, check, answer, evidence>>

\* A call is refused by what it is given, or makes its first RPC call.
Call(to, p, baseline, result) ==
  /\ \/ /\ result # "ok"
        /\ answer' = [to |-> to, proof |-> p, result |-> result,
                      identity |-> None]
        /\ UNCHANGED check
     \/ /\ result = "ok"
        /\ check' = [pc |-> "chain", to |-> to, proof |-> p,
                     baseline |-> baseline, at |-> now, block_hash |-> None,
                     wallet_kind |-> None, custody_address |-> None]
        /\ UNCHANGED answer
  /\ UNCHANGED <<world, evidence>>

verify ==
  /\ Free
  /\ challenge # None /\ proof # None
  /\ Call("verify", proof, None, parse(proof, challenge, now))

\* Mutated form: evidence of this very second counts as from the future.
RecheckableLater(e) ==
  IF parse_authority(e.proof) # "ok" THEN parse_authority(e.proof)
  ELSE IF e.proof.fid # e.identity.fid \/ e.proof.address # e.identity.address
  THEN "Unauthorized"
  ELSE IF e.identity.checked_at >= now \/ e.identity.checked_block = 0
  THEN "InvalidChainEvidence"
  ELSE "ok"

\* What recheck_identity makes of the evidence before it asks the chain.
Recheckable(e) ==
  IF parse_authority(e.proof) # "ok" THEN parse_authority(e.proof)
  ELSE IF e.proof.fid # e.identity.fid \/ e.proof.address # e.identity.address
  THEN "Unauthorized"
  ELSE IF e.identity.checked_at > now \/ e.identity.checked_block = 0
  THEN "InvalidChainEvidence"
  ELSE "ok"

recheck_identity ==
  /\ Free
  /\ evidence # None
  /\ Call("recheck", evidence.proof, evidence.identity, Recheckable(evidence))

\* The block has to be newer than the evidence, or the same.
Follows(number, hash, identity) ==
  ~ \/ number < identity.checked_block
    \/ number = identity.checked_block /\ hash # identity.block_hash

\* The authority an account is bound to.
Authority(identity) ==
  <<identity.fid, identity.address, identity.custody_address>>

\* A new sign-in does not contradict the evidence there is.
InOrder ==
  evidence # None =>
    Follows(answer.identity.checked_block, answer.identity.block_hash,
            evidence.identity)

\* A sign-in of another authority first takes away what there was.
Supersede ==
  /\ answer # None /\ answer.to = "verify" /\ answer.result = "ok"
  /\ evidence # None
  /\ InOrder
  /\ Authority(answer.identity) # Authority(evidence.identity)
  /\ evidence' = None
  /\ UNCHANGED <<world, check, answer>>

\* The caller persists what it learnt.
Persist ==
  /\ answer # None /\ answer.result = "ok"
  /\ answer.to = "verify" /\ evidence # None =>
       /\ InOrder
       /\ Authority(answer.identity) = Authority(evidence.identity)
  /\ evidence' = [identity |-> answer.identity, proof |-> answer.proof]
  /\ answer' = None
  /\ UNCHANGED <<world, check>>

\* A recheck that finds the authority gone takes the evidence away.
Invalidate ==
  /\ answer # None /\ answer.to = "recheck" /\ answer.result \in Lost
  /\ evidence' = None
  /\ answer' = None
  /\ UNCHANGED <<world, check>>

\* Nothing comes of the answer: an error, or the store fails.
Drop ==
  /\ answer # None
  /\ answer' = None
  /\ UNCHANGED <<world, check, evidence>>

-----------------------------------------------------------------------------
(* verify_authority, one RPC call at a time.                               *)

Await(pc) == check # None /\ check.pc = pc

\* The call ends with an error, or with an identity.
Return(result, identity) ==
  /\ answer' = [to |-> check.to, proof |-> check.proof, result |-> result,
                identity |-> identity]
  /\ check' = None
  /\ UNCHANGED <<world, evidence>>

Error(result) == Return(result, None)

Continue(next) ==
  /\ check' = next
  /\ UNCHANGED <<world, answer, evidence>>

\* Any call may time out, be refused or make no sense; eth_chainId may name
\* another chain, and a pinned block may no longer be canonical.
RpcFail ==
  /\ check # None
  /\ \E error \in {"Unavailable", "InvalidChainEvidence"} : Error(error)

eth_chainId ==
  /\ Await("chain")
  /\ Continue([check EXCEPT !.pc = "block"])

\* The block the provider calls finalized can be judged by.
Acceptable ==
  LET b == blocks[tip] IN
  /\ b.number # 0
  /\ b.time <= check.at + CLOCK_SKEW_SECONDS
  /\ SaturatingSub(check.at, b.time) <= MAX_FINALIZED_AGE_SECONDS
  /\ check.baseline # None => Follows(b.number, tip, check.baseline)

eth_getBlockByNumber ==
  /\ Await("block")
  /\ \/ ~Acceptable /\ Error("InvalidChainEvidence")
     \/ /\ Acceptable
        /\ Continue([check EXCEPT !.pc = "code", !.block_hash = tip])

\* Mutated form: each call asks for the latest block.
Latest == blocks[tip]

\* The block all further calls are about.
Pinned == blocks[check.block_hash]

eth_getCode ==
  LET code == Pinned.code[check.proof.address] IN
  /\ Await("code")
  /\ \/ /\ code = "none" /\ ~verify_eoa(check.proof)
        /\ Error("InvalidSignature")
     \/ /\ code = "none" /\ verify_eoa(check.proof)
        /\ Continue([check EXCEPT !.pc = "custody", !.wallet_kind = "Eoa"])
     \/ code = "delegated" /\ Error("UnsupportedWallet")
     \/ /\ code \in {"accepts", "rejects"}
        /\ Continue([check EXCEPT !.pc = "erc1271"])

isValidSignature ==
  LET code == Pinned.code[check.proof.address] IN
  /\ Await("erc1271")
  /\ \/ code = "rejects" /\ Error("InvalidSignature")
     \/ /\ code = "accepts"
        /\ Continue([check EXCEPT !.pc = "custody", !.wallet_kind = "Erc1271"])

\* The FID has no custody, or another one than the evidence says.
Changed(custody) ==
  \/ custody = None
  \/ check.baseline # None /\ custody # check.baseline.custody_address

custodyOf ==
  LET custody == Pinned.custody[check.proof.fid] IN
  /\ Await("custody")
  /\ \/ Changed(custody) /\ Error("Unauthorized")
     \/ /\ ~Changed(custody)
        /\ Continue([check EXCEPT !.pc = "key", !.custody_address = custody])

Verified(kind) ==
  Return("ok", [fid |-> check.proof.fid, address |-> check.proof.address,
                custody_address |-> check.custody_address,
                wallet_kind |-> check.wallet_kind, proof_kind |-> kind,
                checked_block |-> Pinned.number,
                block_hash |-> check.block_hash, checked_at |-> check.at])

keyDataOf ==
  LET active == <<check.proof.fid, check.proof.address>> \in Pinned.keys IN
  /\ Await("key")
  /\ \/ active /\ Verified("AuthAddress")
     \/ ~active /\ Continue([check EXCEPT !.pc = "id"])

idOf ==
  LET owner == /\ Pinned.id[check.proof.address] = check.proof.fid
               /\ check.custody_address = check.proof.address IN
  /\ Await("id")
  /\ \/ ~owner /\ Error("Unauthorized")
     \/ owner /\ Verified("Custody")

Next ==
  \/ Tick
  \/ \E h, parent \in Hashes, s \in BlockStates : Finalize(h, parent, s)
  \/ \E h \in Hashes : Switch(h)
  \/ \E m \in Messages : Sign(m)
  \/ StartChallenge \/ verify \/ recheck_identity
  \/ Supersede \/ Persist \/ Invalidate \/ Drop
  \/ RpcFail
  \/ eth_chainId \/ eth_getBlockByNumber \/ eth_getCode \/ isValidSignature
  \/ custodyOf \/ keyDataOf \/ idOf

Spec == Init /\ [][Next]_vars

-----------------------------------------------------------------------------
(* Properties.                                                             *)

(* Every variable has its type; the call under way has what the calls      *)
(* before it found.                                                        *)
TypeOK ==
  /\ blocks \in [Hashes -> Blocks \cup {None}]
  /\ tip \in Hashes /\ blocks[tip] # None
  /\ now \in Nat
  /\ challenge \in Challenge \cup {None}
  /\ proof \in Proof \cup {None}
  /\ check \in Check \cup {None}
  /\ answer \in Answered \cup {None}
  /\ evidence \in Evidence \cup {None}

asked ==
  IF check = None THEN None
  ELSE [to |-> check.to, proof |-> check.proof, baseline |-> check.baseline,
        at |-> check.at]

\* The refinement mapping: the world and the answer are the client's own; the
\* question under way is the check without what its calls have found so far.
Promise == INSTANCE AuthorityVerdict
             WITH blocks <- blocks, asked <- asked, answer <- answer

(* The client keeps its promise: however blocks are finalized, forks       *)
(* answered from and calls lost between the RPC calls of one check, its    *)
(* answer is the judgement of one fresh block that does not contradict the *)
(* evidence, or an error on which nothing is revoked.                      *)
ImplementsVerdict == Promise!Spec

(* Persisted evidence can always be asked about again: unless the clock is *)
(* set back behind it, recheck_identity gets as far as the chain, and no   *)
(* restart or parse of the stored proof alone can ever cost the account.   *)
EvidenceIsRecheckable ==
  evidence # None =>
    \/ Recheckable(evidence) = "ok"
    \/ /\ Recheckable(evidence) = "InvalidChainEvidence"
       /\ now < evidence.identity.checked_at

(* A new sign-in is only ever accepted on a message signed for the         *)
(* challenge in hand, which expires when that challenge does: an earlier   *)
(* message the relay still has, or one whose expiry the wallet extended,   *)
(* is not consent.                                                         *)
ConsentIsFresh ==
  answer # None /\ answer.to = "verify" /\ answer.result = "ok" =>
    /\ answer.proof.nonce = challenge.nonce
    /\ answer.proof.expiration_time = challenge.expires_at
    /\ answer.identity.checked_at \in
         challenge.created_at..(challenge.expires_at - 1)
=============================================================================
