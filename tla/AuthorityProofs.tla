-------------------------- MODULE AuthorityProofs --------------------------
(***************************************************************************)
(* The Farcaster authority client keeps its types and implements the       *)
(* one-block verdict of module AuthorityVerdict, for every set of hashes,  *)
(* addresses, FIDs, registry states and messages and all values of the     *)
(* time limits.                                                            *)
(*                                                                         *)
(* The invariant behind the refinement says what the call under way knows: *)
(* after each RPC call, that what it has found so far is what the ONE      *)
(* block it has pinned says, and that this block is fresh and follows the  *)
(* evidence.  Blocks never change, so the facts stay true while the world  *)
(* moves.                                                                  *)
(***************************************************************************)
EXTENDS AuthorityCheck, TLAPS

Facts(c) ==
  LET p == c.proof  h == c.block_hash IN
  /\ parse_authority(p) = "ok"
  /\ c.pc \in {"code", "erc1271", "custody", "key", "id"} =>
       h \in Hashes /\ blocks[h] # None
       /\ Promise!Fresh(h, c.at) /\ Promise!Follows(h, c.baseline)
  /\ c.pc = "erc1271" => blocks[h].code[p.address] \in {"accepts", "rejects"}
  /\ c.pc \in {"custody", "key", "id"} =>
       /\ blocks[h].code[p.address] \in {"none", "accepts"}
       /\ Promise!Signed(p, h)
       /\ c.wallet_kind = IF blocks[h].code[p.address] = "none"
                          THEN "Eoa" ELSE "Erc1271"
  /\ c.pc \in {"key", "id"} =>
       /\ c.custody_address = blocks[h].custody[p.fid]
       /\ c.custody_address # None
       /\ c.baseline # None => c.custody_address = c.baseline.custody_address
  /\ c.pc = "id" => <<p.fid, p.address>> \notin blocks[h].keys

\* What an accepted proof and its identity have in common.
Matching(p, identity) ==
  /\ parse_authority(p) = "ok"
  /\ identity # None
  /\ identity.fid = p.fid /\ identity.address = p.address
  /\ identity.checked_block # 0

Inv ==
  /\ TypeOK
  /\ check # None => Facts(check)
  /\ answer # None /\ answer.result = "ok" =>
       Matching(answer.proof, answer.identity)
  /\ evidence # None => Matching(evidence.proof, evidence.identity)

-----------------------------------------------------------------------------
(* The initial state has every type.                                       *)
LEMMA InitInv == Init => Inv
<1> SUFFICES ASSUME Init PROVE Inv
  OBVIOUS
<1> USE CheckAssumption DEF Init
<1>1. Block(0, 0, Genesis) \in Blocks
  BY DEF Block, Blocks, State
<1>2. TypeOK
  BY <1>1 DEF TypeOK
<1> QED
  BY <1>2 DEF Inv

(* What a check has found stays true while blocks are only added.          *)
LEMMA FactsKept ==
  ASSUME Inv, check # None, check' = check,
         \A h \in Hashes : blocks[h] # None => blocks'[h] = blocks[h]
  PROVE  Facts(check)'
<1>1. Facts(check) /\ check \in Check
  BY DEF Inv, TypeOK
<1>2. CASE check.pc \in {"chain", "block"}
  BY <1>1, <1>2 DEF Facts, Check
<1>3. CASE check.pc \in {"code", "erc1271", "custody", "key", "id"}
  <2>1. blocks'[check.block_hash] = blocks[check.block_hash]
    BY <1>1, <1>3 DEF Facts
  <2> QED
    BY <1>1, <1>3, <2>1
    DEF Facts, Promise!Fresh, Promise!Follows, Promise!Signed
<1> QED
  BY <1>1, <1>2, <1>3 DEF Check

(* Steps of the world outside and of the caller that touch neither the     *)
(* check nor the blocks.                                                   *)
LEMMA WorldInv ==
  ASSUME Inv,
         Tick \/ (\E h \in Hashes : Switch(h)) \/ (\E m \in Messages : Sign(m))
           \/ StartChallenge
  PROVE  Inv'
<1> USE CheckAssumption, MessageAssumption
<1>1. TypeOK'
  <2>1. CASE Tick
    BY <2>1 DEF Inv, TypeOK, Tick
  <2>2. ASSUME NEW h \in Hashes, Switch(h) PROVE TypeOK'
    BY <2>2 DEF Inv, TypeOK, Switch
  <2>3. ASSUME NEW m \in Messages, Sign(m) PROVE TypeOK'
    <3>1. challenge \in Challenge /\ now \in Nat
      BY <2>3 DEF Inv, TypeOK, Sign
    <3>2. proof' \in Proof
      BY <2>3, <3>1 DEF Sign, Proof, Challenge
    <3> QED
      BY <2>3, <3>1, <3>2 DEF Inv, TypeOK, Sign
  <2>4. CASE StartChallenge
    <3>1. challenge' \in Challenge
      BY <2>4 DEF StartChallenge, Inv, TypeOK, Challenge
    <3> QED
      BY <2>4, <3>1 DEF Inv, TypeOK, StartChallenge
  <2> QED
    BY <2>1, <2>2, <2>3, <2>4
<1>2. UNCHANGED <<blocks, check, answer, evidence>>
  BY DEF Tick, Switch, Sign, StartChallenge
<1>3. check' # None => Facts(check)'
  BY <1>2, FactsKept
<1> QED
  BY <1>1, <1>2, <1>3 DEF Inv, Matching

(* A new block leaves every fact about older ones as it was.               *)
LEMMA FinalizeInv ==
  ASSUME Inv, NEW h \in Hashes, NEW parent \in Hashes, NEW s \in BlockStates,
         Finalize(h, parent, s)
  PROVE  Inv'
<1> USE CheckAssumption
<1>1. blocks[parent] \in Blocks /\ now \in Nat
  BY DEF Inv, TypeOK, Finalize
<1>2. Block(blocks[parent].number + 1, now, s) \in Blocks
  BY <1>1 DEF Block, Blocks, State
<1>3. TypeOK'
  BY <1>2 DEF Inv, TypeOK, Finalize
<1>4. \A x \in Hashes : blocks[x] # None => blocks'[x] = blocks[x]
  BY DEF Finalize, Inv, TypeOK
<1>5. check' # None => Facts(check)'
  BY <1>4, FactsKept DEF Finalize
<1> QED
  BY <1>3, <1>5 DEF Inv, Matching, Finalize

-----------------------------------------------------------------------------
(* What reading a proof can come to.                                       *)
LEMMA ParseResults ==
  ASSUME NEW p \in Proof, NEW c, NEW t
  PROVE  /\ parse_authority(p) \in {"InvalidMessage", "InvalidSignature",
                                    "UnsupportedWallet", "ok"}
         /\ parse(p, c, t) \in {"InvalidChallenge", "InvalidMessage",
                                "InvalidSignature", "UnsupportedWallet", "ok"}
         /\ parse(p, c, t) = "ok" => parse_authority(p) = "ok"
<1>1. parse_authority(p) \in {"InvalidMessage", "InvalidSignature",
                              "UnsupportedWallet", "ok"}
  BY DEF parse_authority, Proof
<1> QED
  BY <1>1 DEF parse

(* Evidence that was accepted once is read again without a verdict.        *)
LEMMA RecheckResults ==
  ASSUME Inv, evidence # None
  PROVE  Recheckable(evidence) \in {"InvalidChainEvidence", "ok"}
BY DEF Recheckable, Inv, Matching

(* A call that is refused, or goes on to the chain, keeps the invariant.   *)
LEMMA CallInv ==
  ASSUME Inv, NEW to \in {"verify", "recheck"}, NEW p \in Proof,
         NEW baseline \in VerifiedIdentity \cup {None},
         NEW result \in Lost \cup NoVerdict \cup {"ok"},
         result = "ok" => parse_authority(p) = "ok",
         Free, Call(to, p, baseline, result)
  PROVE  Inv'
<1> USE CheckAssumption
<1>1. UNCHANGED <<blocks, tip, now, challenge, proof, evidence>>
  BY DEF Call, world
<1>2. CASE result # "ok"
  <2>1. answer' = [to |-> to, proof |-> p, result |-> result,
                   identity |-> None] /\ check' = None
    BY <1>2 DEF Call, Free
  <2>2. answer' \in Answered /\ answer'.result # "ok"
    BY <1>2, <2>1 DEF Answered
  <2> QED
    BY <1>1, <2>1, <2>2 DEF Inv, TypeOK, Matching
<1>3. CASE result = "ok"
  <2> DEFINE c == [pc |-> "chain", to |-> to, proof |-> p,
                   baseline |-> baseline, at |-> now, block_hash |-> None,
                   wallet_kind |-> None, custody_address |-> None]
  <2>1. check' = c /\ answer' = None
    BY <1>3 DEF Call, Free
  <2>2. c \in Check
    BY DEF Check, Inv, TypeOK
  <2>3. Facts(check)'
    BY <1>3, <2>1 DEF Facts
  <2>4. TypeOK'
    BY <1>1, <2>1, <2>2 DEF Inv, TypeOK
  <2> QED
    BY <1>1, <2>1, <2>3, <2>4 DEF Inv, Matching
<1> QED
  BY <1>2, <1>3

(* Both entry points.                                                      *)
LEMMA EntryInv ==
  ASSUME Inv, verify \/ recheck_identity
  PROVE  Inv'
<1> USE CheckAssumption
<1>1. CASE verify
  <2>1. proof \in Proof
    BY <1>1 DEF verify, Inv, TypeOK
  <2>2. /\ parse(proof, challenge, now) \in Lost \cup NoVerdict \cup {"ok"}
        /\ parse(proof, challenge, now) = "ok" => parse_authority(proof) = "ok"
    BY <2>1, ParseResults DEF Lost, NoVerdict
  <2> QED
    BY <1>1, <2>1, <2>2, CallInv DEF verify
<1>2. CASE recheck_identity
  <2>1. evidence \in Evidence
    BY <1>2 DEF recheck_identity, Inv, TypeOK
  <2>2. evidence.proof \in Proof /\ evidence.identity \in VerifiedIdentity
    BY <2>1 DEF Evidence
  <2>3. /\ Recheckable(evidence) \in Lost \cup NoVerdict \cup {"ok"}
        /\ parse_authority(evidence.proof) = "ok"
    BY <1>2, RecheckResults DEF recheck_identity, Lost, NoVerdict, Inv, Matching
  <2> QED
    BY <1>2, <2>2, <2>3, CallInv DEF recheck_identity
<1> QED
  BY <1>1, <1>2

(* The caller keeps, replaces or gives up its evidence.                    *)
LEMMA CallerInv ==
  ASSUME Inv, Supersede \/ Persist \/ Invalidate \/ Drop
  PROVE  Inv'
<1> USE CheckAssumption
<1>1. UNCHANGED <<blocks, tip, now, challenge, proof, check>>
  BY DEF Supersede, Persist, Invalidate, Drop, world
<1>2. check' # None => Facts(check)'
  BY <1>1, FactsKept
<1>3. answer' \in {answer, None}
  BY DEF Supersede, Persist, Invalidate, Drop
<1>4. /\ evidence' \in Evidence \cup {None}
      /\ evidence' # None => Matching(evidence'.proof, evidence'.identity)
  <2>1. CASE Persist
    <3>1. answer \in Answered /\ Matching(answer.proof, answer.identity)
      BY <2>1 DEF Persist, Inv, TypeOK
    <3>2. answer.identity \in VerifiedIdentity /\ answer.proof \in Proof
      BY <3>1 DEF Answered, Matching
    <3> QED
      BY <2>1, <3>1, <3>2 DEF Persist, Evidence
  <2>2. CASE Supersede \/ Invalidate \/ Drop
    <3>1. evidence' \in {evidence, None}
      BY <2>2 DEF Supersede, Invalidate, Drop
    <3> QED
      BY <3>1 DEF Inv, TypeOK
  <2> QED
    BY <2>1, <2>2
<1>5. TypeOK'
  BY <1>1, <1>3, <1>4 DEF Inv, TypeOK
<1>6. answer' # None /\ answer'.result = "ok" =>
        Matching(answer'.proof, answer'.identity)
  BY <1>3 DEF Inv
<1> QED
  BY <1>2, <1>4, <1>5, <1>6 DEF Inv, Matching

-----------------------------------------------------------------------------
(* A check ends with an answer.                                            *)
LEMMA ReturnInv ==
  ASSUME Inv, check # None,
         NEW result \in Lost \cup NoVerdict \cup {"ok"},
         NEW identity \in VerifiedIdentity \cup {None},
         result = "ok" => Matching(check.proof, identity),
         Return(result, identity)
  PROVE  Inv'
<1> USE CheckAssumption
<1>1. check \in Check
  BY DEF Inv, TypeOK
<1>2. /\ answer' = [to |-> check.to, proof |-> check.proof,
                    result |-> result, identity |-> identity]
      /\ check' = None
      /\ UNCHANGED <<blocks, tip, now, challenge, proof, evidence>>
  BY DEF Return, world
<1>3. answer' \in Answered
  BY <1>1, <1>2 DEF Answered, Check
<1>4. TypeOK'
  BY <1>2, <1>3 DEF Inv, TypeOK
<1>5. answer'.result = "ok" => Matching(answer'.proof, answer'.identity)
  BY <1>2
<1> QED
  BY <1>2, <1>4, <1>5 DEF Inv, Matching

(* A check goes on with c.                                                 *)
LEMMA ContinueInv ==
  ASSUME Inv, NEW c \in Check, Facts(c), Continue(c)
  PROVE  Inv'
<1> USE CheckAssumption
<1>1. /\ check' = c
      /\ UNCHANGED <<blocks, tip, now, challenge, proof, answer,
                     evidence>>
  BY DEF Continue, world
<1>2. TypeOK'
  BY <1>1 DEF Inv, TypeOK
<1>3. Facts(check)'
  BY <1>1 DEF Facts, Promise!Fresh, Promise!Follows, Promise!Signed
<1> QED
  BY <1>1, <1>2, <1>3 DEF Inv, Matching

(* The tests on the finalized block are the ones the promise is made of.   *)
LEMMA AcceptableBlock ==
  ASSUME Inv, check # None, Acceptable
  PROVE  Promise!Fresh(tip, check.at) /\ Promise!Follows(tip, check.baseline)
<1> USE CheckAssumption, MessageAssumption
<1>1. blocks[tip] \in Blocks /\ check \in Check
  BY DEF Inv, TypeOK
<1>2. /\ blocks[tip].time \in Nat /\ blocks[tip].number \in Nat
      /\ check.at \in Nat /\ check.baseline \in VerifiedIdentity \cup {None}
  BY <1>1 DEF Blocks, Check
<1>3. Promise!Fresh(tip, check.at)
  BY <1>2 DEF Acceptable, SaturatingSub, Promise!Fresh
<1>4. Promise!Follows(tip, check.baseline)
  BY <1>2 DEF Acceptable, Follows, Promise!Follows, VerifiedIdentity
<1> QED
  BY <1>3, <1>4

(* The facts of a check say what type its pinned block has.                *)
LEMMA PinnedBlock ==
  ASSUME Inv, check # None,
         check.pc \in {"code", "erc1271", "custody", "key", "id"}
  PROVE  /\ check \in Check /\ check.proof \in Proof
         /\ check.block_hash \in Hashes /\ Pinned \in Blocks
         /\ Pinned.code[check.proof.address] \in
              {"none", "delegated", "accepts", "rejects"}
         /\ Pinned.custody[check.proof.fid] \in Addresses \cup {None}
         /\ Pinned.number \in Nat /\ Pinned.number # 0
<1>1. check \in Check /\ Facts(check)
  BY DEF Inv, TypeOK
<1>2. check.block_hash \in Hashes /\ Pinned \in Blocks
  BY <1>1 DEF Facts, Pinned, Inv, TypeOK
<1>3. check.proof \in Proof
  BY <1>1 DEF Check
<1>4. check.proof.address \in Addresses /\ check.proof.fid \in Fids
  BY <1>3 DEF Proof
<1>5. /\ Pinned.code \in Codes /\ Pinned.custody \in Custody
      /\ Pinned.number \in Nat
  BY <1>2 DEF Blocks
<1>6. Pinned.number # 0
  BY <1>1 DEF Facts, Pinned, Promise!Fresh
<1> QED
  BY <1>1, <1>2, <1>3, <1>4, <1>5, <1>6 DEF Codes, Custody

(* An identity is returned with what its one block says.                   *)
LEMMA VerifiedInv ==
  ASSUME Inv, check # None, check.pc \in {"key", "id"},
         NEW kind \in {"AuthAddress", "Custody"}, Verified(kind)
  PROVE  Inv'
<1> DEFINE i == [fid |-> check.proof.fid, address |-> check.proof.address,
                 custody_address |-> check.custody_address,
                 wallet_kind |-> check.wallet_kind, proof_kind |-> kind,
                 checked_block |-> Pinned.number,
                 block_hash |-> check.block_hash, checked_at |-> check.at]
<1>1. /\ check \in Check /\ check.proof \in Proof
      /\ check.block_hash \in Hashes
      /\ Pinned.number \in Nat /\ Pinned.number # 0
  BY PinnedBlock
<1>2. Facts(check)
  BY DEF Inv
<1>3. /\ check.custody_address \in Addresses
      /\ check.wallet_kind \in {"Eoa", "Erc1271"}
      /\ check.at \in Nat
  BY <1>1, <1>2 DEF Facts, Check
<1>4. i \in VerifiedIdentity
  BY <1>1, <1>3 DEF VerifiedIdentity, Proof
<1>5. Matching(check.proof, i)
  BY <1>1, <1>2, <1>4, CheckAssumption DEF Facts, Matching
<1>6. Return("ok", i)
  BY DEF Verified
<1> HIDE DEF i
<1> QED
  BY <1>4, <1>5, <1>6, ReturnInv

(* An error ends a check without an identity.                              *)
LEMMA ErrorInv ==
  ASSUME Inv, check # None, NEW error \in Lost \cup NoVerdict, Error(error)
  PROVE  Inv'
<1>1. error # "ok"
  BY DEF Lost, NoVerdict
<1> QED
  BY <1>1, ReturnInv DEF Error

(* Each RPC call of verify_authority adds what it finds to the facts.      *)
LEMMA RpcInv ==
  ASSUME Inv,
         \/ RpcFail \/ eth_chainId \/ eth_getBlockByNumber \/ eth_getCode
         \/ isValidSignature \/ custodyOf \/ keyDataOf \/ idOf
  PROVE  Inv'
<1>0. check # None /\ check \in Check /\ Facts(check)
  BY DEF RpcFail, eth_chainId, eth_getBlockByNumber, eth_getCode,
         isValidSignature, custodyOf, keyDataOf, idOf, Await, Inv, TypeOK
<1>1. CASE RpcFail
  <2>1. PICK error \in {"Unavailable", "InvalidChainEvidence"} : Error(error)
    BY <1>1 DEF RpcFail
  <2> QED
    BY <1>0, <2>1, ErrorInv DEF NoVerdict
<1>2. CASE eth_chainId
  <2> DEFINE c == [check EXCEPT !.pc = "block"]
  <2>1. c \in Check /\ Facts(c)
    BY <1>0, <1>2 DEF Check, Facts, eth_chainId, Await
  <2> QED
    BY <1>2, <2>1, ContinueInv DEF eth_chainId
<1>3. CASE eth_getBlockByNumber
  <2>1. CASE ~Acceptable /\ Error("InvalidChainEvidence")
    BY <1>0, <2>1, ErrorInv DEF NoVerdict
  <2>2. CASE Acceptable /\ Continue([check EXCEPT !.pc = "code",
                                                   !.block_hash = tip])
    <3> DEFINE c == [check EXCEPT !.pc = "code", !.block_hash = tip]
    <3>1. Promise!Fresh(tip, check.at) /\ Promise!Follows(tip, check.baseline)
      BY <1>0, <2>2, AcceptableBlock
    <3>2. tip \in Hashes /\ blocks[tip] # None
      BY DEF Inv, TypeOK
    <3>3. c \in Check
      BY <1>0, <3>2 DEF Check
    <3>4. /\ c.proof = check.proof /\ c.at = check.at
          /\ c.baseline = check.baseline /\ c.block_hash = tip /\ c.pc = "code"
      BY <1>0 DEF Check
    <3>5. Facts(c)
      BY <1>0, <3>1, <3>2, <3>4 DEF Facts
    <3> QED
      BY <2>2, <3>3, <3>5, ContinueInv
  <2> QED
    BY <1>3, <2>1, <2>2 DEF eth_getBlockByNumber
<1>4. CASE eth_getCode
  <2> DEFINE code == Pinned.code[check.proof.address]
  <2>0. check.pc = "code"
    BY <1>4 DEF eth_getCode, Await
  <2>1. CASE \E error \in {"InvalidSignature", "UnsupportedWallet"} : Error(error)
    BY <1>0, <2>1, ErrorInv DEF Lost, NoVerdict
  <2>2. CASE /\ code = "none" /\ verify_eoa(check.proof)
             /\ Continue([check EXCEPT !.pc = "custody", !.wallet_kind = "Eoa"])
    <3> DEFINE c == [check EXCEPT !.pc = "custody", !.wallet_kind = "Eoa"]
    <3>1. c \in Check
      BY <1>0 DEF Check
    <3>2. Facts(c)
      BY <1>0, <2>0, <2>2
      DEF Check, Facts, Pinned, verify_eoa, Promise!Signed
    <3> QED
      BY <2>2, <3>1, <3>2, ContinueInv
  <2>3. CASE /\ code \in {"accepts", "rejects"}
             /\ Continue([check EXCEPT !.pc = "erc1271"])
    <3> DEFINE c == [check EXCEPT !.pc = "erc1271"]
    <3>1. c \in Check
      BY <1>0 DEF Check
    <3>2. Facts(c)
      BY <1>0, <2>0, <2>3 DEF Check, Facts, Pinned
    <3> QED
      BY <2>3, <3>1, <3>2, ContinueInv
  <2> QED
    BY <1>4, <2>1, <2>2, <2>3 DEF eth_getCode
<1>5. CASE isValidSignature
  <2> DEFINE code == Pinned.code[check.proof.address]
  <2>0. check.pc = "erc1271"
    BY <1>5 DEF isValidSignature, Await
  <2>1. CASE Error("InvalidSignature")
    BY <1>0, <2>1, ErrorInv DEF Lost
  <2>2. CASE /\ code = "accepts"
             /\ Continue([check EXCEPT !.pc = "custody",
                                       !.wallet_kind = "Erc1271"])
    <3> DEFINE c == [check EXCEPT !.pc = "custody", !.wallet_kind = "Erc1271"]
    <3>1. c \in Check
      BY <1>0 DEF Check
    <3>2. Facts(c)
      BY <1>0, <2>0, <2>2 DEF Check, Facts, Pinned, Promise!Signed
    <3> QED
      BY <2>2, <3>1, <3>2, ContinueInv
  <2> QED
    BY <1>5, <2>1, <2>2 DEF isValidSignature
<1>6. CASE custodyOf
  <2> DEFINE custody == Pinned.custody[check.proof.fid]
  <2>0. check.pc = "custody"
    BY <1>6 DEF custodyOf, Await
  <2>1. CASE Error("Unauthorized")
    BY <1>0, <2>1, ErrorInv DEF Lost
  <2>2. CASE /\ ~Changed(custody)
             /\ Continue([check EXCEPT !.pc = "key",
                                       !.custody_address = custody])
    <3> DEFINE c == [check EXCEPT !.pc = "key", !.custody_address = custody]
    <3>1. c \in Check
      BY <1>0, <2>0, PinnedBlock DEF Check
    <3>2. Facts(c)
      BY <1>0, <2>0, <2>2 DEF Check, Facts, Pinned, Changed
    <3> QED
      BY <2>2, <3>1, <3>2, ContinueInv
  <2> QED
    BY <1>6, <2>1, <2>2 DEF custodyOf
<1>7. CASE keyDataOf
  <2>0. check.pc = "key"
    BY <1>7 DEF keyDataOf, Await
  <2>1. CASE Verified("AuthAddress")
    BY <1>0, <2>0, <2>1, VerifiedInv
  <2>2. CASE /\ <<check.proof.fid, check.proof.address>> \notin Pinned.keys
             /\ Continue([check EXCEPT !.pc = "id"])
    <3> DEFINE c == [check EXCEPT !.pc = "id"]
    <3>1. c \in Check
      BY <1>0 DEF Check
    <3>2. Facts(c)
      BY <1>0, <2>0, <2>2 DEF Check, Facts, Pinned
    <3> QED
      BY <2>2, <3>1, <3>2, ContinueInv
  <2> QED
    BY <1>7, <2>1, <2>2 DEF keyDataOf
<1>8. CASE idOf
  <2>0. check.pc = "id"
    BY <1>8 DEF idOf, Await
  <2>1. CASE Error("Unauthorized")
    BY <1>0, <2>1, ErrorInv DEF Lost
  <2>2. CASE Verified("Custody")
    BY <1>0, <2>0, <2>2, VerifiedInv
  <2> QED
    BY <1>8, <2>1, <2>2 DEF idOf
<1> QED
  BY <1>1, <1>2, <1>3, <1>4, <1>5, <1>6, <1>7, <1>8

(* Every step keeps the invariant.                                         *)
LEMMA NextInv == Inv /\ [Next]_vars => Inv'
<1> SUFFICES ASSUME Inv, [Next]_vars PROVE Inv'
  OBVIOUS
<1>1. CASE UNCHANGED vars
  <2>1. UNCHANGED <<blocks, tip, now, challenge, proof, check,
                    answer, evidence>>
    BY <1>1 DEF vars, world
  <2>2. check' # None => Facts(check)'
    BY <2>1, FactsKept
  <2> QED
    BY <2>1, <2>2 DEF Inv, TypeOK, Matching
<1>2. CASE Next
  BY <1>2, WorldInv, FinalizeInv, EntryInv, CallerInv, RpcInv DEF Next
<1> QED
  BY <1>1, <1>2

(* Every variable of the client keeps its type, and an identity it returns *)
(* always has a custody, a wallet kind and a block.                        *)
THEOREM TypeCorrect == Spec => []TypeOK
<1>1. Inv => TypeOK
  BY DEF Inv
<1> QED
  BY InitInv, NextInv, <1>1, PTL DEF Spec

(* Stored evidence is never refused for what it says: a recheck that does  *)
(* not reach the chain can only blame the clock.                           *)
THEOREM EvidenceStaysRecheckable == Spec => []EvidenceIsRecheckable
<1>1. Inv => EvidenceIsRecheckable
  <2> SUFFICES ASSUME Inv, evidence # None
               PROVE  \/ Recheckable(evidence) = "ok"
                      \/ /\ Recheckable(evidence) = "InvalidChainEvidence"
                         /\ now < evidence.identity.checked_at
    BY DEF EvidenceIsRecheckable
  <2>1. evidence.identity \in VerifiedIdentity /\ now \in Nat
    BY DEF Inv, TypeOK, Evidence
  <2>2. Matching(evidence.proof, evidence.identity)
    BY DEF Inv
  <2> QED
    BY <2>1, <2>2 DEF Recheckable, Matching, VerifiedIdentity
<1> QED
  BY InitInv, NextInv, <1>1, PTL DEF Spec

-----------------------------------------------------------------------------
(* Consent.  While a new sign-in is checked its challenge stays, because   *)
(* the caller starts none before it has dealt with the answer.             *)

\* The proof under check was an answer to the challenge when it was received.
Consented ==
  check # None /\ check.to = "verify" =>
    challenge # None /\ parse(check.proof, challenge, check.at) = "ok"

(* What reading a new sign-in without complaint means.                     *)
LEMMA ParsedConsent ==
  ASSUME NEW p, NEW c \in Challenge, NEW at \in Nat, parse(p, c, at) = "ok"
  PROVE  /\ p.nonce = c.nonce /\ p.expiration_time = c.expires_at
         /\ at \in c.created_at..(c.expires_at - 1)
BY DEF parse, Answers, Challenge

(* A step of the call under way goes on about the same question, ends in   *)
(* an error, or ends with an identity checked when the question came.      *)
LEMMA RpcOutcome ==
  ASSUME Inv,
         \/ RpcFail \/ eth_chainId \/ eth_getBlockByNumber \/ eth_getCode
         \/ isValidSignature \/ custodyOf \/ keyDataOf \/ idOf
  PROVE  /\ check # None /\ UNCHANGED challenge
         /\ \/ /\ check'.to = check.to /\ check'.proof = check.proof
               /\ check'.at = check.at /\ UNCHANGED answer
            \/ /\ check' = None /\ answer'.result # "ok"
            \/ /\ check' = None /\ answer'.to = check.to
               /\ answer'.proof = check.proof
               /\ answer'.identity.checked_at = check.at
<1>1. check # None /\ check \in Check
  BY DEF Inv, TypeOK, RpcFail, eth_chainId, eth_getBlockByNumber, eth_getCode,
         isValidSignature, custodyOf, keyDataOf, idOf, Await
<1>2. ASSUME NEW result, result # "ok", Error(result)
      PROVE  UNCHANGED challenge /\ check' = None /\ answer'.result # "ok"
  BY <1>2 DEF Error, Return, world
<1>3. ASSUME NEW kind, Verified(kind)
      PROVE  /\ UNCHANGED challenge /\ check' = None
             /\ answer'.to = check.to /\ answer'.proof = check.proof
             /\ answer'.identity.checked_at = check.at
  BY <1>3 DEF Verified, Return, world
<1>4. ASSUME NEW c, Continue(c), c.to = check.to, c.proof = check.proof,
             c.at = check.at
      PROVE  /\ UNCHANGED <<challenge, answer>> /\ check'.to = check.to
             /\ check'.proof = check.proof /\ check'.at = check.at
  BY <1>4 DEF Continue, world
<1>5. CASE RpcFail
  <2>1. PICK error \in {"Unavailable", "InvalidChainEvidence"} : Error(error)
    BY <1>5 DEF RpcFail
  <2> QED
    BY <1>1, <1>2, <2>1
<1>6. CASE eth_chainId
  BY <1>1, <1>4, <1>6 DEF eth_chainId, Check
<1>7. CASE eth_getBlockByNumber
  BY <1>1, <1>2, <1>4, <1>7 DEF eth_getBlockByNumber, Check
<1>8. CASE eth_getCode
  BY <1>1, <1>2, <1>4, <1>8 DEF eth_getCode, Check
<1>9. CASE isValidSignature
  BY <1>1, <1>2, <1>4, <1>9 DEF isValidSignature, Check
<1>10. CASE custodyOf
  BY <1>1, <1>2, <1>4, <1>10 DEF custodyOf, Check
<1>11. CASE keyDataOf
  BY <1>1, <1>3, <1>4, <1>11 DEF keyDataOf, Check
<1>12. CASE idOf
  BY <1>1, <1>2, <1>3, <1>12 DEF idOf
<1> QED
  BY <1>5, <1>6, <1>7, <1>8, <1>9, <1>10, <1>11, <1>12

(* Every step keeps consent with its challenge.                            *)
LEMMA NextConsent ==
  ASSUME Inv, Consented, ConsentIsFresh, [Next]_vars
  PROVE  Consented' /\ ConsentIsFresh'
<1> USE CheckAssumption
<1>1. CASE /\ challenge' = challenge /\ check' = check
           /\ answer' \in {answer, None}
  BY <1>1 DEF Consented, ConsentIsFresh
<1>2. CASE StartChallenge
  BY <1>2 DEF StartChallenge, Free, Consented, ConsentIsFresh
<1>3. CASE verify
  <2>1. /\ check = None /\ answer = None /\ challenge # None
        /\ challenge' = challenge
        /\ \/ check' = None /\ answer'.result # "ok"
           \/ /\ parse(proof, challenge, now) = "ok"
              /\ check'.proof = proof /\ check'.at = now /\ answer' = None
    BY <1>3 DEF verify, Call, Free, world
  <2> QED
    BY <2>1 DEF Consented, ConsentIsFresh
<1>4. CASE recheck_identity
  <2>1. /\ check = None /\ answer = None
        /\ \/ check' = None /\ answer'.to = "recheck"
           \/ check'.to = "recheck" /\ answer' = None
    BY <1>4 DEF recheck_identity, Call, Free
  <2> QED
    BY <2>1 DEF Consented, ConsentIsFresh
<1>5. CASE \/ RpcFail \/ eth_chainId \/ eth_getBlockByNumber \/ eth_getCode
           \/ isValidSignature \/ custodyOf \/ keyDataOf \/ idOf
  <2>1. /\ check # None /\ challenge' = challenge
        /\ \/ /\ check'.to = check.to /\ check'.proof = check.proof
              /\ check'.at = check.at /\ answer' = answer
           \/ check' = None /\ answer'.result # "ok"
           \/ /\ check' = None /\ answer'.to = check.to
              /\ answer'.proof = check.proof
              /\ answer'.identity.checked_at = check.at
    BY <1>5, RpcOutcome
  <2>2. Consented'
    BY <2>1 DEF Consented
  <2>3. check.at \in Nat /\ challenge \in Challenge \cup {None}
    BY <2>1 DEF Inv, TypeOK, Check
  <2>4. ConsentIsFresh'
    <3>1. CASE answer' = answer \/ answer'.result # "ok"
      BY <2>1, <3>1 DEF ConsentIsFresh
    <3>2. CASE /\ answer'.to = check.to /\ answer'.proof = check.proof
               /\ answer'.identity.checked_at = check.at
      <4>1. check.to = "verify" =>
              /\ check.proof.nonce = challenge.nonce
              /\ check.proof.expiration_time = challenge.expires_at
              /\ check.at \in challenge.created_at..(challenge.expires_at - 1)
        BY <2>1, <2>3, ParsedConsent DEF Consented
      <4> QED
        BY <2>1, <3>2, <4>1 DEF ConsentIsFresh
    <3> QED
      BY <2>1, <3>1, <3>2
  <2> QED
    BY <2>2, <2>4
<1>6. Next => \/ /\ challenge' = challenge /\ check' = check
                 /\ answer' \in {answer, None}
              \/ StartChallenge \/ verify \/ recheck_identity
              \/ RpcFail \/ eth_chainId \/ eth_getBlockByNumber \/ eth_getCode
              \/ isValidSignature \/ custodyOf \/ keyDataOf \/ idOf
  BY DEF Next, Tick, Finalize, Switch, Sign, Supersede, Persist, Invalidate,
         Drop, world
<1>7. UNCHANGED vars => challenge' = challenge /\ check' = check
                        /\ answer' = answer
  BY DEF vars, world
<1> QED
  BY <1>1, <1>2, <1>3, <1>4, <1>5, <1>6, <1>7

(* A sign-in is accepted only on a message that names the nonce and expiry *)
(* of the challenge in hand, received while that challenge was open.       *)
THEOREM ConsentStaysFresh == Spec => []ConsentIsFresh
<1>1. Init => Consented /\ ConsentIsFresh
  BY DEF Init, Consented, ConsentIsFresh
<1>2. /\ Inv /\ Consented /\ ConsentIsFresh /\ [Next]_vars
      => Consented' /\ ConsentIsFresh'
  BY NextConsent
<1> QED
  BY <1>1, <1>2, InitInv, NextInv, PTL DEF Spec

-----------------------------------------------------------------------------
(* The refinement.  A check under way is a question asked; the RPC call    *)
(* that ends it is the moment it is answered.                              *)

(* A check that goes on is no step of the promise.                         *)
LEMMA ContinueStutters ==
  ASSUME Inv, check # None, NEW c \in Check, Continue(c),
         c.to = check.to, c.proof = check.proof,
         c.baseline = check.baseline, c.at = check.at
  PROVE  UNCHANGED Promise!vars
<1>1. check' = c /\ c # None /\ blocks' = blocks /\ answer' = answer
  BY CheckAssumption DEF Continue, world
<1> QED
  BY <1>1 DEF asked, Promise!vars

(* A check that ends answers the question.                                 *)
LEMMA ReturnReplies ==
  ASSUME Inv, check # None, NEW result, NEW identity, Return(result, identity)
  PROVE  Promise!Reply(result, identity) /\ asked # None
<1>1. asked = [to |-> check.to, proof |-> check.proof,
               baseline |-> check.baseline, at |-> check.at]
  BY DEF asked
<1>2. asked \in Question
  BY <1>1 DEF Question, Inv, TypeOK, Check
<1> QED
  BY <1>1, <1>2, CheckAssumption DEF Return, asked, Promise!Reply, world

(* Errors that say nothing about the authority are always allowed.         *)
LEMMA ErrorAnswers ==
  ASSUME Inv, check # None, NEW error \in NoVerdict, Error(error)
  PROVE  Promise!Answer
<1>1. error \in Promise!NoVerdict
  BY DEF NoVerdict, Promise!NoVerdict
<1>2. Promise!Reply(error, None) /\ asked # None
  BY ReturnReplies DEF Error
<1> QED
  BY <1>1, <1>2 DEF Promise!Answer

(* Other answers are the judgement of the pinned block.                    *)
LEMMA JudgementAnswers ==
  ASSUME Inv, check # None,
         check.pc \in {"code", "erc1271", "custody", "key", "id"},
         NEW identity,
         Return(Promise!Judgement(asked, check.block_hash), identity),
         identity = IF Promise!Judgement(asked, check.block_hash) = "ok"
                    THEN Promise!Identity(asked, check.block_hash) ELSE None
  PROVE  Promise!Answer
<1> DEFINE h == check.block_hash
<1>1. /\ h \in Hashes /\ blocks[h] # None
      /\ Promise!Fresh(h, check.at) /\ Promise!Follows(h, check.baseline)
  BY DEF Inv, Facts
<1>2. h \in Promise!Known
  BY <1>1 DEF Promise!Known
<1>3. asked.at = check.at /\ asked.baseline = check.baseline
  BY DEF asked
<1>4. Promise!Fresh(h, asked.at) /\ Promise!Follows(h, asked.baseline)
  BY <1>1, <1>3
<1>5. Promise!Reply(Promise!Judgement(asked, h), identity) /\ asked # None
  BY ReturnReplies
<1> QED
  BY <1>2, <1>4, <1>5 DEF Promise!Answer

(* The client implements the one-block verdict: every RPC call of a check  *)
(* but the last stutters, and the last gives the judgement of the block    *)
(* the facts are about, whatever happened to the chain in between.         *)
LEMMA RpcRefines ==
  ASSUME Inv,
         \/ RpcFail \/ eth_chainId \/ eth_getBlockByNumber \/ eth_getCode
         \/ isValidSignature \/ custodyOf \/ keyDataOf \/ idOf
  PROVE  Promise!Answer \/ UNCHANGED Promise!vars
<1>0. check # None /\ check \in Check /\ Facts(check)
  BY DEF RpcFail, eth_chainId, eth_getBlockByNumber, eth_getCode,
         isValidSignature, custodyOf, keyDataOf, idOf, Await, Inv, TypeOK
<1> DEFINE h == check.block_hash
           p == check.proof
<1>q. asked.proof = p /\ asked.baseline = check.baseline /\ asked.at = check.at
  BY <1>0 DEF asked
<1>1. CASE RpcFail
  BY <1>0, <1>1, ErrorAnswers DEF RpcFail, NoVerdict
<1>2. CASE eth_chainId
  <2>1. [check EXCEPT !.pc = "block"] \in Check
    BY <1>0 DEF Check
  <2> QED
    BY <1>0, <1>2, <2>1, ContinueStutters DEF eth_chainId, Check
<1>3. CASE eth_getBlockByNumber
  <2>1. CASE Error("InvalidChainEvidence")
    BY <1>0, <2>1, ErrorAnswers DEF NoVerdict
  <2>2. CASE Continue([check EXCEPT !.pc = "code", !.block_hash = tip])
    <3>1. [check EXCEPT !.pc = "code", !.block_hash = tip] \in Check
      BY <1>0 DEF Check, Inv, TypeOK
    <3> QED
      BY <1>0, <2>2, <3>1, ContinueStutters DEF Check
  <2> QED
    BY <1>3, <2>1, <2>2 DEF eth_getBlockByNumber
<1>4. CASE eth_getCode
  <2>0. check.pc = "code"
    BY <1>4 DEF eth_getCode, Await
  <2>1. CASE /\ Pinned.code[p.address] = "none" /\ ~verify_eoa(p)
             /\ Error("InvalidSignature")
    <3>1. Promise!Judgement(asked, h) = "InvalidSignature"
      BY <1>q, <2>1
      DEF Promise!Judgement, Promise!Signed, Pinned, verify_eoa
    <3> QED
      BY <1>0, <2>0, <2>1, <3>1, JudgementAnswers DEF Error
  <2>2. CASE Error("UnsupportedWallet")
    BY <1>0, <2>2, ErrorAnswers DEF NoVerdict
  <2>3. CASE Continue([check EXCEPT !.pc = "custody", !.wallet_kind = "Eoa"])
    <3>1. [check EXCEPT !.pc = "custody", !.wallet_kind = "Eoa"] \in Check
      BY <1>0 DEF Check
    <3> QED
      BY <1>0, <2>3, <3>1, ContinueStutters DEF Check
  <2>4. CASE Continue([check EXCEPT !.pc = "erc1271"])
    <3>1. [check EXCEPT !.pc = "erc1271"] \in Check
      BY <1>0 DEF Check
    <3> QED
      BY <1>0, <2>4, <3>1, ContinueStutters DEF Check
  <2> QED
    BY <1>4, <2>1, <2>2, <2>3, <2>4 DEF eth_getCode
<1>5. CASE isValidSignature
  <2>0. check.pc = "erc1271"
    BY <1>5 DEF isValidSignature, Await
  <2>1. CASE Pinned.code[p.address] = "rejects" /\ Error("InvalidSignature")
    <3>1. Promise!Judgement(asked, h) = "InvalidSignature"
      BY <1>q, <2>1 DEF Promise!Judgement, Promise!Signed, Pinned
    <3> QED
      BY <1>0, <2>0, <2>1, <3>1, JudgementAnswers DEF Error
  <2>2. CASE Continue([check EXCEPT !.pc = "custody",
                                    !.wallet_kind = "Erc1271"])
    <3>1. [check EXCEPT !.pc = "custody", !.wallet_kind = "Erc1271"] \in Check
      BY <1>0 DEF Check
    <3> QED
      BY <1>0, <2>2, <3>1, ContinueStutters DEF Check
  <2> QED
    BY <1>5, <2>1, <2>2 DEF isValidSignature
<1>6. CASE custodyOf
  <2> DEFINE custody == Pinned.custody[p.fid]
  <2>0. check.pc = "custody"
    BY <1>6 DEF custodyOf, Await
  <2>1. CASE Changed(custody) /\ Error("Unauthorized")
    <3>1. /\ blocks[h].code[p.address] \in {"none", "accepts"}
          /\ Promise!Signed(p, h)
      BY <1>0, <2>0 DEF Facts
    <3>2. ~Promise!Entitled(p, check.baseline, h)
      BY <2>1 DEF Changed, Promise!Entitled, Pinned
    <3>3. Promise!Judgement(asked, h) = "Unauthorized"
      BY <1>q, <3>1, <3>2 DEF Promise!Judgement
    <3> QED
      BY <1>0, <2>0, <2>1, <3>3, JudgementAnswers DEF Error
  <2>2. CASE Continue([check EXCEPT !.pc = "key", !.custody_address = custody])
    <3>1. [check EXCEPT !.pc = "key", !.custody_address = custody] \in Check
      BY <1>0, <2>0, PinnedBlock DEF Check
    <3> QED
      BY <1>0, <2>2, <3>1, ContinueStutters DEF Check
  <2> QED
    BY <1>6, <2>1, <2>2 DEF custodyOf
<1>7. CASE keyDataOf
  <2>0. check.pc = "key"
    BY <1>7 DEF keyDataOf, Await
  <2>f. /\ blocks[h].code[p.address] \in {"none", "accepts"}
        /\ Promise!Signed(p, h)
        /\ check.wallet_kind = IF blocks[h].code[p.address] = "none"
                               THEN "Eoa" ELSE "Erc1271"
        /\ check.custody_address = blocks[h].custody[p.fid]
        /\ check.custody_address # None
        /\ check.baseline # None =>
             check.custody_address = check.baseline.custody_address
    BY <1>0, <2>0 DEF Facts
  <2>1. CASE <<p.fid, p.address>> \in Pinned.keys /\ Verified("AuthAddress")
    <3>1. Promise!Entitled(p, check.baseline, h)
      BY <2>f, <2>1 DEF Promise!Entitled, Pinned
    <3>2. Promise!Judgement(asked, h) = "ok"
      BY <1>q, <2>f, <3>1 DEF Promise!Judgement
    <3>3. Return("ok", Promise!Identity(asked, h))
      BY <1>q, <2>f, <2>1 DEF Verified, Promise!Identity, Pinned
    <3> QED
      BY <1>0, <2>0, <3>2, <3>3, JudgementAnswers
  <2>2. CASE Continue([check EXCEPT !.pc = "id"])
    <3>1. [check EXCEPT !.pc = "id"] \in Check
      BY <1>0 DEF Check
    <3> QED
      BY <1>0, <2>2, <3>1, ContinueStutters DEF Check
  <2> QED
    BY <1>7, <2>1, <2>2 DEF keyDataOf
<1>8. CASE idOf
  <2>0. check.pc = "id"
    BY <1>8 DEF idOf, Await
  <2> DEFINE owner == /\ Pinned.id[p.address] = p.fid
                      /\ check.custody_address = p.address
  <2>f. /\ blocks[h].code[p.address] \in {"none", "accepts"}
        /\ Promise!Signed(p, h)
        /\ check.wallet_kind = IF blocks[h].code[p.address] = "none"
                               THEN "Eoa" ELSE "Erc1271"
        /\ check.custody_address = blocks[h].custody[p.fid]
        /\ check.custody_address # None
        /\ check.baseline # None =>
             check.custody_address = check.baseline.custody_address
        /\ <<p.fid, p.address>> \notin blocks[h].keys
    BY <1>0, <2>0 DEF Facts
  <2>1. CASE ~owner /\ Error("Unauthorized")
    <3>1. ~Promise!Entitled(p, check.baseline, h)
      BY <2>f, <2>1 DEF Promise!Entitled, Pinned
    <3>2. Promise!Judgement(asked, h) = "Unauthorized"
      BY <1>q, <2>f, <3>1 DEF Promise!Judgement
    <3> QED
      BY <1>0, <2>0, <2>1, <3>2, JudgementAnswers DEF Error
  <2>2. CASE owner /\ Verified("Custody")
    <3>1. Promise!Entitled(p, check.baseline, h)
      BY <2>f, <2>2 DEF Promise!Entitled, Pinned
    <3>2. Promise!Judgement(asked, h) = "ok"
      BY <1>q, <2>f, <3>1 DEF Promise!Judgement
    <3>3. Return("ok", Promise!Identity(asked, h))
      BY <1>q, <2>f, <2>2 DEF Verified, Promise!Identity, Pinned
    <3> QED
      BY <1>0, <2>0, <3>2, <3>3, JudgementAnswers
  <2> QED
    BY <1>8, <2>1, <2>2 DEF idOf
<1> QED
  BY <1>1, <1>2, <1>3, <1>4, <1>5, <1>6, <1>7, <1>8

(* A call is a question, or is refused as the promise allows.              *)
LEMMA CallRefines ==
  ASSUME Inv, NEW to \in {"verify", "recheck"}, NEW p \in Proof,
         NEW baseline \in VerifiedIdentity \cup {None}, NEW result,
         result # "ok" => result \in NoVerdict
           \/ (to = "verify" /\ result = "InvalidSignature"),
         Free, Call(to, p, baseline, result)
  PROVE  Promise!Ask \/ Promise!Refuse
<1> USE CheckAssumption
<1>1. asked = None /\ blocks' = blocks
  BY DEF Free, asked, Call, world
<1>2. CASE result # "ok"
  <2>1. /\ answer' = [to |-> to, proof |-> p, result |-> result,
                      identity |-> None]
        /\ asked' = None
    BY <1>2 DEF Call, Free, asked
  <2>2. result \in Lost \cup NoVerdict \cup {"ok"}
    BY <1>2 DEF Lost
  <2>3. answer' \in Answered
    BY <2>1, <2>2 DEF Answered
  <2> QED
    BY <1>1, <1>2, <2>1, <2>3 DEF Promise!Refuse, NoVerdict, Promise!NoVerdict
<1>3. CASE result = "ok"
  <2> DEFINE c == [pc |-> "chain", to |-> to, proof |-> p,
                   baseline |-> baseline, at |-> now, block_hash |-> None,
                   wallet_kind |-> None, custody_address |-> None]
             q == [to |-> to, proof |-> p, baseline |-> baseline, at |-> now]
  <2>1. check' = c /\ answer' = None
    BY <1>3 DEF Call, Free
  <2>2. c \in Check /\ q \in Question
    BY DEF Check, Question, Inv, TypeOK
  <2>3. asked' = q
    BY <2>1, <2>2 DEF asked
  <2> QED
    BY <1>1, <2>1, <2>2, <2>3 DEF Promise!Ask
<1> QED
  BY <1>2, <1>3

(* Every step is a step of the promise or none.                            *)
LEMMA NextRefines ==
  ASSUME Inv, [Next]_vars
  PROVE  [Promise!Next]_Promise!vars
<1> USE CheckAssumption
<1>1. CASE \/ UNCHANGED vars \/ Tick \/ (\E h \in Hashes : Switch(h))
           \/ (\E m \in Messages : Sign(m)) \/ StartChallenge \/ Supersede
  BY <1>1 DEF vars, world, Tick, Switch, Sign, StartChallenge, Supersede,
              asked, Promise!vars
<1>2. ASSUME NEW h \in Hashes, NEW parent \in Hashes, NEW s \in BlockStates,
             Finalize(h, parent, s)
      PROVE  Promise!Finalize
  <2>1. \A x \in Promise!Known : blocks'[x] = blocks[x]
    BY <1>2 DEF Finalize, Inv, TypeOK, Promise!Known
  <2>2. answer' = answer /\ asked' = asked
    BY <1>2 DEF Finalize, asked
  <2> QED
    BY <2>1, <2>2 DEF Promise!Finalize
<1>3. CASE verify
  <2>1. proof \in Proof
    BY <1>3 DEF verify, Inv, TypeOK
  <2>2. parse(proof, challenge, now) # "ok" =>
          \/ parse(proof, challenge, now) \in NoVerdict
          \/ parse(proof, challenge, now) = "InvalidSignature"
    BY <2>1, ParseResults DEF NoVerdict
  <2>3. Promise!Ask \/ Promise!Refuse
    BY <1>3, <2>1, <2>2, CallRefines DEF verify
  <2> QED
    BY <2>3 DEF Promise!Next
<1>4. CASE recheck_identity
  <2>1. evidence.proof \in Proof /\ evidence.identity \in VerifiedIdentity
    BY <1>4 DEF recheck_identity, Inv, TypeOK, Evidence
  <2>2. Recheckable(evidence) # "ok" => Recheckable(evidence) \in NoVerdict
    BY <1>4, RecheckResults DEF recheck_identity, NoVerdict
  <2>3. Promise!Ask \/ Promise!Refuse
    BY <1>4, <2>1, <2>2, CallRefines DEF recheck_identity
  <2> QED
    BY <2>3 DEF Promise!Next
<1>5. CASE Persist \/ Invalidate \/ Drop
  <2>1. answer # None /\ answer' = None /\ UNCHANGED <<blocks, check>>
    BY <1>5 DEF Persist, Invalidate, Drop, world
  <2> QED
    BY <2>1 DEF asked, Promise!Forget, Promise!Next
<1>6. CASE \/ RpcFail \/ eth_chainId \/ eth_getBlockByNumber \/ eth_getCode
           \/ isValidSignature \/ custodyOf \/ keyDataOf \/ idOf
  BY <1>6, RpcRefines DEF Promise!Next
<1> QED
  BY <1>1, <1>2, <1>3, <1>4, <1>5, <1>6 DEF Next, Promise!Next

(* verify and recheck_identity, run as single RPC calls against a provider *)
(* that moves, forks and fails in between, implement the one-block         *)
(* verdict.                                                                *)
THEOREM Refinement == Spec => ImplementsVerdict
<1>1. Init => Promise!Init
  BY DEF Init, asked, Promise!Init
<1>2. Inv /\ [Next]_vars => [Promise!Next]_Promise!vars
  BY NextRefines
<1> QED
  BY InitInv, NextInv, <1>1, <1>2, PTL DEF Spec, ImplementsVerdict, Promise!Spec
=============================================================================
