-------------------------- MODULE AuthorityVerdict --------------------------
(***************************************************************************)
(* What the Farcaster authority client promises its caller, the account    *)
(* service: a question about a signed proof is answered at once from ONE   *)
(* finalized block, one that is fresh and not older than the evidence the  *)
(* caller already has, or it is answered with an error that says nothing   *)
(* about the authority.                                                    *)
(***************************************************************************)
EXTENDS Integers

CONSTANTS
  Hashes, None,
  MAX_FINALIZED_AGE_SECONDS,
  CLOCK_SKEW_SECONDS

VARIABLES
  blocks,   \* the finalized blocks that exist, by hash
  asked,    \* the question under way, or None
  answer    \* the last answer, or None

vars == <<blocks, asked, answer>>

Known == {h \in Hashes : blocks[h] # None}

\* Errors on which the caller gives nothing up.
NoVerdict == {"Unavailable", "InvalidChainEvidence", "InvalidChallenge",
              "InvalidMessage", "UnsupportedWallet"}

\* The block is neither from the future nor out of date.
Fresh(h, at) ==
  /\ blocks[h].number # 0
  /\ blocks[h].time <= at + CLOCK_SKEW_SECONDS
  /\ at <= blocks[h].time + MAX_FINALIZED_AGE_SECONDS

\* The block does not contradict the evidence the caller has.
Follows(h, baseline) ==
  baseline # None =>
    \/ blocks[h].number > baseline.checked_block
    \/ blocks[h].number = baseline.checked_block /\ h = baseline.block_hash

\* The address signed the message, as far as block h can tell.
Signed(p, h) ==
  LET code == blocks[h].code[p.address] IN
  (code = "none" /\ p.signature = "eoa") \/ code = "accepts"

\* The registries of block h let the address act for the FID, under the
\* custody the caller's evidence was about.
Entitled(p, baseline, h) ==
  LET custody == blocks[h].custody[p.fid] IN
  /\ custody # None
  /\ baseline # None => custody = baseline.custody_address
  /\ \/ <<p.fid, p.address>> \in blocks[h].keys
     \/ blocks[h].id[p.address] = p.fid /\ custody = p.address

Identity(q, h) ==
  [fid |-> q.proof.fid, address |-> q.proof.address,
   custody_address |-> blocks[h].custody[q.proof.fid],
   wallet_kind |-> IF blocks[h].code[q.proof.address] = "none"
                   THEN "Eoa" ELSE "Erc1271",
   proof_kind |-> IF <<q.proof.fid, q.proof.address>> \in blocks[h].keys
                  THEN "AuthAddress" ELSE "Custody",
   checked_block |-> blocks[h].number, block_hash |-> h, checked_at |-> q.at]

\* The answer block h gives to question q.
Judgement(q, h) ==
  IF blocks[h].code[q.proof.address] = "delegated" THEN "UnsupportedWallet"
  ELSE IF ~Signed(q.proof, h) THEN "InvalidSignature"
  ELSE IF ~Entitled(q.proof, q.baseline, h) THEN "Unauthorized"
  ELSE "ok"

-----------------------------------------------------------------------------
Init == asked = None /\ answer = None

\* Blocks are added and never changed.
Finalize ==
  /\ \A h \in Known : blocks'[h] = blocks[h]
  /\ UNCHANGED <<asked, answer>>

Ask ==
  /\ asked = None /\ asked' # None
  /\ answer' = None
  /\ UNCHANGED blocks

\* A question that makes no sense is answered at once.  Asked again about
\* evidence it has once accepted, the client never answers a loss this way.
Refuse ==
  /\ asked = None /\ asked' = None
  /\ answer' # None
  /\ answer'.to = "recheck" => answer'.result \in NoVerdict
  /\ answer'.to = "verify" =>
       answer'.result \in NoVerdict \cup {"InvalidSignature"}
  /\ UNCHANGED blocks

Reply(result, identity) ==
  /\ answer' = [to |-> asked.to, proof |-> asked.proof, result |-> result,
                identity |-> identity]
  /\ asked' = None
  /\ UNCHANGED blocks

Answer ==
  /\ asked # None
  /\ \/ \E error \in NoVerdict : Reply(error, None)
     \/ \E h \in Known :
          LET result == Judgement(asked, h) IN
          /\ Fresh(h, asked.at)
          /\ Follows(h, asked.baseline)
          /\ Reply(result, IF result = "ok" THEN Identity(asked, h) ELSE None)

\* The caller has dealt with the answer.
Forget ==
  /\ answer # None /\ answer' = None
  /\ UNCHANGED <<blocks, asked>>

Next == Finalize \/ Ask \/ Refuse \/ Answer \/ Forget

Spec == Init /\ [][Next]_vars
=============================================================================
