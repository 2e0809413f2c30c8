--------------------------- MODULE SignInMessage ---------------------------
(***************************************************************************)
(* The signed Sign In With Farcaster message and the local challenge it    *)
(* answers (crates/psky-farcaster-auth/src/message.rs), as far as the      *)
(* checks tell messages apart.                                             *)
(*                                                                         *)
(* A proof is what the relay returns.  Its `text' is "ours" when the raw   *)
(* bytes are the exact serialisation of a message for this domain, URI and *)
(* chain with one of the two statements, a well-formed nonce and one FID   *)
(* resource, and "foreign" otherwise.  Its `signature' is "malformed" (no  *)
(* hex, empty or too long), "erc6492" (wrapped for an undeployed wallet),  *)
(* "eoa" (65 bytes that recover the address) or "other".  Times are whole  *)
(* seconds; wallets write times with a zero fraction.                      *)
(***************************************************************************)
EXTENDS Integers

CONSTANTS
  Addresses, Fids, None,
  MAX_CHALLENGE_SECONDS,
  CLOCK_SKEW_SECONDS

ASSUME MessageAssumption ==
  /\ MAX_CHALLENGE_SECONDS \in Nat \ {0}
  /\ CLOCK_SKEW_SECONDS \in Nat
  /\ None \notin Int

Challenge == [nonce : Nat, created_at : Nat, expires_at : Nat]

Proof == [text : {"ours", "foreign"}, address : Addresses, fid : Fids,
          nonce : Nat, issued_at : Int, expiration_time : Nat \cup {None},
          not_before : Nat \cup {None},
          signature : {"malformed", "erc6492", "eoa", "other"}]

\* u64::saturating_sub.
SaturatingSub(a, b) == IF a < b THEN 0 ELSE a - b

validate_challenge(c) ==
  c.expires_at - c.created_at \in 1..MAX_CHALLENGE_SECONDS

\* What the text and the encoding of the signature say by themselves.
parse_authority(p) ==
  IF p.text = "foreign" THEN "InvalidMessage"
  ELSE IF p.signature = "malformed" THEN "InvalidSignature"
  ELSE IF p.signature = "erc6492" THEN "UnsupportedWallet"
  ELSE "ok"

\* Mutated form: any message of a proper age is an answer.
AnyNonce(p, c, now) ==
  /\ p.issued_at >= SaturatingSub(c.created_at, CLOCK_SKEW_SECONDS)
  /\ p.issued_at <= now + CLOCK_SKEW_SECONDS
  /\ p.issued_at < c.expires_at
  /\ p.not_before \in {None, c.created_at}

\* The message answers this challenge, within the skew a wallet may have.
Answers(p, c, now) ==
  /\ p.nonce = c.nonce
  /\ p.issued_at >= SaturatingSub(c.created_at, CLOCK_SKEW_SECONDS)
  /\ p.issued_at <= now + CLOCK_SKEW_SECONDS
  /\ p.issued_at < c.expires_at
  /\ p.expiration_time = c.expires_at
  /\ p.not_before \in {None, c.created_at}

\* The whole reading of a new sign-in at time now.
parse(p, c, now) ==
  IF ~validate_challenge(c) \/ now < c.created_at \/ now >= c.expires_at
  THEN "InvalidChallenge"
  ELSE IF parse_authority(p) # "ok" THEN parse_authority(p)
  ELSE IF ~Answers(p, c, now) THEN "InvalidMessage"
  ELSE "ok"

\* The signature of an address without code.
verify_eoa(p) == p.signature = "eoa"
=============================================================================
