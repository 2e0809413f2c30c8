-------------------------- MODULE AccountNodeProofs -------------------------
(***************************************************************************)
(* The account service never has credentials without evidence, never       *)
(* trusts a cached check of another authority, never binds an account      *)
(* against its settings, never revokes one on a stale answer and never     *)
(* forgets a proof, for any number of requests, names, signers, blocks.    *)
(*                                                                         *)
(* Each of them rests on what the one request under way has found out so   *)
(* far still being true when it acts on it: its sign-in is still pending   *)
(* (Polled), the registry confirmed the verified authority at a block the  *)
(* evidence does not contradict (Confirmed), and each transaction finds    *)
(* the store as the one before it left it (Sequenced).                     *)
(***************************************************************************)
EXTENDS AccountNode, TLAPS

Committing == {"revoke", "bind", "evidence"}

\* A request id is pending only after its channel was opened.
Opened == \A r \in Requests : pending[r] # None => channel[r] # "unused"

\* The sign-in a poll is about is pending, with its proof once that is read.
Polled ==
  /\ op.pc = "status" => pending[op.req] # None /\ pending[op.req].proof = None
  /\ op.pc \in {"verify"} \cup Committing =>
       pending[op.req] # None /\ pending[op.req].proof # None

\* A verified sign-in is by the signer of its proof, of the allowed FID, and at
\* a finalized block that is not older than the evidence.
Confirmed ==
  op.pc \in Committing =>
    /\ op.verified.block <= head
    /\ verify_authority(op.verified.authority.signer, op.verified.block)
         = op.verified.authority
    /\ op.verified.authority.signer = pending[op.req].proof
    /\ FidOf[op.verified.authority.signer] = settings.allowed_fid
    /\ ~Regresses(op.verified.block)

\* The transactions of a sign-in find the account as they left it.
Sequenced ==
  /\ op.pc = "revoke" =>
       account # None /\ account.authority # op.verified.authority
  /\ op.pc = "evidence" =>
       account # None /\ account.authority = op.verified.authority
  /\ op.pc = "recheck" => evidence # None

\* Evidence is kept only of the authority an enabled account is bound to.
EvidenceIsBound ==
  evidence # None => /\ account # None /\ account.enabled
                     /\ evidence.authority = account.authority

Inv == /\ TypeOK /\ Opened /\ Polled /\ Confirmed /\ Sequenced
       /\ EvidenceIsBound /\ CredentialsHaveEvidence
       /\ CacheSpeaksForAccount /\ BindingMatchesSettings

USE DEF store, memory, world, vars, Committing

(* Nothing is bound, pending or cached in a new node.                      *)
LEMMA InitInv == Init => Inv
<1> SUFFICES ASSUME Init PROVE Inv
  OBVIOUS
<1>1. TypeOK
  BY ConstantsAssumption DEF Init, TypeOK, Op, Clock, Blocks
<1> QED
  BY <1>1, ConstantsAssumption
  DEF Init, Inv, Opened, Polled, Confirmed, Sequenced, EvidenceIsBound,
      CredentialsHaveEvidence, CacheSpeaksForAccount, BindingMatchesSettings,
      HasCredentials, Idle

(* Which fields the request under way has, by where it has stopped.        *)
LEMMA OpShape ==
  ASSUME op \in Op
  PROVE  /\ op.pc = "start" => op \in [pc : {"start"}, at : Clock]
         /\ op.pc \in {"status", "verify"} =>
              op \in [pc : {"status", "verify"}, req : Requests, at : Clock]
         /\ op.pc \in Committing =>
              op \in [pc : {"revoke", "bind", "evidence"}, req : Requests,
                      at : Clock, verified : Verified]
         /\ op.pc = "recheck" =>
              op \in [pc : {"recheck"}, kind : Gated, req : Requests,
                      name : Names, at : Clock]
         /\ op.pc = "idle" => op = Idle
BY DEF Op, Idle

(* Pruning only drops: no grant and no sign-in appears by it.              *)
LEMMA PruneFacts ==
  ASSUME TypeOK, Prune
  PROVE  /\ pending' \in [Requests -> Pending \cup {None}]
         /\ grants' \in [Requests -> Nat]
         /\ \A r \in Requests : pending'[r] = None \/ pending'[r] = pending[r]
         /\ \A r \in Requests : grants'[r] = 0 \/ grants'[r] = grants[r]
         /\ \A r \in Requests : LivePending[r] # None =>
              pending'[r] = pending[r] /\ pending[r] # None
BY DEF TypeOK, Prune, LivePending, LiveGrants

(* The clock, the registry and the wallets leave the invariant alone: what *)
(* the registry said at an earlier block it says for ever.                 *)
LEMMA WorldInv ==
  ASSUME Inv,
         \/ Tick \/ Finalize
         \/ \E r \in Requests, s \in Signers : Sign(r, s)
  PROVE  Inv'
<1>1. /\ UNCHANGED <<store, settings, memory, op>>
      /\ TypeOK /\ Opened /\ Polled /\ Confirmed
  BY DEF Inv, Tick, Finalize, Sign
<1>2. /\ now' \in Clock /\ head' \in Blocks /\ head <= head'
      /\ registry' \in [Blocks -> [Signers -> Custodies \cup {None}]]
      /\ channel' \in [Requests -> {"unused", "waiting", "consumed"} \cup Signers]
      /\ \A b \in Blocks : b <= head => registry'[b] = registry[b]
      /\ Opened'
  <2>1. CASE Tick
    BY <1>1, <2>1 DEF Tick, TypeOK, Opened, Clock, Blocks
  <2>2. CASE Finalize
    <3>1. head + 1 \in Blocks /\ head \in Blocks
      BY <1>1, <2>2, ConstantsAssumption DEF Finalize, TypeOK, Blocks
    <3>2. PICK s \in Signers, c \in Custodies \cup {None} :
            registry' = [registry EXCEPT
                           ![head + 1] = [registry[head] EXCEPT ![s] = c]]
      BY <2>2 DEF Finalize
    <3>3. [registry[head] EXCEPT ![s] = c] \in [Signers -> Custodies \cup {None}]
      BY <1>1, <3>1 DEF TypeOK
    <3>4. \A b \in Blocks : b <= head => b # head + 1
      BY <3>1 DEF Blocks
    <3> QED
      BY <1>1, <2>2, <3>1, <3>2, <3>3, <3>4
      DEF Finalize, TypeOK, Opened, Blocks
  <2>3. CASE \E r \in Requests, s \in Signers : Sign(r, s)
    BY <1>1, <2>3, ConstantsAssumption DEF Sign, TypeOK, Opened, Blocks
  <2> QED
    BY <2>1, <2>2, <2>3
<1>3. TypeOK'
  BY <1>1, <1>2 DEF TypeOK
<1>4. Confirmed'
  <2> SUFFICES ASSUME op.pc \in Committing
               PROVE  /\ op.verified.block <= head'
                      /\ verify_authority(op.verified.authority.signer,
                           op.verified.block)' = op.verified.authority
    BY <1>1 DEF Confirmed, Regresses
  <2>1. op.verified \in Verified
    BY <1>1, OpShape DEF TypeOK
  <2>2. op.verified.block \in Blocks /\ op.verified.block <= head
    BY <1>1, <2>1 DEF Confirmed, Verified
  <2> QED
    BY <1>1, <1>2, <2>2 DEF Confirmed, verify_authority, TypeOK, Blocks
<1> QED
  BY <1>1, <1>2, <1>3, <1>4
  DEF Inv, Polled, Sequenced, EvidenceIsBound, CredentialsHaveEvidence,
      CacheSpeaksForAccount, BindingMatchesSettings, HasCredentials

(* A step that binds nothing and learns nothing keeps the invariant: it    *)
(* may drop sign-ins, grants and the cache, and add a password where there *)
(* are credentials already.                                                *)
LEMMA CalmInv ==
  ASSUME Inv, UNCHANGED <<account, evidence, settings, checked_for, world>>,
         pending' \in [Requests -> Pending \cup {None}],
         grants' \in [Requests -> Nat],
         \A r \in Requests : pending'[r] = None \/ pending'[r] = pending[r],
         \A r \in Requests : grants'[r] = 0 \/ grants'[r] = grants[r],
         checked_at' = None \/ checked_at' = checked_at,
         passwords' \subseteq Names, sessions' \subseteq Names,
         passwords' # {} => HasCredentials,
         op' \in Op, op'.pc \notin Committing, Polled', Sequenced'
  PROVE  Inv'
<1>1. TypeOK'
  BY DEF Inv, TypeOK
<1>2. HasCredentials' => HasCredentials
  BY DEF Inv, HasCredentials
<1>3. Opened' /\ Confirmed'
  BY DEF Inv, Opened, Confirmed
<1> QED
  BY <1>1, <1>2, <1>3
  DEF Inv, EvidenceIsBound, CredentialsHaveEvidence, CacheSpeaksForAccount,
      BindingMatchesSettings

(* The idle service is at none of the stops of a request.                  *)
LEMMA IdleFacts ==
  ASSUME op' = Idle
  PROVE  op' \in Op /\ op'.pc \notin Committing /\ Polled' /\ Sequenced'
BY DEF Idle, Op, Polled, Sequenced

(* What a credential operation does to the names, where it may do it.      *)
LEMMA EffectFacts ==
  ASSUME Inv, NEW kind \in Gated, NEW r \in Requests, NEW name \in Names,
         Effect(kind, r, name)
  PROVE  /\ passwords' \subseteq Names /\ sessions' \subseteq Names
         /\ passwords' # {} => HasCredentials
BY DEF Inv, TypeOK, Effect, HasCredentials, Clock

(* Requests that end without an await keep the invariant.                  *)
LEMMA ImmediateInv ==
  ASSUME Inv,
         \/ Refuse
         \/ \E kind \in Gated, r \in Requests, name \in Names :
              CachedOperation(kind, r, name)
         \/ \E r \in Requests, name \in Names : Revoke(r, name)
         \/ \E name \in Names : Logout(name)
  PROVE  Inv'
<1>1. /\ UNCHANGED <<account, evidence, settings, checked_at, checked_for, op,
                     world>>
      /\ Prune /\ TypeOK /\ op' = Idle
  BY DEF Inv, Refuse, CachedOperation, Revoke, Logout, Accepts
<1>2. /\ passwords' \subseteq Names /\ sessions' \subseteq Names
      /\ passwords' # {} => HasCredentials
  <2>1. CASE Refuse \/ (\E r \in Requests, name \in Names : Revoke(r, name))
               \/ \E name \in Names : Logout(name)
    BY <1>1, <2>1 DEF Refuse, Revoke, Logout, TypeOK, HasCredentials
  <2>2. ASSUME NEW kind \in Gated, NEW r \in Requests, NEW name \in Names,
               CachedOperation(kind, r, name)
        PROVE  /\ passwords' \subseteq Names /\ sessions' \subseteq Names
               /\ passwords' # {} => HasCredentials
    BY <2>2, EffectFacts DEF CachedOperation
  <2> QED
    BY <2>1, <2>2
<1> QED
  BY <1>1, <1>2, PruneFacts, IdleFacts, CalmInv

(* A request that stops at its first await keeps the invariant.            *)
LEMMA EntryInv ==
  ASSUME Inv,
         \/ Start
         \/ \E r \in Requests : Poll(r)
         \/ \E kind \in Gated, r \in Requests, name \in Names :
              GatedOperation(kind, r, name)
  PROVE  Inv'
<1>1. /\ UNCHANGED <<store, settings, checked_at, checked_for, world>>
      /\ Prune /\ TypeOK /\ now \in Clock
  BY DEF Inv, Start, Poll, GatedOperation, TypeOK
<1>2. op' \in Op /\ op'.pc \notin Committing /\ Polled' /\ Sequenced'
  <2>1. CASE Start
    BY <1>1, <2>1 DEF Start, Op, Polled, Sequenced
  <2>2. ASSUME NEW r \in Requests, Poll(r)
        PROVE  op' \in Op /\ op'.pc \notin Committing /\ Polled' /\ Sequenced'
    <3>1. /\ op' = [pc |-> IF pending[r].proof = None THEN "status" ELSE "verify",
                    req |-> r, at |-> now]
          /\ pending'[r] = pending[r] /\ pending[r] # None
      BY <1>1, <2>2, PruneFacts DEF Poll
    <3> QED
      BY <1>1, <3>1 DEF Op, Polled, Sequenced
  <2>3. ASSUME NEW kind \in Gated, NEW r \in Requests, NEW name \in Names,
               GatedOperation(kind, r, name)
        PROVE  op' \in Op /\ op'.pc \notin Committing /\ Polled' /\ Sequenced'
    <3>1. /\ op' = [pc |-> "recheck", kind |-> kind, req |-> r, name |-> name,
                    at |-> now]
          /\ evidence' # None
      BY <1>1, <2>3 DEF GatedOperation
    <3> QED
      BY <1>1, <3>1 DEF Op, Polled, Sequenced
  <2> QED
    BY <2>1, <2>2, <2>3
<1>3. /\ passwords' \subseteq Names /\ sessions' \subseteq Names
      /\ passwords' # {} => HasCredentials
  BY <1>1 DEF TypeOK, HasCredentials
<1> QED
  BY <1>1, <1>2, <1>3, PruneFacts, CalmInv

(* A request that fails, a recheck without an answer and the end of the    *)
(* process keep the invariant, wherever they strike.                       *)
LEMMA FailureInv ==
  ASSUME Inv,
         \/ RecheckFail \/ Restart
         \/ StartFail \/ StatusFail \/ VerifyFail \/ StoreFail \/ Timeout
  PROVE  Inv'
<1>1. /\ UNCHANGED <<store, settings, checked_for, world>>
      /\ op' = Idle
      /\ checked_at' = None \/ checked_at' = checked_at
      /\ \/ UNCHANGED <<pending, grants>>
         \/ /\ pending' = [r \in Requests |-> None]
            /\ grants' = NoGrants
  BY DEF RecheckFail, Restart, StartFail, StatusFail, VerifyFail, StoreFail,
         Timeout, Abort, Release
<1>2. TypeOK
  BY DEF Inv
<1>3. /\ pending' \in [Requests -> Pending \cup {None}]
      /\ grants' \in [Requests -> Nat]
      /\ \A r \in Requests : pending'[r] = None \/ pending'[r] = pending[r]
      /\ \A r \in Requests : grants'[r] = 0 \/ grants'[r] = grants[r]
  BY <1>1, <1>2 DEF TypeOK, NoGrants
<1>4. /\ passwords' \subseteq Names /\ sessions' \subseteq Names
      /\ passwords' # {} => HasCredentials
  BY <1>1, <1>2 DEF TypeOK, HasCredentials
<1> QED
  BY <1>1, <1>3, <1>4, IdleFacts, CalmInv

(* New settings that the guard lets pass contradict no binding, and no     *)
(* sign-in is under way to bind by the old ones.                           *)
LEMMA ConfigureInv ==
  ASSUME Inv, NEW new \in Settings, Configure(new)
  PROVE  Inv'
<1>1. /\ UNCHANGED <<store, checked_for, world>>
      /\ op' = Idle /\ settings' = new /\ ConfigurationAllowed(new)
      /\ pending' = [r \in Requests |-> None]
      /\ grants' = NoGrants /\ checked_at' = None
      /\ TypeOK
  BY DEF Inv, Configure
<1>2. TypeOK'
  BY <1>1, IdleFacts DEF TypeOK, NoGrants
<1>3. HasCredentials' => HasCredentials
  BY <1>1 DEF HasCredentials, NoGrants
<1>4. BindingMatchesSettings'
  BY <1>1 DEF BindingMatchesSettings, ConfigurationAllowed
<1>5. Opened' /\ Confirmed' /\ CacheSpeaksForAccount'
  BY <1>1, IdleFacts DEF Opened, Confirmed, CacheSpeaksForAccount
<1> QED
  BY <1>1, <1>2, <1>3, <1>4, <1>5, IdleFacts
  DEF Inv, EvidenceIsBound, CredentialsHaveEvidence

(* The relay opens a channel no earlier sign-in had.                       *)
LEMMA StartReturnInv ==
  ASSUME Inv, NEW r \in Requests, StartReturn(r)
  PROVE  Inv'
<1>1. /\ op.pc = "start" /\ channel[r] = "unused"
      /\ channel' = [channel EXCEPT ![r] = "waiting"]
      /\ pending' = [pending EXCEPT
                       ![r] = [expires_at |-> op.at + CHALLENGE_TTL,
                               proof |-> None, complete |-> FALSE]]
      /\ op' = Idle
      /\ UNCHANGED <<store, settings, grants, checked_at, checked_for, now,
                     registry, head>>
      /\ TypeOK
  BY DEF Inv, StartReturn, Release
<1>2. op.at \in Nat
  BY <1>1, OpShape DEF TypeOK, Clock
<1>3. [expires_at |-> op.at + CHALLENGE_TTL, proof |-> None, complete |-> FALSE]
        \in Pending
  BY <1>2, ConstantsAssumption DEF Pending
<1>4. TypeOK'
  BY <1>1, <1>3, IdleFacts DEF TypeOK
<1>5. Opened'
  BY <1>1 DEF Inv, Opened, TypeOK
<1> QED
  BY <1>1, <1>4, <1>5, IdleFacts
  DEF Inv, Confirmed, EvidenceIsBound, CredentialsHaveEvidence, HasCredentials,
      CacheSpeaksForAccount, BindingMatchesSettings

(* A proof that arrives is kept with its sign-in before it is verified.    *)
LEMMA StatusReturnInv ==
  ASSUME Inv, StatusReturn
  PROVE  Inv'
<1>1. /\ op.pc = "status" /\ op.req \in Requests
      /\ op \in [pc : {"status", "verify"}, req : Requests, at : Clock]
      /\ pending[op.req] \in Pending /\ pending[op.req] # None
      /\ UNCHANGED <<store, settings, grants, checked_at, checked_for, now,
                     registry, head>>
      /\ TypeOK
  BY OpShape DEF Inv, StatusReturn, Polled, TypeOK
<1>2. \/ /\ channel[op.req] \in Signers
         /\ channel' = [channel EXCEPT ![op.req] = "consumed"]
         /\ pending' = [pending EXCEPT ![op.req].proof = channel[op.req]]
         /\ op' = [op EXCEPT !.pc = "verify"]
      \/ /\ \/ channel' = [channel EXCEPT ![op.req] = "consumed"]
            \/ UNCHANGED channel
         /\ op' = Idle /\ UNCHANGED pending
  BY DEF StatusReturn, Release
<1>3. /\ channel' \in [Requests -> {"unused", "waiting", "consumed"} \cup Signers]
      /\ \A r \in Requests : channel[r] # "unused" => channel'[r] # "unused"
  BY <1>1, <1>2 DEF TypeOK
<1>4. /\ pending' \in [Requests -> Pending \cup {None}]
      /\ \A r \in Requests : pending'[r] # None => pending[r] # None
      /\ op' \in Op /\ op'.pc \notin Committing /\ Polled' /\ Sequenced'
  <2>1. CASE op' = Idle /\ UNCHANGED pending
    BY <1>1, <2>1, IdleFacts DEF TypeOK
  <2>2. CASE /\ channel[op.req] \in Signers
             /\ pending' = [pending EXCEPT ![op.req].proof = channel[op.req]]
             /\ op' = [op EXCEPT !.pc = "verify"]
    <3>1. [pending[op.req] EXCEPT !.proof = channel[op.req]] \in Pending
      BY <1>1, <2>2 DEF Pending
    <3>2. /\ op' \in [pc : {"status", "verify"}, req : Requests, at : Clock]
          /\ op'.pc = "verify" /\ op'.req = op.req
      BY <1>1, <2>2
    <3>3. /\ pending' = [pending EXCEPT ![op.req] =
                           [pending[op.req] EXCEPT !.proof = channel[op.req]]]
          /\ pending'[op.req].proof = channel[op.req]
      BY <1>1, <2>2 DEF TypeOK, Pending
    <3>4. pending'[op.req] # None /\ pending'[op.req].proof # None
      BY <1>1, <2>2, <3>1, <3>3, ConstantsAssumption DEF TypeOK
    <3> QED
      BY <1>1, <3>1, <3>2, <3>3, <3>4 DEF TypeOK, Op, Polled, Sequenced
  <2> QED
    BY <1>2, <2>1, <2>2
<1>5. TypeOK'
  BY <1>1, <1>3, <1>4 DEF TypeOK
<1>6. Opened' /\ Confirmed'
  BY <1>3, <1>4 DEF Inv, Opened, Confirmed
<1> QED
  BY <1>1, <1>4, <1>5, <1>6
  DEF Inv, EvidenceIsBound, CredentialsHaveEvidence, HasCredentials,
      CacheSpeaksForAccount, BindingMatchesSettings

(* What the provider confirms is an authority of the signer.               *)
LEMMA VerifiedAuthority ==
  ASSUME TypeOK, NEW s \in Signers, NEW b \in Blocks,
         verify_authority(s, b) # None
  PROVE  /\ verify_authority(s, b) \in Authority
         /\ verify_authority(s, b).signer = s
BY DEF TypeOK, verify_authority, Authority

(* The answer of the provider ends the request, or is taken along with     *)
(* what made it acceptable.                                                *)
LEMMA VerifyReturnInv ==
  ASSUME Inv, NEW b \in Blocks, VerifyReturn(b)
  PROVE  Inv'
<1> DEFINE p == pending[op.req]
           v == [authority |-> verify_authority(p.proof, b), block |-> b]
<1>1. /\ op.pc = "verify" /\ op.req \in Requests /\ op.at \in Clock
      /\ p \in Pending /\ p # None /\ p.proof \in Signers
      /\ b <= head
      /\ UNCHANGED <<store, settings, grants, checked_at, checked_for, world>>
      /\ TypeOK
  BY OpShape DEF Inv, VerifyReturn, Polled, TypeOK, Pending
<1>2. \/ op' = Idle /\ UNCHANGED pending
      \/ op' = Idle /\ pending' = [pending EXCEPT ![op.req] = None]
      \/ /\ v.authority # None /\ settings.allowed_fid = FidOf[p.proof]
         /\ ~Regresses(b)
         /\ op' = [pc |-> Commit(v), req |-> op.req, at |-> op.at,
                   verified |-> v]
         /\ UNCHANGED pending
  BY DEF VerifyReturn, Release
<1>3. CASE op' = Idle
  <2>1. /\ pending' \in [Requests -> Pending \cup {None}]
        /\ \A r \in Requests : pending'[r] = None \/ pending'[r] = pending[r]
    BY <1>1, <1>2, <1>3 DEF TypeOK
  <2>2. /\ passwords' \subseteq Names /\ sessions' \subseteq Names
        /\ passwords' # {} => HasCredentials
        /\ grants' \in [Requests -> Nat]
    BY <1>1 DEF TypeOK, HasCredentials
  <2> QED
    BY <1>1, <1>3, <2>1, <2>2, IdleFacts, CalmInv
<1>4. CASE /\ v.authority # None /\ settings.allowed_fid = FidOf[p.proof]
           /\ ~Regresses(b)
           /\ op' = [pc |-> Commit(v), req |-> op.req, at |-> op.at,
                     verified |-> v]
           /\ UNCHANGED pending
  <2>1. /\ v.authority \in Authority /\ v.authority.signer = p.proof
        /\ v \in Verified /\ v.block = b
        /\ v.authority = verify_authority(p.proof, b)
    BY <1>1, <1>4, VerifiedAuthority DEF Verified
  <2>2. /\ op'.pc \in {"revoke", "bind"} /\ op'.pc = Commit(v)
        /\ op'.req = op.req /\ op'.verified = v
        /\ op' \in [pc : {"revoke", "bind", "evidence"}, req : Requests,
                    at : Clock, verified : Verified]
    BY <1>1, <1>4, <2>1 DEF Commit
  <2> HIDE DEF v
  <2>3. TypeOK'
    BY <1>1, <1>4, <2>2 DEF TypeOK, Op
  <2>4. Polled'
    BY <1>1, <1>4, <2>2, ConstantsAssumption DEF Polled
  <2>5. Confirmed'
    <3>1. verify_authority(p.proof, b)' = verify_authority(p.proof, b)
      BY <1>1, <1>4, <2>2 DEF verify_authority
    <3> QED
      BY <1>1, <1>4, <2>1, <2>2 DEF Confirmed, Regresses, verify_authority
  <2>6. Sequenced'
    BY <1>1, <2>2 DEF Sequenced, Commit
  <2> QED
    BY <1>1, <1>4, <2>3, <2>4, <2>5, <2>6
    DEF Inv, Opened, EvidenceIsBound, CredentialsHaveEvidence, HasCredentials,
        CacheSpeaksForAccount, BindingMatchesSettings
<1> QED
  BY <1>2, <1>3, <1>4

(* The request stopped between two transactions of a sign-in.              *)
LEMMA CommittingFacts ==
  ASSUME Inv, op.pc \in Committing
  PROVE  /\ op.req \in Requests /\ op.at \in Clock
         /\ op.verified \in Verified /\ op.verified.authority \in Authority
         /\ op.verified.authority.signer \in Signers
         /\ op.verified.block \in Blocks
         /\ pending[op.req] \in Pending /\ pending[op.req] # None
         /\ \A pc \in Committing :
              /\ [op EXCEPT !.pc = pc] \in Op
              /\ [op EXCEPT !.pc = pc].pc = pc
              /\ [op EXCEPT !.pc = pc].req = op.req
              /\ [op EXCEPT !.pc = pc].verified = op.verified
<1>1. op \in [pc : {"revoke", "bind", "evidence"}, req : Requests,
              at : Clock, verified : Verified]
  BY OpShape DEF Inv, TypeOK
<1> QED
  BY <1>1 DEF Inv, TypeOK, Op, Polled, Verified, Authority

(* Another authority signed in: the account it takes over is left disabled *)
(* and empty.                                                              *)
LEMMA PollRevokeInv ==
  ASSUME Inv, PollRevoke
  PROVE  Inv'
<1>1. /\ op.pc = "revoke"
      /\ account \in Account
      /\ account' = [account EXCEPT !.enabled = FALSE]
      /\ passwords' = {} /\ sessions' = {} /\ evidence' = None
      /\ grants' = NoGrants
      /\ op' = [op EXCEPT !.pc = "bind"]
      /\ UNCHANGED <<settings, pending, checked_at, checked_for, world>>
      /\ TypeOK
  BY DEF Inv, PollRevoke, InvalidateAuthority, Sequenced, TypeOK
<1>2. /\ account' \in Account /\ account'.fid = account.fid
      /\ account'.identity = account.identity /\ ~account'.enabled
  BY <1>1 DEF Account
<1>3. /\ op' \in Op /\ op'.pc = "bind" /\ op'.req = op.req
      /\ op'.verified = op.verified
  BY <1>1, CommittingFacts
<1>4. TypeOK'
  BY <1>1, <1>2, <1>3 DEF TypeOK, NoGrants
<1>5. ~HasCredentials'
  BY <1>1 DEF HasCredentials, NoGrants
<1>6. Polled' /\ Confirmed' /\ Sequenced'
  BY <1>1, <1>3
  DEF Inv, Polled, Confirmed, Sequenced, Regresses, verify_authority
<1>7. BindingMatchesSettings'
  BY <1>1, <1>2, ConstantsAssumption DEF Inv, BindingMatchesSettings
<1> QED
  BY <1>1, <1>4, <1>5, <1>6, <1>7
  DEF Inv, Opened, EvidenceIsBound, CredentialsHaveEvidence,
      CacheSpeaksForAccount

(* The account is bound to the verified authority; evidence that is there  *)
(* already is about the same one.                                          *)
LEMMA PollBindInv ==
  ASSUME Inv, PollBind
  PROVE  Inv'
<1> DEFINE a == op.verified.authority
<1>1. /\ op.pc = "bind"
      /\ \/ /\ account = None
            /\ account' = [fid |-> FidOf[a.signer], authority |-> a,
                           identity |-> settings.identity, enabled |-> TRUE]
         \/ /\ account # None
            /\ account.enabled => account.authority = a
            /\ account' = [account EXCEPT !.enabled = TRUE, !.authority = a]
      /\ op' = [op EXCEPT !.pc = "evidence"]
      /\ UNCHANGED <<evidence, passwords, sessions, settings, memory, world>>
      /\ TypeOK
  BY DEF Inv, PollBind
<1>2. a \in Authority /\ a.signer \in Signers /\ FidOf[a.signer] \in Fids
      /\ settings.identity \in Identities
  BY <1>1, CommittingFacts DEF Fids, TypeOK, Settings
<1>3. /\ op' \in Op /\ op'.pc = "evidence" /\ op'.req = op.req
      /\ op'.verified = op.verified
  BY <1>1, CommittingFacts
<1>4. /\ account' \in Account /\ account'.enabled /\ account'.authority = a
      /\ account'.fid = settings.allowed_fid
      /\ account'.identity = settings.identity
  <2>1. CASE account = None
    <3>1. FidOf[a.signer] = settings.allowed_fid
      BY <1>1 DEF Inv, Confirmed
    <3>2. account' = [fid |-> FidOf[a.signer], authority |-> a,
                      identity |-> settings.identity, enabled |-> TRUE]
      BY <1>1, <2>1
    <3> HIDE DEF a
    <3> QED
      BY <1>2, <3>1, <3>2 DEF Account
  <2>2. CASE account # None
    <3>1. account \in Account
      BY <1>1, <2>2 DEF TypeOK
    <3> QED
      BY <1>1, <1>2, <2>2, <3>1 DEF Account, Inv, BindingMatchesSettings
  <2> QED
    BY <2>1, <2>2
<1>5. account' # None
  BY <1>4, ConstantsAssumption
<1> HIDE DEF a
<1>6. TypeOK'
  BY <1>1, <1>3, <1>4 DEF TypeOK
<1>7. Polled' /\ Confirmed'
  BY <1>1, <1>3 DEF Inv, Polled, Confirmed, Regresses, verify_authority
<1>8. Sequenced'
  BY <1>3, <1>4, <1>5 DEF Sequenced, a
<1>9. account # None /\ account.enabled => account'.authority = account.authority
  BY <1>1, <1>4
<1>10. HasCredentials' => HasCredentials
  BY <1>1 DEF HasCredentials
<1>11. EvidenceIsBound' /\ CredentialsHaveEvidence'
  BY <1>1, <1>4, <1>5, <1>9, <1>10
  DEF Inv, EvidenceIsBound, CredentialsHaveEvidence
<1>12. CacheSpeaksForAccount' /\ BindingMatchesSettings' /\ Opened'
  BY <1>1, <1>4, <1>9, <1>10
  DEF Inv, CredentialsHaveEvidence, CacheSpeaksForAccount,
      BindingMatchesSettings, Opened
<1> QED
  BY <1>6, <1>7, <1>8, <1>11, <1>12 DEF Inv

(* The sign-in is complete: evidence, cache and grant are all about the    *)
(* authority the account was just bound to.                                *)
LEMMA PollCompleteInv ==
  ASSUME Inv, PollComplete
  PROVE  Inv'
<1>1. /\ op.pc = "evidence" /\ account # None /\ account.enabled
      /\ account.authority = op.verified.authority
      /\ evidence' = op.verified
      /\ checked_at' = now /\ checked_for' = op.verified.authority
      /\ grants' = [grants EXCEPT ![op.req] = op.at + GRANT_TTL]
      /\ pending' = [pending EXCEPT ![op.req].proof = None,
                                    ![op.req].complete = TRUE]
      /\ op' = Idle
      /\ UNCHANGED <<account, passwords, sessions, settings, world>>
      /\ TypeOK
  BY DEF Inv, PollComplete, Release, Sequenced
<1>2. /\ op.req \in Requests /\ op.at \in Nat
      /\ op.verified \in Verified /\ op.verified.authority \in Authority
      /\ pending[op.req] \in Pending /\ pending[op.req] # None
  BY <1>1, CommittingFacts DEF Clock
<1>3. /\ pending' \in [Requests -> Pending \cup {None}]
      /\ \A r \in Requests : pending'[r] # None => pending[r] # None
  <2>1. [[pending[op.req] EXCEPT !.proof = None] EXCEPT !.complete = TRUE]
          \in Pending
    BY <1>2 DEF Pending
  <2>2. pending' = [pending EXCEPT ![op.req] =
          [[pending[op.req] EXCEPT !.proof = None] EXCEPT !.complete = TRUE]]
    BY <1>1, <1>2 DEF TypeOK
  <2> QED
    BY <1>1, <1>2, <2>1, <2>2 DEF TypeOK
<1>4. grants' \in [Requests -> Nat]
  BY <1>1, <1>2, ConstantsAssumption DEF TypeOK
<1>5. TypeOK'
  BY <1>1, <1>2, <1>3, <1>4, IdleFacts DEF TypeOK
<1>6. evidence' # None
  BY <1>1, <1>2, ConstantsAssumption
<1> QED
  BY <1>1, <1>3, <1>5, <1>6, IdleFacts
  DEF Inv, Opened, Confirmed, EvidenceIsBound, CredentialsHaveEvidence,
      CacheSpeaksForAccount, BindingMatchesSettings

(* A recheck keeps the account with newer evidence, takes everything away, *)
(* or leaves all but the cache.                                            *)
LEMMA RecheckReturnInv ==
  ASSUME Inv, NEW b \in Blocks, RecheckReturn(b)
  PROVE  Inv'
<1> DEFINE found == verify_authority(evidence.authority.signer, b)
<1>1. /\ op.pc = "recheck" /\ op' = Idle
      /\ evidence \in Verified /\ evidence # None
      /\ account \in Account /\ account # None /\ account.enabled
      /\ evidence.authority = account.authority
      /\ op.kind \in Gated /\ op.req \in Requests /\ op.name \in Names
      /\ op.at \in Clock
      /\ UNCHANGED <<settings, pending, world>>
      /\ TypeOK
  BY OpShape
  DEF Inv, RecheckReturn, Release, Sequenced, EvidenceIsBound, TypeOK
<1>2. CASE checked_at' = None /\ UNCHANGED <<store, grants, checked_for>>
  <2>1. /\ passwords' \subseteq Names /\ sessions' \subseteq Names
        /\ passwords' # {} => HasCredentials
    BY <1>1, <1>2 DEF TypeOK, HasCredentials
  <2>2. pending' \in [Requests -> Pending \cup {None}]
        /\ grants' \in [Requests -> Nat]
    BY <1>1, <1>2 DEF TypeOK
  <2> QED
    BY <1>1, <1>2, <2>1, <2>2, IdleFacts, CalmInv
<1>3. CASE /\ checked_at' = None /\ InvalidateAuthority
           /\ grants' = NoGrants /\ UNCHANGED checked_for
  <2>1. /\ account' \in Account /\ account'.fid = account.fid
        /\ account'.identity = account.identity
    BY <1>1, <1>3 DEF Account, InvalidateAuthority
  <2>2. TypeOK' /\ ~HasCredentials' /\ evidence' = None
    BY <1>1, <1>3, <2>1, IdleFacts
    DEF TypeOK, NoGrants, InvalidateAuthority, HasCredentials
  <2>3. BindingMatchesSettings'
    BY <1>1, <2>1 DEF Inv, BindingMatchesSettings
  <2> QED
    BY <1>1, <1>3, <2>2, <2>3, IdleFacts
    DEF Inv, Opened, Confirmed, EvidenceIsBound, CredentialsHaveEvidence,
        CacheSpeaksForAccount
<1>4. CASE /\ found = evidence.authority
           /\ evidence' = [evidence EXCEPT !.block = b]
           /\ checked_at' = op.at /\ checked_for' = found
           /\ Effect(op.kind, op.req, op.name)
           /\ UNCHANGED <<account, grants>>
  <2>1. /\ evidence' \in Verified /\ evidence'.authority = account.authority
        /\ account.authority \in Authority /\ checked_for' = account.authority
    BY <1>1, <1>4 DEF Verified, Account
  <2>2. evidence' # None
    BY <2>1, ConstantsAssumption
  <2>3. TypeOK'
    BY <1>1, <1>4, <2>1, IdleFacts, EffectFacts DEF TypeOK
  <2> QED
    BY <1>1, <1>4, <2>1, <2>2, <2>3, IdleFacts
    DEF Inv, Opened, Confirmed, EvidenceIsBound, CredentialsHaveEvidence,
        CacheSpeaksForAccount, BindingMatchesSettings
<1> QED
  BY <1>2, <1>3, <1>4 DEF RecheckReturn

(* Every step keeps the invariant.                                         *)
LEMMA NextInv == Inv /\ [Next]_vars => Inv'
<1> SUFFICES ASSUME Inv, [Next]_vars PROVE Inv'
  OBVIOUS
<1>1. CASE Tick \/ Finalize \/ \E r \in Requests, s \in Signers : Sign(r, s)
  BY <1>1, WorldInv
<1>2. CASE \/ Refuse
           \/ \E kind \in Gated, r \in Requests, name \in Names :
                CachedOperation(kind, r, name)
           \/ \E r \in Requests, name \in Names : Revoke(r, name)
           \/ \E name \in Names : Logout(name)
  BY <1>2, ImmediateInv
<1>3. CASE \/ Start
           \/ \E r \in Requests : Poll(r)
           \/ \E kind \in Gated, r \in Requests, name \in Names :
                GatedOperation(kind, r, name)
  BY <1>3, EntryInv
<1>4. CASE \/ \E r \in Requests : StartReturn(r)
           \/ StatusReturn
           \/ \E b \in Blocks : VerifyReturn(b)
           \/ \E b \in Blocks : RecheckReturn(b)
  BY <1>4, StartReturnInv, StatusReturnInv, VerifyReturnInv, RecheckReturnInv
<1>5. CASE PollRevoke \/ PollBind \/ PollComplete
  BY <1>5, PollRevokeInv, PollBindInv, PollCompleteInv
<1>6. CASE \E new \in Settings : Configure(new)
  BY <1>6, ConfigureInv
<1>7. CASE \/ RecheckFail \/ Restart
           \/ StartFail \/ StatusFail \/ VerifyFail \/ StoreFail \/ Timeout
  BY <1>7, FailureInv
<1>8. CASE UNCHANGED vars
  <2>1. TypeOK'
    BY <1>8 DEF Inv, TypeOK
  <2> QED
    BY <1>8, <2>1
    DEF Inv, Opened, Polled, Confirmed, Sequenced, EvidenceIsBound,
        CredentialsHaveEvidence, HasCredentials, CacheSpeaksForAccount,
        BindingMatchesSettings, Regresses, verify_authority
<1> QED
  BY <1>1, <1>2, <1>3, <1>4, <1>5, <1>6, <1>7, <1>8 DEF Next

(* The invariant holds throughout.                                         *)
LEMMA Invariance == Spec => []Inv
BY InitInv, NextInv, PTL DEF Spec

(* Every variable of the account service has its type.                     *)
THEOREM TypeCorrect == Spec => []TypeOK
<1>1. Inv => TypeOK
  BY DEF Inv
<1> QED
  BY <1>1, Invariance, PTL

(* Wherever a sign-in, a recheck or the process is cut short, grants and   *)
(* passwords exist only beside evidence by which they can be revoked.      *)
THEOREM EvidenceBeforeCredentials == Spec => []CredentialsHaveEvidence
<1>1. Inv => CredentialsHaveEvidence
  BY DEF Inv
<1> QED
  BY <1>1, Invariance, PTL

(* The 30 second cache never lets one authority's check pass for another's. *)
THEOREM CacheIsOfTheAccount == Spec => []CacheSpeaksForAccount
<1>1. Inv => CacheSpeaksForAccount
  BY DEF Inv
<1> QED
  BY <1>1, Invariance, PTL

(* Settings and binding agree, so that AccountNode::open never refuses.    *)
THEOREM BoundAsConfigured == Spec => []BindingMatchesSettings
<1>1. Inv => BindingMatchesSettings
  BY DEF Inv
<1> QED
  BY <1>1, Invariance, PTL

(* Only a sign-in of another authority and a failed recheck disable an     *)
(* account.                                                                *)
LEMMA OnlyRevocationDisables ==
  ASSUME Inv, [Next]_vars, account # None, account.enabled, ~account'.enabled
  PROVE  \/ PollRevoke
         \/ \E b \in Blocks :
              RecheckReturn(b) /\ ~Regresses(b) /\
              verify_authority(evidence.authority.signer, b) # evidence.authority
<1>1. CASE UNCHANGED account
  BY <1>1
<1>2. CASE PollBind
  <2>1. account \in Account /\ account' = [account EXCEPT !.enabled = TRUE,
                                     !.authority = op.verified.authority]
    BY <1>2 DEF Inv, TypeOK, PollBind
  <2>2. account'.enabled
    BY <2>1 DEF Account
  <2> QED
    BY <2>2
<1>3. ASSUME NEW b \in Blocks, RecheckReturn(b)
      PROVE  \/ UNCHANGED account
             \/ /\ ~Regresses(b)
                /\ verify_authority(evidence.authority.signer, b)
                     # evidence.authority
  BY <1>3 DEF RecheckReturn
<1>4. Next => \/ UNCHANGED account \/ PollRevoke \/ PollBind
              \/ \E b \in Blocks : RecheckReturn(b)
  BY DEF Next, Tick, Finalize, Sign, Refuse, Start, StartReturn, Poll,
         StatusReturn, VerifyReturn, PollComplete, CachedOperation,
         GatedOperation, RecheckFail, Revoke, Logout, Configure, Restart,
         StartFail, StatusFail, VerifyFail, StoreFail, Timeout, Abort
<1> QED
  BY <1>1, <1>2, <1>3, <1>4

(* An out-of-date provider costs nobody an account: it is disabled only on *)
(* a finalized block no older than its evidence, by which the authority is *)
(* gone, or another signer of its FID is registered who has just signed in.*)
THEOREM RevocationIsEarned == Spec => NoFalseRevocation
<1> DEFINE Earned ==
      account # None /\ account.enabled /\ ~account'.enabled =>
        \E b \in 1..head :
          /\ evidence # None => b >= evidence.block
          /\ \/ verify_authority(account.authority.signer, b) # account.authority
             \/ \E s \in Signers \ {account.authority.signer} :
                  /\ FidOf[s] = account.fid /\ verify_authority(s, b) # None
                  /\ SignedIn(s)
<1>1. Inv /\ [Next]_vars => [Earned]_vars
  <2> SUFFICES ASSUME Inv, [Next]_vars, account # None, account.enabled,
                      ~account'.enabled
               PROVE  Earned
    OBVIOUS
  <2>1. TypeOK /\ account \in Account /\ account.authority \in Authority
    BY DEF Inv, TypeOK, Account
  <2>2. ASSUME NEW b \in Blocks, b <= head, ~Regresses(b)
        PROVE  b \in 1..head /\ (evidence # None => b >= evidence.block)
    BY <2>1, <2>2 DEF TypeOK, Blocks, Regresses, Verified
  <2>3. CASE PollRevoke
    <3> DEFINE v == op.verified
    <3>0. SignedIn(v.authority.signer)
      BY <2>3, CommittingFacts DEF Inv, PollRevoke, Polled, Confirmed, SignedIn
    <3>1. /\ v.block \in Blocks /\ v.block <= head /\ ~Regresses(v.block)
          /\ v.authority \in Authority /\ v.authority.signer \in Signers
          /\ verify_authority(v.authority.signer, v.block) = v.authority
          /\ FidOf[v.authority.signer] = account.fid
          /\ v.authority # account.authority
      BY <2>3, CommittingFacts
      DEF Inv, PollRevoke, Confirmed, Sequenced, BindingMatchesSettings
    <3>2. v.authority # None
      BY <3>1, ConstantsAssumption
    <3> HIDE DEF v
    <3>3. CASE v.authority.signer = account.authority.signer
      <4>1. verify_authority(account.authority.signer, v.block)
              # account.authority
        BY <3>1, <3>3
      <4> QED
        BY <2>2, <3>1, <4>1
    <3>4. CASE v.authority.signer # account.authority.signer
      <4>1. /\ v.authority.signer \in Signers \ {account.authority.signer}
            /\ verify_authority(v.authority.signer, v.block) # None
        BY <3>1, <3>2, <3>4
      <4> QED
        BY <2>2, <3>0, <3>1, <4>1
    <3> QED
      BY <3>3, <3>4
  <2>4. ASSUME NEW b \in Blocks, RecheckReturn(b), ~Regresses(b),
               verify_authority(evidence.authority.signer, b)
                 # evidence.authority
        PROVE  Earned
    <3>1. b <= head /\ evidence.authority = account.authority
      BY <2>4 DEF Inv, RecheckReturn, Sequenced, EvidenceIsBound
    <3> QED
      BY <2>2, <2>4, <3>1
  <2> QED
    BY <2>3, <2>4, OnlyRevocationDisables
<1> QED
  BY <1>1, Invariance, PTL DEF Spec, NoFalseRevocation

(* A proof the relay has handed out and forgotten is lost to no failure:   *)
(* it stays with its sign-in until that is complete, and the sign-in stays *)
(* until its time is up, its signer turns out not to be of the FID         *)
(* allowed, or the memory is emptied as a whole.                           *)
THEOREM ProofsAreKept == Spec => ProofIsRetained
<1> DEFINE Stays(r) ==
             IF pending'[r] = None THEN IsOver(r)
             ELSE pending'[r].proof = pending[r].proof \/ pending'[r].complete
           Kept ==
             \A r \in Requests : pending[r] # None /\ pending[r].proof # None =>
               Stays(r)
<1>1. Inv /\ [Next]_vars => [Kept]_vars
  <2> SUFFICES ASSUME Inv, [Next]_vars, NEW r \in Requests,
                      pending[r] # None, pending[r].proof # None
               PROVE  Stays(r)
    OBVIOUS
  <2>1. TypeOK /\ pending[r] \in Pending
    BY DEF Inv, TypeOK
  <2>0. ASSUME pending'[r] = pending[r] PROVE Stays(r)
    BY <2>0
  <2>2. CASE Prune
    BY <2>1, <2>2 DEF Prune, LivePending, IsOver
  <2>3. CASE pending' = [q \in Requests |-> None] /\ grants' = NoGrants
    BY <2>3 DEF IsOver, NoGrants
  <2>4. ASSUME NEW q \in Requests, StartReturn(q)
        PROVE  pending'[r] = pending[r]
    BY <2>1, <2>4 DEF StartReturn, Inv, Opened, TypeOK
  <2>5. CASE StatusReturn
    <3>1. op.req \in Requests /\ pending[op.req].proof = None
      BY <2>5, OpShape DEF Inv, TypeOK, StatusReturn, Polled
    <3>2. pending'[r] = pending[r]
      BY <2>1, <2>5, <3>1 DEF StatusReturn, TypeOK
    <3> QED
      BY <2>0, <3>2
  <2>6. ASSUME NEW b \in Blocks, VerifyReturn(b) PROVE Stays(r)
    <3>1. CASE UNCHANGED pending
      BY <2>0, <3>1
    <3>2. CASE /\ pending' = [pending EXCEPT ![op.req] = None]
               /\ ~(/\ now < pending[op.req].expires_at
                    /\ settings.allowed_fid = FidOf[pending[op.req].proof])
      <4>1. CASE r # op.req
        BY <2>0, <2>1, <3>2, <4>1 DEF TypeOK
      <4>2. CASE r = op.req
        <5>1. pending[r].expires_at \in Int /\ now \in Int
          BY <2>1 DEF TypeOK, Pending, Clock
        <5> QED
          BY <2>1, <3>2, <4>2, <5>1 DEF IsOver, TypeOK
      <4> QED
        BY <4>1, <4>2
    <3> QED
      BY <2>6, <3>1, <3>2 DEF VerifyReturn
  <2>7. CASE PollComplete
    <3>1. op.req \in Requests /\ pending[op.req] \in Pending
      BY <2>7, CommittingFacts DEF PollComplete
    <3>2. /\ r # op.req => pending'[r] = pending[r]
          /\ r = op.req => pending'[r].complete
      BY <2>1, <2>7, <3>1 DEF PollComplete, TypeOK, Pending
    <3>3. CASE r = op.req
      <4>1. pending'[r] \in Pending
        BY <2>1, <2>7, <3>1, <3>3, ConstantsAssumption
        DEF PollComplete, TypeOK, Pending
      <4> QED
        BY <3>2, <3>3, <4>1, ConstantsAssumption
    <3> QED
      BY <2>0, <3>2, <3>3
  <2>8. Next => \/ Prune \/ UNCHANGED pending
                \/ pending' = [q \in Requests |-> None] /\ grants' = NoGrants
                \/ \E q \in Requests : StartReturn(q)
                \/ StatusReturn \/ PollComplete
                \/ \E b \in Blocks : VerifyReturn(b)
    BY DEF Next, Tick, Finalize, Sign, Refuse, Start, Poll, PollRevoke,
           PollBind, CachedOperation, GatedOperation, RecheckReturn,
           RecheckFail, Revoke, Logout, Configure, Restart, StartFail,
           StatusFail, VerifyFail, StoreFail, Timeout, Abort
  <2> QED
    BY <2>0, <2>2, <2>3, <2>4, <2>5, <2>6, <2>7, <2>8
<1> QED
  BY <1>1, Invariance, PTL DEF Spec, ProofIsRetained
=============================================================================
