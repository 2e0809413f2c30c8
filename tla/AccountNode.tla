---------------------------- MODULE AccountNode ----------------------------
(***************************************************************************)
(* The account service of one worker (crates/psky/src/account.rs): Sign In *)
(* With Farcaster, portal grants, the 30 second authority cache and the    *)
(* authority checks in front of every credential operation.                *)
(*                                                                         *)
(* One mutex guards the service.  A request takes it with try_lock (or is  *)
(* turned away as busy) and keeps it over every await, so `op' is the one  *)
(* request under way, stopped at an await or between two transactions of   *)
(* the credential store.  In between, the clock, the Farcaster registry,   *)
(* the relay and the RPC provider move, and the process may die.           *)
(*                                                                         *)
(* The credential store is seen through what module Credentials shows of   *)
(* it: the binding, the evidence, the listed password names and, for each  *)
(* name, whether a session derived from it is live.                        *)
(***************************************************************************)
EXTENDS Integers, FiniteSets

CONSTANTS
  Requests,         \* request ids of sign-ins; each names its grant as well
  Names,            \* names of app passwords
  Signers,          \* wallet addresses that may sign in
  FidOf,            \* the FID each signer claims in the message it signs
  Custodies,        \* custody snapshots: an authority is signer and custody
  Identities,       \* service identities the operator may configure
  None,
  MAX_PENDING,
  CHALLENGE_TTL,
  GRANT_TTL,
  AUTHORITY_CACHE,
  MaxNow,           \* bound on the clock
  MaxBlock          \* bound on the finalized height

VARIABLES
  \* durable: the credential store
  account, evidence, passwords, sessions,
  \* the configured account policy
  settings,
  \* in memory
  pending, grants, checked_at, op,
  \* the world outside
  now, registry, head, channel,
  \* history: the authority the cached check was about
  checked_for

store == <<account, evidence, passwords, sessions>>
memory == <<pending, grants, checked_at, checked_for>>
world == <<now, registry, head, channel>>
vars == <<store, settings, memory, op, world>>

Fids == {FidOf[s] : s \in Signers}
Clock == 0..MaxNow
Blocks == 1..MaxBlock
Authority == [signer : Signers, custody : Custodies]
Verified == [authority : Authority, block : Blocks]

Settings == [enabled : BOOLEAN, allowed_fid : Fids \cup {None},
             identity : Identities]
Account == [fid : Fids, authority : Authority, identity : Identities,
            enabled : BOOLEAN]

\* A pending sign-in: its proof once read from the relay, and whether its
\* completion is recorded.  None before it starts and after it is dropped.
Pending == [expires_at : Nat, proof : Signers \cup {None}, complete : BOOLEAN]

Gated == {"passwords", "issue", "login", "session", "refresh"}
Idle == [pc |-> "idle"]
Op == {Idle}
  \cup [pc : {"start"}, at : Clock]
  \cup [pc : {"status", "verify"}, req : Requests, at : Clock]
  \cup [pc : {"revoke", "bind", "evidence"}, req : Requests, at : Clock,
        verified : Verified]
  \cup [pc : {"recheck"}, kind : Gated, req : Requests, name : Names, at : Clock]

ASSUME ConstantsAssumption ==
  /\ MAX_PENDING \in Nat \ {0}
  /\ CHALLENGE_TTL \in Nat \ {0} /\ GRANT_TTL \in Nat \ {0}
  /\ AUTHORITY_CACHE \in Nat \ {0}
  /\ MaxNow \in Nat /\ MaxBlock \in Nat \ {0}
  /\ None \notin Account \cup Verified \cup Pending \cup Signers \cup Custodies
  /\ None \notin Authority /\ None \notin Nat /\ None \notin Fids
  /\ Signers \cap {"unused", "waiting", "consumed"} = {}

(* Every variable has its type; an account, a verified sign-in and its     *)
(* evidence carry an authority the registry has confirmed.                 *)
TypeOK ==
  /\ account \in Account \cup {None}
  /\ evidence \in Verified \cup {None}
  /\ passwords \subseteq Names
  /\ sessions \subseteq Names
  /\ settings \in Settings
  /\ pending \in [Requests -> Pending \cup {None}]
  /\ grants \in [Requests -> Nat]
  /\ checked_at \in Clock \cup {None}
  /\ checked_for \in Authority \cup {None}
  /\ op \in Op
  /\ now \in Clock
  /\ registry \in [Blocks -> [Signers -> Custodies \cup {None}]]
  /\ head \in Blocks
  /\ channel \in [Requests -> {"unused", "waiting", "consumed"} \cup Signers]

Init ==
  /\ account = None /\ evidence = None /\ passwords = {} /\ sessions = {}
  /\ settings \in Settings
  /\ pending = [r \in Requests |-> None]
  /\ grants = [r \in Requests |-> 0]
  /\ checked_at = None /\ checked_for = None
  /\ op = Idle
  /\ now = 0
  /\ \E c \in Custodies : registry = [b \in Blocks |-> [s \in Signers |-> c]]
  /\ head = 1
  /\ channel = [r \in Requests |-> "unused"]

-----------------------------------------------------------------------------
(* The world outside.                                                      *)

\* The system clock: it may be set back as well as advance.
Tick ==
  /\ now' \in Clock \ {now}
  /\ UNCHANGED <<store, settings, memory, op, registry, head, channel>>

\* A block is finalized in which at most one signer gains, loses or moves
\* with its custody the right to act for its FID.
Finalize ==
  /\ head < MaxBlock
  /\ head' = head + 1
  /\ \E s \in Signers, c \in Custodies \cup {None} :
       registry' = [registry EXCEPT ![head + 1] = [registry[head] EXCEPT ![s] = c]]
  /\ UNCHANGED <<store, settings, memory, op, now, channel>>

\* A wallet signs the message of a channel the relay offers.
Sign(r, s) ==
  /\ channel[r] = "waiting"
  /\ channel' = [channel EXCEPT ![r] = s]
  /\ UNCHANGED <<store, settings, memory, op, now, registry, head>>

\* What a provider that has finalized block b says of a signer's proof: the
\* authority it proves, or None when the registry denies it.
verify_authority(s, b) ==
  IF registry[b][s] = None THEN None
  ELSE [signer |-> s, custody |-> registry[b][s]]

-----------------------------------------------------------------------------
(* Steps shared by the operations.                                         *)

\* Every request first drops expired challenges and grants.
LivePending ==
  [r \in Requests |-> IF pending[r] # None /\ pending[r].expires_at <= now
                      THEN None ELSE pending[r]]
LiveGrants == [r \in Requests |-> IF grants[r] <= now THEN 0 ELSE grants[r]]

Prune ==
  /\ pending' = LivePending
  /\ grants' = LiveGrants

\* Mutated form: grants outlive the authority they were given to.
KeptGrants == grants

NoGrants == [r \in Requests |-> 0]

\* The request ends and its guard is dropped.
Release == op' = Idle

\* Store::invalidate_authority, as module Credentials has it.
InvalidateAuthority ==
  /\ account' = [account EXCEPT !.enabled = FALSE]
  /\ passwords' = {} /\ sessions' = {} /\ evidence' = None

\* The guard of Core::execute: the service is free and switched on.
Accepts == op = Idle /\ settings.enabled

\* A request that ends before its first await: rate limited, unknown or
\* mistyped id, bad grant, password or token, no account or evidence.  It
\* only prunes.
Refuse ==
  /\ Accepts
  /\ Prune
  /\ UNCHANGED <<store, settings, checked_at, checked_for, op, world>>

\* The store, the relay or the provider fails a request: it ends with an
\* error and leaves everything as it is.
Abort(pcs) ==
  /\ op.pc \in pcs
  /\ Release
  /\ UNCHANGED <<store, settings, memory, world>>

-----------------------------------------------------------------------------
(* Action::Start.                                                          *)

Start ==
  /\ Accepts
  /\ Cardinality({r \in Requests : LivePending[r] # None}) < MAX_PENDING
  /\ Prune
  /\ op' = [pc |-> "start", at |-> now]
  /\ UNCHANGED <<store, settings, checked_at, checked_for, world>>

\* The relay opens a channel for a fresh request id.
StartReturn(r) ==
  /\ op.pc = "start"
  /\ channel[r] = "unused"
  /\ channel' = [channel EXCEPT ![r] = "waiting"]
  /\ pending' = [pending EXCEPT ![r] = [expires_at |-> op.at + CHALLENGE_TTL,
                                        proof |-> None, complete |-> FALSE]]
  /\ Release
  /\ UNCHANGED <<store, settings, grants, checked_at, checked_for, now,
                 registry, head>>

-----------------------------------------------------------------------------
(* Action::Poll.  A completed sign-in answers from its record and is a     *)
(* Refuse step here: it changes nothing but the pruning.                   *)

Poll(r) ==
  /\ Accepts
  /\ LivePending[r] # None
  /\ ~pending[r].complete
  /\ Prune
  /\ op' = [pc |-> IF pending[r].proof = None THEN "status" ELSE "verify",
            req |-> r, at |-> now]
  /\ UNCHANGED <<store, settings, checked_at, checked_for, world>>

\* The relay is read.  A completed read consumes the channel, whether or
\* not the answer arrives.
StatusReturn ==
  /\ op.pc = "status"
  /\ \/ /\ channel[op.req] \in Signers
        /\ channel' = [channel EXCEPT ![op.req] = "consumed"]
        /\ \/ /\ pending' = [pending EXCEPT ![op.req].proof = channel[op.req]]
              /\ op' = [op EXCEPT !.pc = "verify"]
           \/ Release /\ UNCHANGED pending
     \/ /\ channel[op.req] \notin Signers
        /\ Release
        /\ UNCHANGED <<pending, channel>>
  /\ UNCHANGED <<store, settings, grants, checked_at, checked_for, now,
                 registry, head>>

\* The next transaction once a sign-in is verified as v.
Commit(v) ==
  IF account # None /\ account.authority # v.authority THEN "revoke" ELSE "bind"

\* Mutated form: answers are taken in whatever order they come.
NeverRegresses(b) == FALSE

\* Block b is older than the one the stored evidence was read at.
Regresses(b) == evidence # None /\ b < evidence.block

\* The provider has answered from block b.
VerifyReturn(b) ==
  LET p == pending[op.req]
      v == [authority |-> verify_authority(p.proof, b), block |-> b]
      allowed == now < p.expires_at /\ settings.allowed_fid = FidOf[p.proof] IN
  /\ op.pc = "verify"
  /\ b <= head
  /\ \/ /\ v.authority = None \/ (allowed /\ Regresses(b))
        /\ Release /\ UNCHANGED pending
     \/ /\ v.authority # None /\ ~allowed
        /\ Release
        /\ pending' = [pending EXCEPT ![op.req] = None]
     \/ /\ v.authority # None /\ allowed /\ ~Regresses(b)
        /\ op' = [pc |-> Commit(v), req |-> op.req, at |-> op.at,
                  verified |-> v]
        /\ UNCHANGED pending
  /\ UNCHANGED <<store, settings, grants, checked_at, checked_for, world>>

\* Another authority than the bound one signed in: all it issued goes.
PollRevoke ==
  /\ op.pc = "revoke"
  /\ InvalidateAuthority
  /\ grants' = NoGrants
  /\ op' = [op EXCEPT !.pc = "bind"]
  /\ UNCHANGED <<settings, pending, checked_at, checked_for, world>>

\* Store::bind_verified with the configured identity.
PollBind ==
  LET a == op.verified.authority IN
  /\ op.pc = "bind"
  /\ \/ /\ account = None
        /\ account' = [fid |-> FidOf[a.signer], authority |-> a,
                       identity |-> settings.identity, enabled |-> TRUE]
     \/ /\ account # None
        /\ account.fid = FidOf[a.signer] /\ account.identity = settings.identity
        /\ account.enabled => account.authority = a
        /\ account' = [account EXCEPT !.enabled = TRUE, !.authority = a]
  /\ op' = [op EXCEPT !.pc = "evidence"]
  /\ UNCHANGED <<evidence, passwords, sessions, settings, memory, world>>

\* Mutated form: the cache is left as it was.
CompleteUncached ==
  /\ op.pc = "evidence"
  /\ account.enabled
  /\ evidence' = op.verified
  /\ grants' = [grants EXCEPT ![op.req] = op.at + GRANT_TTL]
  /\ pending' = [pending EXCEPT ![op.req].proof = None,
                                ![op.req].complete = TRUE]
  /\ Release
  /\ UNCHANGED <<account, passwords, sessions, settings, checked_at,
                 checked_for, world>>

\* set_evidence, then the cache, the grant and the completion in memory.
PollComplete ==
  /\ op.pc = "evidence"
  /\ account.enabled
  /\ evidence' = op.verified
  /\ checked_at' = now
  /\ checked_for' = op.verified.authority
  /\ grants' = [grants EXCEPT ![op.req] = op.at + GRANT_TTL]
  /\ pending' = [pending EXCEPT ![op.req].proof = None,
                                ![op.req].complete = TRUE]
  /\ Release
  /\ UNCHANGED <<account, passwords, sessions, settings, world>>

-----------------------------------------------------------------------------
(* Credential operations behind the authority check.                       *)

\* What Core::execute demands before it checks the authority: a grant, a
\* valid password, or a live session.
Entitled(kind, r, name) ==
  CASE kind \in {"passwords", "issue"} -> grants[r] > now
    [] kind = "login" -> account # None /\ account.enabled /\ name \in passwords
    [] OTHER -> account # None /\ account.enabled /\ name \in sessions

\* What it does afterwards, unless the store refuses (a limit, a name in
\* use, a failed write); a grant, password or refresh token is looked at
\* again, an access token is not.
Effect(kind, r, name) ==
  \/ UNCHANGED <<passwords, sessions>>
  \/ /\ kind = "issue" /\ grants[r] > now
     /\ passwords' = passwords \cup {name}
     /\ UNCHANGED sessions
  \/ /\ kind = "login" /\ name \in passwords
     /\ sessions' = sessions \cup {name}
     /\ UNCHANGED passwords

\* Mutated form: a check is good until something drops it.
CachedForGood == checked_at # None

Cached == checked_at # None /\ now >= checked_at
          /\ now - checked_at < AUTHORITY_CACHE

\* authority() answers from its cache.
CachedOperation(kind, r, name) ==
  /\ Accepts
  /\ Entitled(kind, r, name)
  /\ Cached
  /\ Prune
  /\ Effect(kind, r, name)
  /\ UNCHANGED <<account, evidence, settings, checked_at, checked_for, op,
                 world>>

\* authority() has to ask the provider about the persisted evidence.
GatedOperation(kind, r, name) ==
  /\ Accepts
  /\ Entitled(kind, r, name)
  /\ ~Cached
  /\ account # None /\ account.enabled
  /\ evidence # None /\ evidence.authority = account.authority
  /\ Prune
  /\ op' = [pc |-> "recheck", kind |-> kind, req |-> r, name |-> name,
            at |-> now]
  /\ UNCHANGED <<store, settings, checked_at, checked_for, world>>

\* recheck_identity answers from block b: a block older than the evidence
\* is no verdict at all.
RecheckReturn(b) ==
  LET found == verify_authority(evidence.authority.signer, b) IN
  /\ op.pc = "recheck"
  /\ b <= head
  /\ Release
  /\ \/ /\ Regresses(b)
        /\ checked_at' = None
        /\ UNCHANGED <<store, grants, checked_for>>
     \/ /\ ~Regresses(b)
        /\ found # evidence.authority
        /\ checked_at' = None
        /\ InvalidateAuthority
        /\ grants' = NoGrants
        /\ UNCHANGED checked_for
     \/ /\ ~Regresses(b)
        /\ found = evidence.authority
        /\ evidence' = [evidence EXCEPT !.block = b]
        /\ checked_at' = op.at
        /\ checked_for' = found
        /\ Effect(op.kind, op.req, op.name)
        /\ UNCHANGED <<account, grants>>
  /\ UNCHANGED <<settings, pending, world>>

\* The provider fails, or answers and the store cannot record a loss: the
\* cache is dropped, nothing else.
RecheckFail ==
  /\ op.pc = "recheck"
  /\ checked_at' = None
  /\ Release
  /\ UNCHANGED <<store, settings, pending, grants, checked_for, world>>

-----------------------------------------------------------------------------
(* Operations that never wait.                                             *)

\* Action::Revoke needs a grant but no authority check.
Revoke(r, name) ==
  /\ Accepts
  /\ grants[r] > now
  /\ Prune
  /\ passwords' = passwords \ {name}
  /\ sessions' = sessions \ {name}
  /\ UNCHANGED <<account, evidence, settings, checked_at, checked_for, op,
                 world>>

\* Action::Logout needs the refresh token of a live session.
Logout(name) ==
  /\ Accepts
  /\ account # None /\ account.enabled /\ name \in sessions
  /\ Prune
  /\ sessions' = sessions \ {name}
  /\ UNCHANGED <<account, evidence, passwords, settings, checked_at,
                 checked_for, op, world>>

\* ConfigurationGuard: check and apply under the same lock.
ConfigurationAllowed(new) ==
  account # None => /\ new.allowed_fid = account.fid
                    /\ new.identity = account.identity

\* Mutated form: the guard does not wait for the request under way.
ConfigureUnlocked(new) ==
  /\ new # settings
  /\ ConfigurationAllowed(new)
  /\ settings' = new
  /\ grants' = NoGrants
  /\ checked_at' = None
  /\ UNCHANGED <<store, pending, checked_for, op, world>>

Configure(new) ==
  /\ op = Idle
  /\ new # settings
  /\ ConfigurationAllowed(new)
  /\ settings' = new
  /\ pending' = [r \in Requests |-> None]
  /\ grants' = NoGrants
  /\ checked_at' = None
  /\ UNCHANGED <<store, checked_for, op, world>>

\* The process dies at any point, and AccountNode::open starts over from
\* the store; it refuses settings that contradict the binding.
Restart ==
  /\ ConfigurationAllowed(settings)
  /\ pending' = [r \in Requests |-> None]
  /\ grants' = NoGrants
  /\ checked_at' = None
  /\ Release
  /\ UNCHANGED <<store, settings, checked_for, world>>

-----------------------------------------------------------------------------
\* Mutated form: the proof is taken out before the provider has answered.
ForgetfulVerifyFail ==
  /\ op.pc = "verify"
  /\ pending' = [pending EXCEPT ![op.req].proof = None]
  /\ Release
  /\ UNCHANGED <<store, settings, grants, checked_at, checked_for, world>>

\* A request fails for an outside reason: the relay call of 8 s, a store
\* write, or the 25 s limit on the whole request, which strikes at an await
\* and leaves the same state as a recheck the store cannot record.
StartFail == Abort({"start"})
StatusFail == Abort({"status"})
VerifyFail == Abort({"verify"})
StoreFail == Abort({"revoke", "bind", "evidence"})
Timeout == Abort({"verify", "recheck"})

Next ==
  \/ Tick \/ Finalize
  \/ \E r \in Requests, s \in Signers : Sign(r, s)
  \/ Refuse \/ Start
  \/ \E r \in Requests : StartReturn(r)
  \/ \E r \in Requests : Poll(r)
  \/ StatusReturn
  \/ \E b \in Blocks : VerifyReturn(b)
  \/ PollRevoke \/ PollBind \/ PollComplete
  \/ \E kind \in Gated, r \in Requests, name \in Names :
       CachedOperation(kind, r, name)
  \/ \E kind \in Gated, r \in Requests, name \in Names :
       GatedOperation(kind, r, name)
  \/ \E b \in Blocks : RecheckReturn(b)
  \/ RecheckFail
  \/ \E r \in Requests, name \in Names : Revoke(r, name)
  \/ \E name \in Names : Logout(name)
  \/ \E new \in Settings : Configure(new)
  \/ Restart
  \/ StartFail \/ StatusFail \/ VerifyFail \/ StoreFail \/ Timeout

Spec == Init /\ [][Next]_vars

\* Every request ends within 25 seconds, and time also passes between two
\* requests, or the try_lock of the next might fail for ever.  For an account
\* in use, a password is tried again and again, and a provider asked about it
\* again and again answers at times from the newest block.
UsedSpec ==
  /\ Spec
  /\ SF_vars(op = Idle /\ Tick)
  /\ WF_vars(StartFail) /\ WF_vars(StatusFail) /\ WF_vars(StoreFail)
  /\ WF_vars(Timeout)
  /\ SF_vars(\E r \in Requests, name \in Names :
               GatedOperation("login", r, name))
  /\ SF_vars(\E b \in Blocks : b = head /\ RecheckReturn(b))

-----------------------------------------------------------------------------
(* Properties.                                                             *)

HasCredentials == passwords # {} \/ \E r \in Requests : grants[r] > 0

(* Wherever a request is cut short, between the transactions of a sign-in  *)
(* included, grants and passwords exist only for an enabled account whose  *)
(* stored evidence is about the very authority it is bound to: without     *)
(* that evidence no later check could ever revoke them.                    *)
CredentialsHaveEvidence ==
  HasCredentials => /\ account # None /\ account.enabled
                    /\ evidence # None
                    /\ evidence.authority = account.authority

(* The cached authority check is about the authority the account is bound  *)
(* to now, whenever there is a grant or password the cache could let pass. *)
CacheSpeaksForAccount ==
  HasCredentials /\ checked_at # None => checked_for = account.authority

(* The account is bound to the FID and identity the node is configured     *)
(* with: a configuration change never slips between the checks of a        *)
(* sign-in and its binding, so that AccountNode::open, which compares the  *)
(* two, accepts the settings last applied.                                 *)
BindingMatchesSettings ==
  account # None => /\ account.fid = settings.allowed_fid
                    /\ account.identity = settings.identity

\* A sign-in is under way with a proof by s.
SignedIn(s) == \E r \in Requests : pending[r] # None /\ pending[r].proof = s

(* An account is disabled only on a registry state at least as new as its  *)
(* evidence, in which the bound authority is gone, or in which another     *)
(* signer of the FID is registered who has just signed in ("An             *)
(* out-of-date/forked provider must not cause credential revocation").     *)
NoFalseRevocation ==
  [][account # None /\ account.enabled /\ ~account'.enabled =>
       \E b \in 1..head :
         /\ evidence # None => b >= evidence.block
         /\ \/ verify_authority(account.authority.signer, b) # account.authority
            \/ \E s \in Signers \ {account.authority.signer} :
                 /\ FidOf[s] = account.fid /\ verify_authority(s, b) # None
                 /\ SignedIn(s)]_vars

\* A sign-in is over: its time is up, its signer is not of the FID allowed, or
\* a restart or new settings empty the memory altogether.
IsOver(r) ==
  \/ pending[r].expires_at <= now
  \/ FidOf[pending[r].proof] # settings.allowed_fid
  \/ \A q \in Requests : pending'[q] = None /\ grants'[q] = 0

(* A proof read from the relay, which has then forgotten it, stays with    *)
(* its sign-in through provider failures, store failures and timeouts; the *)
(* sign-in itself goes only when it is over, and not for a failure that a  *)
(* later poll may not meet again.                                          *)
ProofIsRetained ==
  [][\A r \in Requests : pending[r] # None /\ pending[r].proof # None =>
       IF pending'[r] = None THEN IsOver(r)
       ELSE pending'[r].proof = pending[r].proof \/ pending'[r].complete]_vars

(* Core::authority: an account in use does not outlive its authority.  If  *)
(* the registry no longer knows the authority the account is bound to, its *)
(* passwords are revoked, unless the registry takes it back or the service *)
(* is switched off; it does not matter that the cache was fresh, that a    *)
(* provider lagged behind or that the authority had been lost before and   *)
(* came back over a lagging provider.                                      *)
LossIsNoticed ==
  LET lost == /\ account # None /\ account.enabled
              /\ verify_authority(account.authority.signer, head)
                   # account.authority IN
  (lost /\ passwords # {}) ~> (passwords = {} \/ ~lost \/ ~settings.enabled)
=============================================================================
