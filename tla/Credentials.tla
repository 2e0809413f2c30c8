---------------------------- MODULE Credentials ----------------------------
(***************************************************************************)
(* The private credential store of one PurpleSky account                   *)
(* (crates/psky-credentials): one SQLite file holding the account binding, *)
(* its app passwords, the sessions opened with them, the evidence of the   *)
(* last authority check and the key that signs session tokens.             *)
(*                                                                         *)
(* Every operation is one transaction or statement, so it is one action; an*)
(* operation that returns an error rolls its transaction back and leaves   *)
(* the store as it was.  Which error it is follows from the ...Result      *)
(* operators; the state only remembers which limit it was.  The read-only  *)
(* calls get_session, validate_refresh and validate_password are the       *)
(* operators TokenResult and verify_password.                              *)
(*                                                                         *)
(* Strings are abstracted to members of the constant sets; Malformed is    *)
(* the one input that fails the syntax check of whatever it is used as.    *)
(* Values the code draws at random are fresh: they differ from every value *)
(* drawn before (32 bytes of the operating system's generator).            *)
(***************************************************************************)
EXTENDS Integers, FiniteSets

CONSTANTS
  Fids,             \* Farcaster ids a caller may pass
  Authorities,      \* fingerprints of verified authorities
  Identities,       \* configured identities (handle, DIDs, service URL)
  Names,            \* names for app passwords
  Documents,        \* evidence documents
  Malformed,        \* an input that fails its check (as a FID: zero)
  Secrets,          \* the plaintexts random_bytes may yield
  Sids,             \* session ids random_id may yield
  Jtis,             \* refresh token ids random_id may yield
  Keys,             \* signing keys random_bytes may yield
  None,             \* an absent row
  MAX_PASSWORDS,
  MAX_SESSIONS,
  ACCESS_SECONDS,
  REFRESH_SECONDS,
  MaxNow            \* bound on the clock

ASSUME BoundsAssumption ==
  /\ MAX_PASSWORDS \in Nat \ {0}
  /\ MAX_SESSIONS \in Nat \ {0}
  /\ ACCESS_SECONDS \in Nat \ {0}
  /\ REFRESH_SECONDS \in Nat \ {0}
  /\ MaxNow \in Nat

VARIABLES
  account,    \* row of table account, or None
  passwords,  \* rows of table passwords
  sessions,   \* rows of table sessions
  evidence,   \* document of table evidence, or None
  jwt_key,    \* row of table secrets, or None in a new database
  running,    \* whether a process has the store open
  now,        \* the system clock: it may be set back as well as advance
  limited,    \* the limit the last call was refused for, or "no"
  issued,     \* history: every password handed out, with its authority
  tokens,     \* history: every token handed out, all still held by clients
  opener,     \* history: the password that opened each session
  deadline,   \* history: the expiry each session was opened with
  consumed    \* history: refresh tokens already rotated or used to log out

durable == <<account, passwords, sessions, evidence, jwt_key>>
history == <<issued, tokens, opener, deadline, consumed>>
vars == <<durable, running, now, limited, history>>

Clock == 0..MaxNow

\* Error::Limit, told apart by the table that is full.
Limits == {"PasswordLimit", "SessionLimit"}

\* The inputs that pass their check.
Valid(inputs) == inputs \ {Malformed}

Account == [fid : Valid(Fids), authority : Valid(Authorities),
            identity : Valid(Identities), enabled : BOOLEAN, repo_key : Keys]
Password == [name : Valid(Names), secret : Secrets]
SessionRow == [id : Sids, password_name : Valid(Names), refresh_jti : Jtis,
               refresh_exp : Nat]
Token == [key : Keys, kind : {"access", "refresh"}, sub : Valid(Identities),
          sid : Sids, jti : Jtis \cup {None}, iat : Nat, exp : Nat]
Issued == [name : Valid(Names), secret : Secrets,
           authority : Valid(Authorities)]

ASSUME NoneAssumption ==
  /\ None \notin Account
  /\ None \notin Documents
  /\ None \notin Secrets
  /\ None \notin Keys
  /\ None \notin Jtis

(* Every row and every token belongs to its table, and every stored input  *)
(* has passed its syntax check.                                            *)
TypeOK ==
  /\ account \in Account \cup {None}
  /\ passwords \subseteq Password
  /\ sessions \subseteq SessionRow
  /\ evidence \in Valid(Documents) \cup {None}
  /\ jwt_key \in Keys \cup {None}
  /\ running \in BOOLEAN
  /\ now \in Clock
  /\ limited \in Limits \cup {"no"}
  /\ issued \subseteq Issued
  /\ tokens \subseteq Token
  /\ opener \in [Sids -> Secrets \cup {None}]
  /\ deadline \in [Sids -> Nat]
  /\ consumed \subseteq Jtis

Init ==
  /\ account = None
  /\ passwords = {}
  /\ sessions = {}
  /\ evidence = None
  /\ jwt_key = None
  /\ running = FALSE
  /\ now \in Clock
  /\ limited = "no"
  /\ issued = {}
  /\ tokens = {}
  /\ opener = [s \in Sids |-> None]
  /\ deadline = [s \in Sids |-> 0]
  /\ consumed = {}

-----------------------------------------------------------------------------
(* Syntax checks, fresh values and the account's state.                    *)

valid_name(name) == name # Malformed
valid_authority(authority) == authority # Malformed
valid_fid(fid) == fid # Malformed
valid_identity(identity) == identity # Malformed
valid_document(document) == document # Malformed

FreshSecrets == Secrets \ {i.secret : i \in issued}
FreshSids == {s \in Sids : opener[s] = None}
FreshJtis == Jtis \ {t.jti : t \in tokens}

\* "ok", or why enabled_account fails.
enabled_account ==
  IF account = None THEN "NotBound"
  ELSE IF ~account.enabled THEN "Disabled"
  ELSE "ok"

\* A call that fails rolls back.
Fail(error) ==
  /\ limited' = IF error \in Limits THEN error ELSE "no"
  /\ UNCHANGED <<durable, running, now, history>>

-----------------------------------------------------------------------------
(* The process and the clock.                                              *)

\* Mutated form: a new token key at every start.
NewTokenKey == Keys

\* The token key is drawn once.
TokenKey == IF jwt_key = None THEN Keys ELSE {jwt_key}

\* Store::open creates the token key once and refuses a store whose binding
\* no longer validates.
open ==
  /\ ~running
  /\ account # None => /\ valid_fid(account.fid)
                       /\ valid_authority(account.authority)
                       /\ valid_identity(account.identity)
  /\ running' = TRUE
  /\ limited' = "no"
  /\ jwt_key' \in TokenKey
  /\ UNCHANGED <<account, passwords, sessions, evidence, now, history>>

\* The process exits or is killed; a transaction under way is rolled back.
Stop ==
  /\ running
  /\ running' = FALSE
  /\ limited' = "no"
  /\ UNCHANGED <<durable, now, history>>

\* SystemTime is not monotonic.
Tick ==
  /\ now' \in Clock \ {now}
  /\ limited' = "no"
  /\ UNCHANGED <<durable, running, history>>

-----------------------------------------------------------------------------
(* The account binding.                                                    *)

\* Mutated form: another authority may take over an enabled account.
LaxConflict(fid, authority, identity) ==
  account.fid # fid \/ account.identity # identity

BindingConflict(fid, authority, identity) ==
  \/ account.fid # fid
  \/ account.identity # identity
  \/ account.enabled /\ account.authority # authority

BindResult(fid, authority, identity) ==
  IF \/ ~valid_identity(identity) \/ ~valid_fid(fid) \/ ~valid_authority(authority)
  THEN "InvalidInput"
  ELSE IF account = None THEN "ok"
  ELSE IF BindingConflict(fid, authority, identity) THEN "BindingConflict"
  ELSE "ok"

bind_verified(fid, authority, identity) ==
  LET result == BindResult(fid, authority, identity) IN
  /\ running
  /\ \/ result # "ok" /\ Fail(result)
     \/ /\ result = "ok"
        /\ limited' = "no"
        /\ \/ /\ account # None
              /\ account' = [account EXCEPT !.enabled = TRUE,
                                            !.authority = authority]
           \/ /\ account = None
              /\ \E key \in Keys \ {jwt_key} :
                   account' = [fid |-> fid, authority |-> authority,
                               identity |-> identity, enabled |-> TRUE,
                               repo_key |-> key]
        /\ UNCHANGED <<passwords, sessions, evidence, jwt_key, running, now,
                       history>>

set_evidence(document) ==
  LET result == IF ~valid_document(document) THEN "InvalidInput"
                ELSE enabled_account IN
  /\ running
  /\ \/ result # "ok" /\ Fail(result)
     \/ /\ result = "ok"
        /\ limited' = "no"
        /\ evidence' = document
        /\ UNCHANGED <<account, passwords, sessions, jwt_key, running, now,
                       history>>

\* Mutated form: the sessions of a deleted password stay.
DeleteWithoutCascade(kept) == passwords' = kept /\ UNCHANGED sessions

\* DELETE FROM passwords leaving the rows `kept': sessions reference their
\* password ON DELETE CASCADE.
DeletePasswords(kept) ==
  /\ passwords' = kept
  /\ sessions' = {s \in sessions : \E p \in kept : p.name = s.password_name}

invalidate_authority ==
  /\ running
  /\ \/ account = None /\ Fail("NotBound")
     \/ /\ account # None
        /\ limited' = "no"
        /\ account' = [account EXCEPT !.enabled = FALSE]
        /\ DeletePasswords({})
        /\ evidence' = None
        /\ UNCHANGED <<jwt_key, running, now, history>>

-----------------------------------------------------------------------------
(* App passwords.                                                          *)

IssueResult(name) ==
  IF ~valid_name(name) THEN "InvalidInput"
  ELSE IF enabled_account # "ok" THEN enabled_account
  ELSE IF Cardinality(passwords) >= MAX_PASSWORDS THEN "PasswordLimit"
  ELSE IF \E p \in passwords : p.name = name THEN "InvalidInput"
  ELSE "ok"

issue_password(name) ==
  LET result == IssueResult(name) IN
  /\ running
  /\ \/ result # "ok" /\ Fail(result)
     \/ /\ result = "ok"
        /\ limited' = "no"
        /\ \E secret \in FreshSecrets :
             /\ passwords' = passwords \cup {[name |-> name, secret |-> secret]}
             /\ issued' = issued \cup {[name |-> name, secret |-> secret,
                                        authority |-> account.authority]}
        /\ UNCHANGED <<account, sessions, evidence, jwt_key, running, now,
                       tokens, opener, deadline, consumed>>

revoke_password(name) ==
  /\ running
  /\ \/ ~valid_name(name) /\ Fail("InvalidInput")
     \/ /\ valid_name(name)
        /\ limited' = "no"
        /\ DeletePasswords({p \in passwords : p.name # name})
        /\ UNCHANGED <<account, evidence, jwt_key, running, now, history>>

\* The rows whose verifier matches the plaintext, provided the account is
\* enabled and the identifier is its handle or DID.
verify_password(identifier, secret) ==
  {p \in passwords : /\ enabled_account = "ok"
                     /\ p.secret = secret
                     /\ identifier = account.identity}

-----------------------------------------------------------------------------
(* Sessions and their tokens.                                              *)

Lifetime(kind) ==
  IF kind = "access" THEN ACCESS_SECONDS ELSE REFRESH_SECONDS

Earlier(a, b) == IF a < b THEN a ELSE b

\* The two tokens create_session signs.  The random jti of an access token
\* is never looked at again.
create_session(sid, refresh_jti, refresh_exp) ==
  {[key |-> jwt_key, kind |-> "access", sub |-> account.identity,
    sid |-> sid, jti |-> None, iat |-> now,
    exp |-> Earlier(now + ACCESS_SECONDS, refresh_exp)],
   [key |-> jwt_key, kind |-> "refresh", sub |-> account.identity,
    sid |-> sid, jti |-> refresh_jti, iat |-> now, exp |-> refresh_exp]}

verify_token(token, kind) ==
  IF \/ token.key # jwt_key
     \/ token.kind # kind
     \/ token.sub # account.identity
     \/ token.iat > now
     \/ token.exp <= token.iat
     \/ token.exp - token.iat > Lifetime(kind)
  THEN "InvalidToken"
  ELSE IF token.exp <= now THEN "ExpiredToken"
  ELSE "ok"

\* Mutated form: any refresh token of the session will do.
LaxValidateSession(token, refresh) ==
  IF \E s \in sessions : s.id = token.sid /\ s.refresh_exp > now
  THEN "ok" ELSE "InvalidToken"

\* refresh tells whether the jti and expiry must match the row as well.
validate_session(token, refresh) ==
  IF \E s \in sessions :
       /\ s.id = token.sid
       /\ s.refresh_exp > now
       /\ refresh => /\ s.refresh_jti = token.jti
                     /\ s.refresh_exp = token.exp
  THEN "ok"
  ELSE "InvalidToken"

TokenResult(token, kind) ==
  IF enabled_account # "ok" THEN "InvalidToken"
  ELSE IF verify_token(token, kind) # "ok" THEN verify_token(token, kind)
  ELSE validate_session(token, kind = "refresh")

\* Mutated form: expired rows count and stay.
AllSessions == sessions

\* The rows authenticate does not sweep away.
UnexpiredSessions == {s \in sessions : s.refresh_exp > now}

\* What an authentication with a matching password may still fail on.
AuthenticateResult(identifier, secret) ==
  IF verify_password(identifier, secret) = {} THEN "InvalidCredentials"
  ELSE IF Cardinality(UnexpiredSessions) >= MAX_SESSIONS THEN "SessionLimit"
  ELSE "ok"

authenticate(identifier, secret) ==
  LET result == AuthenticateResult(identifier, secret)
      expires == now + REFRESH_SECONDS IN
  /\ running
  /\ \/ result # "ok" /\ Fail(result)
     \/ /\ result = "ok"
        /\ limited' = "no"
        /\ \E p \in verify_password(identifier, secret),
              sid \in FreshSids, jti \in FreshJtis :
             /\ sessions' = UnexpiredSessions \cup
                  {[id |-> sid, password_name |-> p.name,
                    refresh_jti |-> jti, refresh_exp |-> expires]}
             /\ tokens' = tokens \cup create_session(sid, jti, expires)
             /\ opener' = [opener EXCEPT ![sid] = secret]
             /\ deadline' = [deadline EXCEPT ![sid] = expires]
        /\ UNCHANGED <<account, passwords, evidence, jwt_key, running, now,
                       issued, consumed>>

\* Mutated form: rotation opens a new period, in the token and in the row.
SlidingRefresh(token) ==
  LET result == TokenResult(token, "refresh")
      expires == now + REFRESH_SECONDS IN
  /\ running
  /\ \/ result # "ok" /\ Fail(result)
     \/ /\ result = "ok"
        /\ limited' = "no"
        /\ \E jti \in FreshJtis :
             /\ tokens' = tokens \cup create_session(token.sid, jti, expires)
             /\ sessions' =
                  {IF s.id = token.sid /\ s.refresh_jti = token.jti
                   THEN [s EXCEPT !.refresh_jti = jti, !.refresh_exp = expires]
                   ELSE s : s \in sessions}
        /\ consumed' = consumed \cup {token.jti}
        /\ UNCHANGED <<account, passwords, evidence, jwt_key, running, now,
                       issued, opener, deadline>>

\* Rotation keeps the absolute expiry.
refresh_session(token) ==
  LET result == TokenResult(token, "refresh") IN
  /\ running
  /\ \/ result # "ok" /\ Fail(result)
     \/ /\ result = "ok"
        /\ limited' = "no"
        /\ \E jti \in FreshJtis :
             /\ tokens' = tokens \cup create_session(token.sid, jti, token.exp)
             /\ sessions' =
                  {IF s.id = token.sid /\ s.refresh_jti = token.jti
                   THEN [s EXCEPT !.refresh_jti = jti] ELSE s : s \in sessions}
        /\ consumed' = consumed \cup {token.jti}
        /\ UNCHANGED <<account, passwords, evidence, jwt_key, running, now,
                       issued, opener, deadline>>

delete_session(token) ==
  LET result == TokenResult(token, "refresh") IN
  /\ running
  /\ \/ result # "ok" /\ Fail(result)
     \/ /\ result = "ok"
        /\ limited' = "no"
        /\ sessions' = {s \in sessions : s.id # token.sid}
        /\ consumed' = consumed \cup {token.jti}
        /\ UNCHANGED <<account, passwords, evidence, jwt_key, running, now,
                       issued, tokens, opener, deadline>>

-----------------------------------------------------------------------------
Next ==
  \/ open
  \/ Stop
  \/ Tick
  \/ \E fid \in Fids, authority \in Authorities, identity \in Identities :
       bind_verified(fid, authority, identity)
  \/ \E document \in Documents : set_evidence(document)
  \/ invalidate_authority
  \/ \E name \in Names : issue_password(name)
  \/ \E name \in Names : revoke_password(name)
  \/ \E identifier \in Identities, i \in issued :
       authenticate(identifier, i.secret)
  \/ \E token \in tokens : refresh_session(token)
  \/ \E token \in tokens : delete_session(token)

Spec == Init /\ [][Next]_vars

-----------------------------------------------------------------------------
(* Properties.                                                             *)

Accepted(token) == TokenResult(token, token.kind) = "ok"

(* Every bearer token the store would accept, access or refresh, was       *)
(* obtained with a password that is still listed and that was issued under *)
(* the authority the account is bound to now.  Revocation, invalidation    *)
(* and re-binding reach sessions only through the ON DELETE CASCADE of the *)
(* password name, which may since have been issued again.                  *)
AcceptedTokensHaveLivePasswords ==
  \A t \in tokens : Accepted(t) =>
    \E p \in passwords, i \in issued :
      /\ p.secret = opener[t.sid]
      /\ i.secret = p.secret
      /\ i.authority = account.authority

(* A disabled account has no password, session or evidence left, whatever  *)
(* calls come after invalidate_authority.                                  *)
DisabledIsBare ==
  account = None \/ ~account.enabled =>
    passwords = {} /\ sessions = {} /\ evidence = None

(* A refresh token that was rotated or used to log out is never accepted   *)
(* again, after a restart or a clock change included ("A rotated refresh   *)
(* token cannot be replayed").                                             *)
NoReplay ==
  \A t \in tokens : t.kind = "refresh" /\ Accepted(t) => t.jti \notin consumed

(* However often a session is rotated, no token of it, access or refresh,  *)
(* outlives the expiry authenticate opened it with, and its row keeps that *)
(* expiry ("refresh sessions have a seven-day absolute lifetime").         *)
LifetimeIsAbsolute ==
  /\ \A t \in tokens : t.exp <= deadline[t.sid]
  /\ \A s \in sessions : s.refresh_exp = deadline[s.id]

(* No live session is stranded: its current refresh token, handed out by   *)
(* the last login or rotation, is accepted again at every clock reading    *)
(* between its issue and the session's expiry, across restarts.            *)
LiveSessionsAreRefreshable ==
  \A s \in sessions : \E t \in tokens :
    /\ t.kind = "refresh" /\ t.sid = s.id /\ t.jti = s.refresh_jti
    /\ t.iat <= now /\ now < s.refresh_exp => Accepted(t)

(* Both tables keep to their budgets, and a call is refused with Limit     *)
(* only when that many passwords, or that many unexpired sessions, exist.  *)
LimitIsTruthful ==
  /\ Cardinality(passwords) <= MAX_PASSWORDS
  /\ Cardinality(sessions) <= MAX_SESSIONS
  /\ limited = "PasswordLimit" => Cardinality(passwords) = MAX_PASSWORDS
  /\ limited = "SessionLimit" =>
       Cardinality({s \in sessions : s.refresh_exp > now}) = MAX_SESSIONS

KeepsBinding ==
  account # None =>
    /\ account' # None
    /\ account'.fid = account.fid
    /\ account'.identity = account.identity
    /\ account'.repo_key = account.repo_key
    /\ account'.authority # account.authority => ~account.enabled

(* Once bound, the account keeps its FID, identity and repository key; its *)
(* authority moves only while it is disabled.                              *)
BindingIsStable == [][KeepsBinding]_vars

=============================================================================
