------------------------- MODULE CredentialsProofs -------------------------
(***************************************************************************)
(* Proofs, for every value of the constants, of what module Credentials    *)
(* promises.  The inductive invariant comes in three layers, each using    *)
(* the ones before it: Typed (types, and an open store has a key), Lineage *)
(* (which password and which authority every row goes back to) and         *)
(* TokenRows (how the tokens handed out match the rows of sessions).       *)
(* Budgets, on the numbers of rows, stands beside them.                    *)
(***************************************************************************)
EXTENDS Credentials, FiniteSetTheorems, TLAPS

Typed ==
  /\ TypeOK
  /\ running => jwt_key # None

(* A password row was issued, under the account's present authority.       *)
PasswordLineage ==
  \A p \in passwords :
    /\ enabled_account = "ok"
    /\ \E i \in issued : /\ i.secret = p.secret
                         /\ i.authority = account.authority

(* A session row hangs on the very password that opened it.                *)
SessionLineage ==
  \A s \in sessions : \E p \in passwords :
    p.name = s.password_name /\ p.secret = opener[s.id]

(* Names and session ids are primary keys, and a session id in use is not  *)
(* fresh.                                                                  *)
PrimaryKeys ==
  /\ \A p, q \in passwords : p.name = q.name => p = q
  /\ \A r, s \in sessions : r.id = s.id => r = s

Lineage ==
  /\ PasswordLineage
  /\ SessionLineage
  /\ PrimaryKeys
  /\ evidence # None => enabled_account = "ok"

(* What the tokens handed out and the rows of sessions have in common.     *)
TokenRows ==
  /\ \A t \in tokens : opener[t.sid] # None
  /\ LifetimeIsAbsolute
  /\ \A s \in sessions : \E t \in tokens :
       /\ t.kind = "refresh" /\ t.sid = s.id /\ t.jti = s.refresh_jti
       /\ t.exp = s.refresh_exp
       /\ t.key = jwt_key /\ t.sub = account.identity
       /\ t.iat < t.exp /\ t.exp - t.iat <= REFRESH_SECONDS
  /\ \A s \in sessions : s.refresh_jti \notin consumed
  /\ \A j \in consumed : \E t \in tokens : t.jti = j
  /\ \A t, u \in tokens :
       t.kind = "refresh" /\ u.kind = "refresh" /\ t.jti = u.jti
         => t.sid = u.sid

IInv == Typed /\ Lineage /\ TokenRows

-----------------------------------------------------------------------------
(* Facts about the helpers.                                                *)

(* An enabled account is a bound one.                                      *)
LEMMA EnabledAccount ==
  enabled_account = "ok" <=> account # None /\ account.enabled
BY DEF enabled_account

(* What a caller knows of a token the store accepts.                       *)
LEMMA AcceptedToken ==
  ASSUME NEW token, NEW kind, TokenResult(token, kind) = "ok"
  PROVE  /\ enabled_account = "ok"
         /\ token.key = jwt_key
         /\ token.kind = kind
         /\ token.sub = account.identity
         /\ ~(token.iat > now)
         /\ ~(token.exp <= token.iat)
         /\ ~(token.exp - token.iat > Lifetime(kind))
         /\ ~(token.exp <= now)
         /\ \E s \in sessions :
              /\ s.id = token.sid
              /\ s.refresh_exp > now
              /\ kind = "refresh" => /\ s.refresh_jti = token.jti
                                     /\ s.refresh_exp = token.exp
<1>1. enabled_account = "ok"
  BY DEF TokenResult
<1>2. verify_token(token, kind) = "ok"
  BY <1>1 DEF TokenResult
<1>3. validate_session(token, kind = "refresh") = "ok"
  BY <1>1, <1>2 DEF TokenResult
<1>4. QED
  BY <1>1, <1>2, <1>3 DEF verify_token, validate_session

(* A password that verifies is a row of an enabled account.                *)
LEMMA VerifiedPassword ==
  ASSUME NEW identifier, NEW secret, NEW p \in verify_password(identifier, secret)
  PROVE  p \in passwords /\ p.secret = secret /\ enabled_account = "ok"
BY DEF verify_password

(* The tokens create_session signs are typed.                              *)
LEMMA CreatedTokens ==
  ASSUME TypeOK, jwt_key # None, enabled_account = "ok",
         NEW sid \in Sids, NEW jti \in Jtis, NEW exp \in Nat
  PROVE  create_session(sid, jti, exp) \subseteq Token
<1>1. jwt_key \in Keys /\ account.identity \in Valid(Identities) /\ now \in Nat
  BY EnabledAccount DEF TypeOK, Account, Clock
<1>2. Earlier(now + ACCESS_SECONDS, exp) \in Nat
  BY <1>1, BoundsAssumption DEF Earlier
<1>3. QED
  BY <1>1, <1>2 DEF create_session, Token

-----------------------------------------------------------------------------
(* The first layer: types.                                                 *)

(* A new store is typed.                                                   *)
LEMMA TypedInit == Init => Typed
<1> SUFFICES ASSUME Init PROVE Typed
  OBVIOUS
<1>1. deadline \in [Sids -> Nat] /\ opener \in [Sids -> Secrets \cup {None}]
  BY DEF Init
<1>2. QED
  BY <1>1 DEF Init, Typed, TypeOK, Clock

(* Every operation keeps the types and the token key.                      *)
LEMMA TypedStep == Typed /\ [Next]_vars => Typed'
<1> SUFFICES ASSUME Typed, [Next]_vars PROVE Typed'
  OBVIOUS
<1> USE DEF Typed
<1>1. CASE UNCHANGED vars
  BY <1>1 DEF vars, durable, history, TypeOK
<1>2. CASE open
  BY <1>2, NoneAssumption DEF open, TokenKey, history, TypeOK
<1>3. CASE Stop
  BY <1>3 DEF Stop, durable, history, TypeOK
<1>4. CASE Tick
  BY <1>4 DEF Tick, durable, history, TypeOK
<1>5. ASSUME NEW error, Fail(error) PROVE Typed'
  BY <1>5 DEF Fail, durable, history, TypeOK
<1>6. ASSUME NEW fid \in Fids, NEW authority \in Authorities,
             NEW identity \in Identities, bind_verified(fid, authority, identity)
      PROVE  Typed'
  <2>0. BindResult(fid, authority, identity) = "ok" =>
          /\ fid \in Valid(Fids)
          /\ authority \in Valid(Authorities)
          /\ identity \in Valid(Identities)
    BY DEF BindResult, valid_fid, valid_authority, valid_identity, Valid
  <2>1. CASE /\ BindResult(fid, authority, identity) = "ok"
             /\ account # None
             /\ account' = [account EXCEPT !.enabled = TRUE,
                                           !.authority = authority]
             /\ limited' = "no"
             /\ UNCHANGED <<passwords, sessions, evidence, jwt_key, running,
                            now, history>>
    BY <2>1, <2>0 DEF history, TypeOK, Account
  <2>2. ASSUME NEW key \in Keys,
               BindResult(fid, authority, identity) = "ok",
               account' = [fid |-> fid, authority |-> authority,
                           identity |-> identity, enabled |-> TRUE,
                           repo_key |-> key],
               limited' = "no",
               UNCHANGED <<passwords, sessions, evidence, jwt_key, running,
                           now, history>>
        PROVE  Typed'
    BY <2>2, <2>0 DEF history, TypeOK, Account
  <2>3. QED
    BY <1>5, <1>6, <2>1, <2>2 DEF bind_verified
<1>7. ASSUME NEW document \in Documents, set_evidence(document) PROVE Typed'
  BY <1>5, <1>7 DEF set_evidence, valid_document, Valid, history, TypeOK
<1>8. CASE invalidate_authority
  <2>1. CASE account # None /\ account' = [account EXCEPT !.enabled = FALSE]
    BY <1>5, <1>8, <2>1
       DEF invalidate_authority, DeletePasswords, history, TypeOK, Account
  <2>2. QED
    BY <1>5, <1>8, <2>1 DEF invalidate_authority
<1>9. ASSUME NEW name \in Names, issue_password(name) PROVE Typed'
  <2>1. CASE IssueResult(name) # "ok"
    BY <1>5, <1>9, <2>1 DEF issue_password
  <2>2. CASE IssueResult(name) = "ok"
    <3>1. account \in Account /\ name \in Valid(Names)
      BY <2>2, EnabledAccount DEF IssueResult, TypeOK, valid_name, Valid
    <3>2. PICK secret \in FreshSecrets :
            /\ passwords' = passwords \cup {[name |-> name, secret |-> secret]}
            /\ issued' = issued \cup {[name |-> name, secret |-> secret,
                                       authority |-> account.authority]}
      BY <1>9, <2>2 DEF issue_password
    <3>3. secret \in Secrets
      BY DEF FreshSecrets
    <3>4. passwords' \subseteq Password /\ issued' \subseteq Issued
      BY <3>1, <3>2, <3>3 DEF TypeOK, Password, Issued, Account
    <3>5. QED
      BY <1>9, <2>2, <3>4 DEF issue_password, TypeOK
  <2>3. QED
    BY <2>1, <2>2
<1>10. ASSUME NEW name \in Names, revoke_password(name) PROVE Typed'
  BY <1>5, <1>10 DEF revoke_password, DeletePasswords, history, TypeOK
<1>11. ASSUME NEW identifier \in Identities, NEW i \in issued,
              authenticate(identifier, i.secret)
       PROVE  Typed'
  <2>1. CASE AuthenticateResult(identifier, i.secret) # "ok"
    BY <1>5, <1>11, <2>1 DEF authenticate
  <2>2. CASE AuthenticateResult(identifier, i.secret) = "ok"
    <3> DEFINE expires == now + REFRESH_SECONDS
    <3>1. PICK p \in verify_password(identifier, i.secret),
               sid \in FreshSids, jti \in FreshJtis :
            /\ sessions' = {s \in sessions : s.refresh_exp > now} \cup
                 {[id |-> sid, password_name |-> p.name,
                   refresh_jti |-> jti, refresh_exp |-> expires]}
            /\ tokens' = tokens \cup create_session(sid, jti, expires)
            /\ opener' = [opener EXCEPT ![sid] = i.secret]
            /\ deadline' = [deadline EXCEPT ![sid] = expires]
      BY <1>11, <2>2 DEF authenticate, UnexpiredSessions
    <3>2. p \in passwords /\ enabled_account = "ok"
      BY VerifiedPassword
    <3>3. sid \in Sids /\ jti \in Jtis /\ p.name \in Valid(Names)
      BY <3>2 DEF FreshSids, FreshJtis, TypeOK, Password
    <3>4. expires \in Nat /\ i.secret \in Secrets /\ jwt_key # None
      BY <1>11, BoundsAssumption DEF TypeOK, Clock, Issued, authenticate
    <3>5. tokens' \subseteq Token
      BY <3>1, <3>2, <3>3, <3>4, CreatedTokens DEF TypeOK
    <3>6. sessions' \subseteq SessionRow
      BY <3>1, <3>3, <3>4 DEF TypeOK, SessionRow
    <3>7. /\ opener' \in [Sids -> Secrets \cup {None}]
          /\ deadline' \in [Sids -> Nat]
      BY <3>1, <3>4 DEF TypeOK
    <3>8. QED
      BY <1>11, <2>2, <3>5, <3>6, <3>7 DEF authenticate, TypeOK
  <2>3. QED
    BY <2>1, <2>2
<1>12. ASSUME NEW token \in tokens, refresh_session(token) PROVE Typed'
  <2>1. CASE TokenResult(token, "refresh") # "ok"
    BY <1>5, <1>12, <2>1 DEF refresh_session
  <2>2. CASE TokenResult(token, "refresh") = "ok"
    <3>1. PICK jti \in FreshJtis :
            /\ tokens' = tokens \cup create_session(token.sid, jti, token.exp)
            /\ sessions' =
                 {IF s.id = token.sid /\ s.refresh_jti = token.jti
                  THEN [s EXCEPT !.refresh_jti = jti] ELSE s : s \in sessions}
      BY <1>12, <2>2 DEF refresh_session
    <3>2. jti \in Jtis /\ token \in Token /\ jwt_key # None
      BY <1>12 DEF FreshJtis, TypeOK, refresh_session
    <3>3. enabled_account = "ok" /\ token.kind = "refresh"
      BY <2>2, AcceptedToken
    <3>4. token.sid \in Sids /\ token.exp \in Nat
      BY <3>2 DEF Token
    <3>5. tokens' \subseteq Token
      BY <3>1, <3>2, <3>3, <3>4, CreatedTokens DEF TypeOK
    <3>6. sessions' \subseteq SessionRow
      BY <3>1, <3>2 DEF TypeOK, SessionRow
    <3>7. token.jti \in Jtis
      <4>1. PICK s \in sessions : s.refresh_jti = token.jti
        BY <2>2, AcceptedToken
      <4>2. QED
        BY <4>1 DEF TypeOK, SessionRow
    <3>8. QED
      BY <1>12, <2>2, <3>5, <3>6, <3>7 DEF refresh_session, TypeOK
  <2>3. QED
    BY <2>1, <2>2
<1>13. ASSUME NEW token \in tokens, delete_session(token) PROVE Typed'
  <2>1. CASE TokenResult(token, "refresh") # "ok"
    BY <1>5, <1>13, <2>1 DEF delete_session
  <2>2. CASE TokenResult(token, "refresh") = "ok"
    <3>1. PICK s \in sessions : s.refresh_jti = token.jti
      BY <2>2, AcceptedToken
    <3>2. token.jti \in Jtis
      BY <3>1 DEF TypeOK, SessionRow
    <3>3. QED
      BY <1>13, <2>2, <3>2 DEF delete_session, TypeOK
  <2>3. QED
    BY <2>1, <2>2
<1>14. QED
  BY <1>1, <1>2, <1>3, <1>4, <1>6, <1>7, <1>8, <1>9, <1>10, <1>11, <1>12,
     <1>13 DEF Next

(* The store's tables keep their types under every sequence of calls, and  *)
(* no call runs without the token key Store::open creates.                 *)
THEOREM TypeCorrect == Spec => []TypeOK
<1>1. Spec => []Typed
  BY TypedInit, TypedStep, PTL DEF Spec
<1>2. Typed => TypeOK
  BY DEF Typed
<1>3. QED
  BY <1>1, <1>2, PTL

-----------------------------------------------------------------------------
(* The second layer: where rows come from.                                 *)

(* A new store has no rows to trace.                                       *)
LEMMA LineageInit == Init => Lineage
BY DEF Init, Lineage, PasswordLineage, SessionLineage, PrimaryKeys

(* Deleting passwords keeps the lineage of what is left, because sessions  *)
(* go with the password they name.                                         *)
LEMMA DeletePasswordsKeepsLineage ==
  ASSUME SessionLineage, PrimaryKeys, NEW kept \in SUBSET passwords,
         DeletePasswords(kept), UNCHANGED opener
  PROVE  SessionLineage' /\ PrimaryKeys'
<1>1. PrimaryKeys'
  BY DEF PrimaryKeys, DeletePasswords
<1>2. ASSUME NEW s \in sessions' PROVE \E p \in passwords' :
               p.name = s.password_name /\ p.secret = opener'[s.id]
  <2>1. s \in sessions /\ \E p \in kept : p.name = s.password_name
    BY <1>2 DEF DeletePasswords
  <2>2. PICK p \in kept : p.name = s.password_name
    BY <2>1
  <2>3. PICK q \in passwords : q.name = s.password_name /\ q.secret = opener[s.id]
    BY <2>1 DEF SessionLineage
  <2>4. p = q
    BY <2>2, <2>3 DEF PrimaryKeys
  <2>5. QED
    BY <2>2, <2>3, <2>4 DEF DeletePasswords
<1>3. QED
  BY <1>1, <1>2 DEF SessionLineage

(* Every operation keeps the lineage of passwords and sessions.            *)
LEMMA LineageStep == Typed /\ Lineage /\ [Next]_vars => Lineage'
<1> SUFFICES ASSUME Typed, Lineage, [Next]_vars PROVE Lineage'
  OBVIOUS
<1> USE DEF Lineage
<1>0. ASSUME UNCHANGED <<account, passwords, sessions, evidence, issued, opener>>
      PROVE  Lineage'
  BY <1>0 DEF PasswordLineage, SessionLineage, PrimaryKeys, enabled_account
<1>1. CASE UNCHANGED vars
  BY <1>0, <1>1 DEF vars, durable, history
<1>2. CASE open
  BY <1>0, <1>2 DEF open, history
<1>3. CASE Stop
  BY <1>0, <1>3 DEF Stop, durable, history
<1>4. CASE Tick
  BY <1>0, <1>4 DEF Tick, durable, history
<1>5. ASSUME NEW error, Fail(error) PROVE Lineage'
  BY <1>0, <1>5 DEF Fail, durable, history
<1>6. ASSUME NEW fid \in Fids, NEW authority \in Authorities,
             NEW identity \in Identities, bind_verified(fid, authority, identity)
      PROVE  Lineage'
  <2>1. CASE BindResult(fid, authority, identity) # "ok"
    BY <1>5, <1>6, <2>1 DEF bind_verified
  <2>2. CASE BindResult(fid, authority, identity) = "ok"
    <3>1. UNCHANGED <<passwords, sessions, evidence, issued, opener>>
      BY <1>6, <2>2 DEF bind_verified, history
    <3>2. SessionLineage' /\ PrimaryKeys'
      BY <3>1 DEF SessionLineage, PrimaryKeys
    <3>3. CASE account = None
      <4>1. passwords = {} /\ evidence = None
        BY <3>3, EnabledAccount DEF PasswordLineage
      <4>2. QED
        BY <3>1, <3>2, <4>1 DEF PasswordLineage
    <3>4. CASE account # None
      <4>1. account \in Account
        BY <3>4 DEF Typed, TypeOK
      <4>2. account' = [account EXCEPT !.enabled = TRUE, !.authority = authority]
        BY <1>6, <2>2, <3>4 DEF bind_verified
      <4>3. account' \in Account /\ account'.enabled
        BY <2>2, <4>1, <4>2
           DEF Account, BindResult, valid_authority, Valid
      <4>4. enabled_account' = "ok"
        BY <4>3, NoneAssumption DEF enabled_account
      <4>5. account.enabled => account'.authority = account.authority
        BY <2>2, <3>4, <4>1, <4>2 DEF BindResult, BindingConflict, Account
      <4>6. PasswordLineage'
        <5>1. CASE account.enabled
          BY <3>1, <4>4, <4>5, <5>1 DEF PasswordLineage
        <5>2. CASE ~account.enabled
          BY <3>1, <5>2, EnabledAccount DEF PasswordLineage
        <5>3. QED
          BY <5>1, <5>2
      <4>7. QED
        BY <3>2, <4>4, <4>6
    <3>5. QED
      BY <3>3, <3>4
  <2>3. QED
    BY <2>1, <2>2
<1>7. ASSUME NEW document \in Documents, set_evidence(document) PROVE Lineage'
  <2>1. CASE enabled_account # "ok" \/ ~valid_document(document)
    BY <1>5, <1>7, <2>1 DEF set_evidence
  <2>2. CASE enabled_account = "ok" /\ valid_document(document)
    <3>1. UNCHANGED <<account, passwords, sessions, issued, opener>>
      BY <1>7, <2>2 DEF set_evidence, history
    <3>2. QED
      BY <2>2, <3>1 DEF PasswordLineage, SessionLineage, PrimaryKeys,
                        enabled_account
  <2>3. QED
    BY <2>1, <2>2
<1>8. CASE invalidate_authority
  <2>1. CASE account = None
    BY <1>5, <1>8, <2>1 DEF invalidate_authority
  <2>2. CASE account # None
    <3>1. DeletePasswords({}) /\ evidence' = None /\ UNCHANGED opener
      BY <1>8, <2>2 DEF invalidate_authority, history
    <3>2. SessionLineage' /\ PrimaryKeys'
      BY <3>1, DeletePasswordsKeepsLineage
    <3>3. PasswordLineage'
      BY <3>1 DEF DeletePasswords, PasswordLineage
    <3>4. QED
      BY <3>1, <3>2, <3>3
  <2>3. QED
    BY <2>1, <2>2
<1>9. ASSUME NEW name \in Names, issue_password(name) PROVE Lineage'
  <2>1. CASE IssueResult(name) # "ok"
    BY <1>5, <1>9, <2>1 DEF issue_password
  <2>2. CASE IssueResult(name) = "ok"
    <3>1. PICK secret \in FreshSecrets :
            /\ passwords' = passwords \cup {[name |-> name, secret |-> secret]}
            /\ issued' = issued \cup {[name |-> name, secret |-> secret,
                                       authority |-> account.authority]}
      BY <1>9, <2>2 DEF issue_password
    <3>2. UNCHANGED <<account, sessions, evidence, opener>>
      BY <1>9, <2>2 DEF issue_password
    <3>3. enabled_account = "ok" /\ ~\E p \in passwords : p.name = name
      BY <2>2 DEF IssueResult
    <3>4. enabled_account' = "ok"
      BY <3>2, <3>3 DEF enabled_account
    <3>5. PasswordLineage'
      <4> DEFINE new == [name |-> name, secret |-> secret,
                         authority |-> account.authority]
      <4>1. ASSUME NEW p \in passwords'
            PROVE  \E i \in issued' : /\ i.secret = p.secret
                                      /\ i.authority = account.authority
        <5>1. CASE p \in passwords
          BY <3>1, <5>1 DEF PasswordLineage
        <5>2. CASE p = [name |-> name, secret |-> secret]
          <6>1. new \in issued'
            BY <3>1
          <6>2. new.secret = p.secret /\ new.authority = account.authority
            BY <5>2
          <6>3. QED
            BY <6>1, <6>2
        <5>3. QED
          BY <3>1, <4>1, <5>1, <5>2
      <4>2. QED
        BY <3>2, <3>4, <4>1 DEF PasswordLineage
    <3>6. SessionLineage'
      BY <3>1, <3>2 DEF SessionLineage
    <3>7. PrimaryKeys'
      BY <3>1, <3>2, <3>3 DEF PrimaryKeys
    <3>8. QED
      BY <3>4, <3>5, <3>6, <3>7
  <2>3. QED
    BY <2>1, <2>2
<1>10. ASSUME NEW name \in Names, revoke_password(name) PROVE Lineage'
  <2>1. CASE ~valid_name(name)
    BY <1>5, <1>10, <2>1 DEF revoke_password
  <2>2. CASE valid_name(name)
    <3> DEFINE kept == {p \in passwords : p.name # name}
    <3>1. /\ DeletePasswords(kept)
          /\ UNCHANGED <<account, evidence, issued, opener>>
      BY <1>10, <2>2 DEF revoke_password, history
    <3>2. kept \in SUBSET passwords
      OBVIOUS
    <3>3. SessionLineage' /\ PrimaryKeys'
      <4> HIDE DEF kept
      <4> QED
        BY <3>1, <3>2, DeletePasswordsKeepsLineage
    <3>4. PasswordLineage'
      BY <3>1 DEF PasswordLineage, DeletePasswords, enabled_account
    <3>5. QED
      BY <3>1, <3>3, <3>4 DEF enabled_account
  <2>3. QED
    BY <2>1, <2>2
<1>11. ASSUME NEW identifier \in Identities, NEW i \in issued,
              authenticate(identifier, i.secret)
       PROVE  Lineage'
  <2>1. CASE AuthenticateResult(identifier, i.secret) # "ok"
    BY <1>5, <1>11, <2>1 DEF authenticate
  <2>2. CASE AuthenticateResult(identifier, i.secret) = "ok"
    <3> DEFINE expires == now + REFRESH_SECONDS
    <3>1. PICK p \in verify_password(identifier, i.secret),
               sid \in FreshSids, jti \in FreshJtis :
            /\ sessions' = {s \in sessions : s.refresh_exp > now} \cup
                 {[id |-> sid, password_name |-> p.name,
                   refresh_jti |-> jti, refresh_exp |-> expires]}
            /\ opener' = [opener EXCEPT ![sid] = i.secret]
      BY <1>11, <2>2 DEF authenticate, UnexpiredSessions
    <3>2. UNCHANGED <<account, passwords, evidence, issued>>
      BY <1>11, <2>2 DEF authenticate
    <3>3. p \in passwords /\ p.secret = i.secret
      BY VerifiedPassword
    <3>4. sid \in Sids /\ opener[sid] = None
      BY DEF FreshSids
    <3>5. \A s \in sessions : s.id # sid /\ s.id \in Sids
      <4>1. \A s \in sessions : opener[s.id] \in Secrets /\ s.id \in Sids
        BY DEF SessionLineage, Typed, TypeOK, Password, SessionRow
      <4>2. QED
        BY <3>4, <4>1, NoneAssumption
    <3>6. \A s \in sessions : opener'[s.id] = opener[s.id]
      BY <3>1, <3>5 DEF Typed, TypeOK
    <3>7. opener'[sid] = p.secret
      BY <3>1, <3>3, <3>4 DEF Typed, TypeOK
    <3>8. SessionLineage'
      BY <3>1, <3>2, <3>3, <3>6, <3>7 DEF SessionLineage
    <3>9. PrimaryKeys'
      BY <3>1, <3>2, <3>5 DEF PrimaryKeys
    <3>10. QED
      BY <3>2, <3>8, <3>9 DEF PasswordLineage, enabled_account
  <2>3. QED
    BY <2>1, <2>2
<1>12. ASSUME NEW token \in tokens, refresh_session(token) PROVE Lineage'
  <2>1. CASE TokenResult(token, "refresh") # "ok"
    BY <1>5, <1>12, <2>1 DEF refresh_session
  <2>2. CASE TokenResult(token, "refresh") = "ok"
    <3>1. PICK jti \in FreshJtis :
            sessions' =
              {IF s.id = token.sid /\ s.refresh_jti = token.jti
               THEN [s EXCEPT !.refresh_jti = jti] ELSE s : s \in sessions}
      BY <1>12, <2>2 DEF refresh_session
    <3>2. UNCHANGED <<account, passwords, evidence, issued, opener>>
      BY <1>12, <2>2 DEF refresh_session
    <3>3. \A r \in sessions' : \E s \in sessions :
            /\ r.id = s.id /\ r.password_name = s.password_name
            /\ r = IF s.id = token.sid /\ s.refresh_jti = token.jti
                   THEN [s EXCEPT !.refresh_jti = jti] ELSE s
      BY <3>1 DEF Typed, TypeOK, SessionRow
    <3>4. SessionLineage'
      BY <3>2, <3>3 DEF SessionLineage
    <3>5. PrimaryKeys'
      BY <3>2, <3>3 DEF PrimaryKeys
    <3>6. QED
      BY <3>2, <3>4, <3>5 DEF PasswordLineage, enabled_account
  <2>3. QED
    BY <2>1, <2>2
<1>13. ASSUME NEW token \in tokens, delete_session(token) PROVE Lineage'
  <2>1. CASE TokenResult(token, "refresh") # "ok"
    BY <1>5, <1>13, <2>1 DEF delete_session
  <2>2. CASE TokenResult(token, "refresh") = "ok"
    BY <1>13, <2>2 DEF delete_session, PasswordLineage, SessionLineage,
                       PrimaryKeys, enabled_account
  <2>3. QED
    BY <2>1, <2>2
<1>14. QED
  BY <1>1, <1>2, <1>3, <1>4, <1>6, <1>7, <1>8, <1>9, <1>10, <1>11, <1>12,
     <1>13 DEF Next

-----------------------------------------------------------------------------
(* The third layer: tokens and rows.                                       *)

(* A new store has handed out no token.                                    *)
LEMMA TokenRowsInit == Init => TokenRows
BY DEF Init, TokenRows, LifetimeIsAbsolute

(* Steps that hand out no token and only delete sessions.                  *)
LEMMA TokenRowsShrink ==
  ASSUME TokenRows, sessions' \subseteq sessions,
         sessions' # {} => account'.identity = account.identity,
         sessions' # {} => UNCHANGED jwt_key,
         UNCHANGED <<tokens, opener, deadline, consumed>>
  PROVE  TokenRows'
BY DEF TokenRows, LifetimeIsAbsolute

(* The account behind a session row is enabled, so the store has its key.  *)
LEMMA SessionsAreOfEnabled ==
  ASSUME Lineage, sessions # {}
  PROVE  account # None /\ account.enabled
BY EnabledAccount DEF Lineage, SessionLineage, PasswordLineage

(* Every operation keeps tokens and session rows in step.                  *)
LEMMA TokenRowsStep ==
  Typed /\ Lineage /\ TokenRows /\ [Next]_vars => TokenRows'
<1> SUFFICES ASSUME Typed, Lineage, TokenRows, [Next]_vars PROVE TokenRows'
  OBVIOUS
<1>0. ASSUME UNCHANGED <<account, sessions, jwt_key, tokens, opener, deadline,
                         consumed>>
      PROVE  TokenRows'
  BY <1>0, TokenRowsShrink
<1>1. CASE UNCHANGED vars
  BY <1>0, <1>1 DEF vars, durable, history
<1>2. CASE open
  <2>1. sessions # {} => jwt_key # None
    BY NoneAssumption DEF TokenRows, Typed, TypeOK, Token
  <2>2. QED
    BY <1>2, <2>1, TokenRowsShrink DEF open, TokenKey, history
<1>3. CASE Stop
  BY <1>0, <1>3 DEF Stop, durable, history
<1>4. CASE Tick
  BY <1>0, <1>4 DEF Tick, durable, history
<1>5. ASSUME NEW error, Fail(error) PROVE TokenRows'
  BY <1>0, <1>5 DEF Fail, durable, history
<1>6. ASSUME NEW fid \in Fids, NEW authority \in Authorities,
             NEW identity \in Identities, bind_verified(fid, authority, identity)
      PROVE  TokenRows'
  <2>1. CASE BindResult(fid, authority, identity) # "ok"
    BY <1>5, <1>6, <2>1 DEF bind_verified
  <2>2. CASE BindResult(fid, authority, identity) = "ok"
    <3>1. UNCHANGED <<sessions, jwt_key, tokens, opener, deadline, consumed>>
      BY <1>6, <2>2 DEF bind_verified, history
    <3>2. sessions # {} => account'.identity = account.identity
      BY <1>6, <2>2, SessionsAreOfEnabled DEF bind_verified, Typed, TypeOK, Account
    <3>3. QED
      BY <3>1, <3>2, TokenRowsShrink
  <2>3. QED
    BY <2>1, <2>2
<1>7. ASSUME NEW document \in Documents, set_evidence(document) PROVE TokenRows'
  BY <1>0, <1>5, <1>7 DEF set_evidence, history
<1>8. CASE invalidate_authority
  <2>1. CASE account = None
    BY <1>5, <1>8, <2>1 DEF invalidate_authority
  <2>2. CASE account # None
    <3>1. sessions' = {} /\ UNCHANGED <<tokens, opener, deadline, consumed>>
      BY <1>8, <2>2 DEF invalidate_authority, DeletePasswords, history
    <3>2. QED
      BY <3>1, TokenRowsShrink
  <2>3. QED
    BY <2>1, <2>2
<1>9. ASSUME NEW name \in Names, issue_password(name) PROVE TokenRows'
  BY <1>0, <1>5, <1>9 DEF issue_password
<1>10. ASSUME NEW name \in Names, revoke_password(name) PROVE TokenRows'
  <2>1. CASE ~valid_name(name)
    BY <1>5, <1>10, <2>1 DEF revoke_password
  <2>2. CASE valid_name(name)
    <3>1. /\ sessions' \subseteq sessions
          /\ UNCHANGED <<account, jwt_key, tokens, opener, deadline, consumed>>
      BY <1>10, <2>2 DEF revoke_password, DeletePasswords, history
    <3>2. QED
      BY <3>1, TokenRowsShrink
  <2>3. QED
    BY <2>1, <2>2
<1>11. ASSUME NEW identifier \in Identities, NEW i \in issued,
              authenticate(identifier, i.secret)
       PROVE  TokenRows'
  <2>1. CASE AuthenticateResult(identifier, i.secret) # "ok"
    BY <1>5, <1>11, <2>1 DEF authenticate
  <2>2. CASE AuthenticateResult(identifier, i.secret) = "ok"
    <3> DEFINE expires == now + REFRESH_SECONDS
    <3>1. PICK p \in verify_password(identifier, i.secret),
               sid \in FreshSids, jti \in FreshJtis :
            /\ sessions' = {s \in sessions : s.refresh_exp > now} \cup
                 {[id |-> sid, password_name |-> p.name,
                   refresh_jti |-> jti, refresh_exp |-> expires]}
            /\ tokens' = tokens \cup create_session(sid, jti, expires)
            /\ opener' = [opener EXCEPT ![sid] = i.secret]
            /\ deadline' = [deadline EXCEPT ![sid] = expires]
      BY <1>11, <2>2 DEF authenticate, UnexpiredSessions
    <3> DEFINE row == [id |-> sid, password_name |-> p.name,
                       refresh_jti |-> jti, refresh_exp |-> expires]
               refresh == [key |-> jwt_key, kind |-> "refresh",
                           sub |-> account.identity, sid |-> sid,
                           jti |-> jti, iat |-> now, exp |-> expires]
    <3>2. UNCHANGED <<account, jwt_key, consumed>>
      BY <1>11, <2>2 DEF authenticate
    <3>3. /\ sid \in Sids /\ opener[sid] = None
          /\ jti \in Jtis /\ \A t \in tokens : t.jti # jti
      BY DEF FreshSids, FreshJtis
    <3>4. /\ now \in Nat /\ expires \in Nat /\ i.secret \in Secrets
          /\ opener \in [Sids -> Secrets \cup {None}]
          /\ deadline \in [Sids -> Nat]
      BY BoundsAssumption DEF Typed, TypeOK, Clock, Issued
    <3>5. \A t \in tokens : t.sid \in Sids /\ t.sid # sid
      BY <3>3 DEF TokenRows, Typed, TypeOK, Token
    <3>6. \A s \in sessions : s.id # sid
      BY <3>5 DEF TokenRows
    <3>7. \A t \in create_session(sid, jti, expires) :
            t.sid = sid /\ t.exp <= expires
      BY <3>4, BoundsAssumption DEF create_session, Earlier
    <3>8. \A t \in tokens' : opener'[t.sid] # None
      BY <3>1, <3>3, <3>4, <3>5, <3>7, NoneAssumption DEF TokenRows
    <3>9. LifetimeIsAbsolute'
      <4>1. /\ \A t \in tokens : t.exp <= deadline[t.sid]
            /\ \A s \in sessions : s.refresh_exp = deadline[s.id]
        BY DEF TokenRows, LifetimeIsAbsolute
      <4>2. /\ deadline'[sid] = expires
            /\ \A x \in Sids : x # sid => deadline'[x] = deadline[x]
        BY <3>1, <3>3, <3>4
      <4>3. ASSUME NEW t \in tokens' PROVE t.exp <= deadline'[t.sid]
        <5>1. CASE t \in tokens
          BY <3>5, <4>1, <4>2, <5>1
        <5>2. CASE t \in create_session(sid, jti, expires)
          BY <3>7, <4>2, <5>2
        <5>3. QED
          BY <3>1, <5>1, <5>2
      <4>4. ASSUME NEW s \in sessions' PROVE s.refresh_exp = deadline'[s.id]
        <5>1. CASE s \in sessions
          BY <3>6, <4>1, <4>2, <5>1 DEF Typed, TypeOK, SessionRow
        <5>2. CASE s = row
          BY <4>2, <5>2
        <5>3. QED
          BY <3>1, <5>1, <5>2
      <4>5. QED
        BY <4>3, <4>4 DEF LifetimeIsAbsolute
    <3>10. ASSUME NEW s \in sessions'
           PROVE  \E t \in tokens' :
             /\ t.kind = "refresh" /\ t.sid = s.id /\ t.jti = s.refresh_jti
             /\ t.exp = s.refresh_exp
             /\ t.key = jwt_key' /\ t.sub = account'.identity
             /\ t.iat < t.exp /\ t.exp - t.iat <= REFRESH_SECONDS
      <4>1. CASE s \in sessions
        BY <3>1, <3>2, <4>1 DEF TokenRows
      <4>2. CASE s = row
        <5>1. refresh \in tokens'
          BY <3>1 DEF create_session
        <5>2. refresh.iat < refresh.exp
              /\ refresh.exp - refresh.iat <= REFRESH_SECONDS
          BY <3>4, BoundsAssumption
        <5>3. QED
          BY <3>2, <4>2, <5>1, <5>2
      <4>3. QED
        BY <3>1, <4>1, <4>2
    <3>11. \A s \in sessions' : s.refresh_jti \notin consumed'
      <4>1. jti \notin consumed
        BY <3>3 DEF TokenRows
      <4>2. QED
        BY <3>1, <3>2, <4>1 DEF TokenRows
    <3>12. \A j \in consumed' : \E t \in tokens' : t.jti = j
      BY <3>1, <3>2 DEF TokenRows
    <3>13. ASSUME NEW t \in tokens', NEW u \in tokens', t.kind = "refresh",
                  u.kind = "refresh", t.jti = u.jti
           PROVE  t.sid = u.sid
      <4>1. \A v \in create_session(sid, jti, expires) :
              v.kind = "refresh" => v.jti = jti /\ v.sid = sid
        BY DEF create_session
      <4>2. QED
        BY <3>13, <3>1, <3>3, <4>1 DEF TokenRows
    <3>14. QED
      BY <3>8, <3>9, <3>10, <3>11, <3>12, <3>13 DEF TokenRows
  <2>3. QED
    BY <2>1, <2>2
<1>12. ASSUME NEW token \in tokens, refresh_session(token) PROVE TokenRows'
  <2>1. CASE TokenResult(token, "refresh") # "ok"
    BY <1>5, <1>12, <2>1 DEF refresh_session
  <2>2. CASE TokenResult(token, "refresh") = "ok"
    <3>1. PICK jti \in FreshJtis :
            /\ tokens' = tokens \cup create_session(token.sid, jti, token.exp)
            /\ sessions' =
                 {IF s.id = token.sid /\ s.refresh_jti = token.jti
                  THEN [s EXCEPT !.refresh_jti = jti] ELSE s : s \in sessions}
      BY <1>12, <2>2 DEF refresh_session
    <3> DEFINE refresh == [key |-> jwt_key, kind |-> "refresh",
                           sub |-> account.identity, sid |-> token.sid,
                           jti |-> jti, iat |-> now, exp |-> token.exp]
    <3>2. /\ UNCHANGED <<account, jwt_key, opener, deadline>>
          /\ consumed' = consumed \cup {token.jti}
      BY <1>12, <2>2 DEF refresh_session
    <3>3. PICK own \in sessions :
            /\ own.id = token.sid
            /\ own.refresh_jti = token.jti /\ own.refresh_exp = token.exp
      BY <2>2, AcceptedToken
    <3>4. /\ token \in Token /\ sessions \subseteq SessionRow /\ now \in Nat
          /\ jti \in Jtis /\ \A t \in tokens : t.jti # jti
      BY DEF Typed, TypeOK, Clock, FreshJtis
    <3>5. token.iat \in Nat /\ token.exp \in Nat
      BY <3>4 DEF Token
    <3>6. /\ token.iat <= now /\ now < token.exp
          /\ token.exp - token.iat <= REFRESH_SECONDS
      BY <2>2, <3>4, <3>5, AcceptedToken, BoundsAssumption DEF Lifetime
    <3>7. \A t \in create_session(token.sid, jti, token.exp) :
            t.sid = token.sid /\ t.exp <= token.exp
      BY <3>4, <3>5, BoundsAssumption DEF create_session, Earlier
    <3>8. \A r \in sessions' :
            \/ r \in sessions /\ r.id # token.sid
            \/ /\ r.id = token.sid /\ r.refresh_jti = jti
               /\ r.refresh_exp = token.exp
      <4>1. ASSUME NEW r \in sessions'
            PROVE  \/ r \in sessions /\ r.id # token.sid
                   \/ /\ r.id = token.sid /\ r.refresh_jti = jti
                      /\ r.refresh_exp = token.exp
        <5>1. PICK s \in sessions :
                r = IF s.id = token.sid /\ s.refresh_jti = token.jti
                    THEN [s EXCEPT !.refresh_jti = jti] ELSE s
          BY <3>1, <4>1
        <5>2. CASE s.id # token.sid
          BY <5>1, <5>2
        <5>3. CASE s.id = token.sid
          <6>1. s = own
            BY <3>3, <5>3 DEF Lineage, PrimaryKeys
          <6>2. r = [own EXCEPT !.refresh_jti = jti]
            BY <3>3, <5>1, <5>3, <6>1
          <6>3. QED
            BY <3>3, <3>4, <6>2 DEF SessionRow
        <5>4. QED
          BY <5>2, <5>3
      <4>2. QED
        BY <4>1
    <3>9. \A t \in tokens' : opener'[t.sid] # None
      BY <3>1, <3>2, <3>7 DEF TokenRows
    <3>10. LifetimeIsAbsolute'
      <4>1. /\ \A t \in tokens : t.exp <= deadline[t.sid]
            /\ \A s \in sessions : s.refresh_exp = deadline[s.id]
        BY DEF TokenRows, LifetimeIsAbsolute
      <4>2. token.exp = deadline[token.sid]
        BY <3>3, <4>1
      <4>3. \A t \in tokens' : t.exp <= deadline[t.sid]
        BY <3>1, <3>7, <4>1, <4>2
      <4>4. \A s \in sessions' : s.refresh_exp = deadline[s.id]
        BY <3>8, <4>1, <4>2
      <4>5. QED
        BY <3>2, <4>3, <4>4 DEF LifetimeIsAbsolute
    <3>11. ASSUME NEW s \in sessions'
           PROVE  \E t \in tokens' :
             /\ t.kind = "refresh" /\ t.sid = s.id /\ t.jti = s.refresh_jti
             /\ t.exp = s.refresh_exp
             /\ t.key = jwt_key' /\ t.sub = account'.identity
             /\ t.iat < t.exp /\ t.exp - t.iat <= REFRESH_SECONDS
      <4>1. CASE s \in sessions /\ s.id # token.sid
        BY <3>1, <3>2, <4>1 DEF TokenRows
      <4>2. CASE /\ s.id = token.sid /\ s.refresh_jti = jti
                 /\ s.refresh_exp = token.exp
        <5>1. refresh \in tokens'
          BY <3>1 DEF create_session
        <5>2. refresh.iat < refresh.exp
              /\ refresh.exp - refresh.iat <= REFRESH_SECONDS
          BY <3>4, <3>5, <3>6, BoundsAssumption
        <5>3. QED
          BY <3>2, <4>2, <5>1, <5>2
      <4>3. QED
        BY <3>8, <4>1, <4>2
    <3>12. ASSUME NEW s \in sessions' PROVE s.refresh_jti \notin consumed'
      <4>1. jti \notin consumed /\ jti # token.jti
        BY <3>4 DEF TokenRows
      <4>2. CASE s \in sessions /\ s.id # token.sid
        <5>1. PICK t \in tokens : t.kind = "refresh" /\ t.sid = s.id
                                  /\ t.jti = s.refresh_jti
          BY <4>2 DEF TokenRows
        <5>2. token.kind = "refresh"
          BY <2>2, AcceptedToken
        <5>3. s.refresh_jti # token.jti
          BY <4>2, <5>1, <5>2 DEF TokenRows
        <5>4. QED
          BY <3>2, <4>2, <5>3 DEF TokenRows
      <4>3. CASE s.refresh_jti = jti
        BY <3>2, <4>1, <4>3
      <4>4. QED
        BY <3>8, <4>2, <4>3
    <3>13. \A j \in consumed' : \E t \in tokens' : t.jti = j
      BY <3>1, <3>2 DEF TokenRows
    <3>14. ASSUME NEW t \in tokens', NEW u \in tokens', t.kind = "refresh",
                  u.kind = "refresh", t.jti = u.jti
           PROVE  t.sid = u.sid
      <4>1. \A v \in create_session(token.sid, jti, token.exp) :
              v.kind = "refresh" => v.jti = jti /\ v.sid = token.sid
        BY DEF create_session
      <4>2. QED
        BY <3>14, <3>1, <3>4, <4>1 DEF TokenRows
    <3>15. QED
      BY <3>9, <3>10, <3>11, <3>12, <3>13, <3>14 DEF TokenRows
  <2>3. QED
    BY <2>1, <2>2
<1>13. ASSUME NEW token \in tokens, delete_session(token) PROVE TokenRows'
  <2>1. CASE TokenResult(token, "refresh") # "ok"
    BY <1>5, <1>13, <2>1 DEF delete_session
  <2>2. CASE TokenResult(token, "refresh") = "ok"
    <3>1. /\ sessions' = {s \in sessions : s.id # token.sid}
          /\ consumed' = consumed \cup {token.jti}
          /\ UNCHANGED <<account, jwt_key, tokens, opener, deadline>>
      BY <1>13, <2>2 DEF delete_session
    <3>2. token.kind = "refresh"
      BY <2>2, AcceptedToken
    <3>3. \A s \in sessions' : s.refresh_jti # token.jti
      BY <3>1, <3>2 DEF TokenRows
    <3>4. QED
      BY <3>1, <3>3 DEF TokenRows, LifetimeIsAbsolute
  <2>3. QED
    BY <2>1, <2>2
<1>14. QED
  BY <1>1, <1>2, <1>3, <1>4, <1>6, <1>7, <1>8, <1>9, <1>10, <1>11, <1>12,
     <1>13 DEF Next

-----------------------------------------------------------------------------
(* What the layers give.                                                   *)

(* The three layers hold in every reachable state.                         *)
LEMMA Inductive == Spec => []IInv
<1>1. Init => IInv
  BY TypedInit, LineageInit, TokenRowsInit DEF IInv
<1>2. IInv /\ [Next]_vars => IInv'
  BY TypedStep, LineageStep, TokenRowsStep DEF IInv
<1>3. QED
  BY <1>1, <1>2, PTL DEF Spec

(* Whatever is revoked, invalidated, re-bound or issued again under an old *)
(* name, a token the store accepts traces back to a password still listed  *)
(* and issued under the present authority (revoke_password and             *)
(* invalidate_authority rely on the cascade from passwords to sessions).   *)
THEOREM Revocation == Spec => []AcceptedTokensHaveLivePasswords
<1>1. IInv => AcceptedTokensHaveLivePasswords
  <2> SUFFICES ASSUME IInv, NEW t \in tokens, Accepted(t)
               PROVE  \E p \in passwords, i \in issued :
                        /\ p.secret = opener[t.sid]
                        /\ i.secret = p.secret
                        /\ i.authority = account.authority
    BY DEF AcceptedTokensHaveLivePasswords
  <2>1. PICK s \in sessions : s.id = t.sid
    BY AcceptedToken DEF Accepted
  <2>2. PICK p \in passwords : p.secret = opener[s.id]
    BY DEF IInv, Lineage, SessionLineage
  <2>3. PICK i \in issued : i.secret = p.secret /\ i.authority = account.authority
    BY DEF IInv, Lineage, PasswordLineage
  <2>4. QED
    BY <2>1, <2>2, <2>3
<1>2. QED
  BY Inductive, <1>1, PTL

(* After invalidate_authority nothing usable is left, and nothing can be   *)
(* added before the next bind_verified.                                    *)
THEOREM Disabling == Spec => []DisabledIsBare
<1>1. IInv => DisabledIsBare
  BY DEF IInv, Lineage, PasswordLineage, SessionLineage, DisabledIsBare,
         enabled_account
<1>2. QED
  BY Inductive, <1>1, PTL

(* refresh_session and delete_session consume their token for good.        *)
THEOREM SingleUse == Spec => []NoReplay
<1>1. IInv => NoReplay
  <2> SUFFICES ASSUME IInv, NEW t \in tokens, t.kind = "refresh", Accepted(t)
               PROVE  t.jti \notin consumed
    BY DEF NoReplay
  <2>1. PICK s \in sessions : s.refresh_jti = t.jti
    BY AcceptedToken DEF Accepted
  <2>2. QED
    BY <2>1 DEF IInv, TokenRows
<1>2. QED
  BY Inductive, <1>1, PTL

(* Rotation never extends a session: every token handed out for it, and    *)
(* its row, keep to the expiry authenticate opened it with, because        *)
(* refresh_session passes the expiry of a token that matches the row on to *)
(* create_session and leaves the row's alone.                              *)
THEOREM AbsoluteLifetime == Spec => []LifetimeIsAbsolute
<1>1. IInv => LifetimeIsAbsolute
  BY DEF IInv, TokenRows
<1>2. QED
  BY Inductive, <1>1, PTL

(* The pair handed out last works until the session expires: no restart,   *)
(* rotation or clock change strands a live session.                        *)
THEOREM NoStranding == Spec => []LiveSessionsAreRefreshable
<1>1. IInv => LiveSessionsAreRefreshable
  <2> SUFFICES ASSUME IInv, NEW s \in sessions
               PROVE  \E t \in tokens :
                 /\ t.kind = "refresh" /\ t.sid = s.id /\ t.jti = s.refresh_jti
                 /\ t.iat <= now /\ now < s.refresh_exp => Accepted(t)
    BY DEF LiveSessionsAreRefreshable
  <2>1. PICK t \in tokens :
          /\ t.kind = "refresh" /\ t.sid = s.id /\ t.jti = s.refresh_jti
          /\ t.exp = s.refresh_exp
          /\ t.key = jwt_key /\ t.sub = account.identity
          /\ t.iat < t.exp /\ t.exp - t.iat <= REFRESH_SECONDS
    BY DEF IInv, TokenRows
  <2>2. /\ t.iat \in Nat /\ t.exp \in Nat /\ now \in Nat
        /\ enabled_account = "ok"
    BY DEF IInv, Typed, TypeOK, Token, Clock, Lineage, SessionLineage,
           PasswordLineage
  <2>3. ASSUME t.iat <= now, now < s.refresh_exp PROVE Accepted(t)
    <3>1. verify_token(t, "refresh") = "ok"
      BY <2>1, <2>2, <2>3, BoundsAssumption DEF verify_token, Lifetime
    <3>2. validate_session(t, TRUE) = "ok"
      BY <2>1, <2>2, <2>3 DEF validate_session
    <3>3. QED
      BY <2>1, <2>2, <3>1, <3>2 DEF Accepted, TokenResult
  <2>4. QED
    BY <2>1, <2>3
<1>2. QED
  BY Inductive, <1>1, PTL

(* bind_verified never moves a bound account to another FID, identity or   *)
(* repository key, nor an enabled one to another authority, and no other   *)
(* operation touches them.                                                 *)
THEOREM StableBinding == Spec => BindingIsStable
<1>1. TypeOK /\ [Next]_vars => [KeepsBinding]_vars
  <2> SUFFICES ASSUME TypeOK, Next, account # None PROVE KeepsBinding
    BY DEF KeepsBinding
  <2> USE DEF KeepsBinding
  <2>1. account \in Account
    BY DEF TypeOK
  <2>2. ASSUME UNCHANGED account PROVE KeepsBinding
    BY <2>2
  <2>3. ASSUME NEW fid, NEW authority \in Authorities, NEW identity,
               bind_verified(fid, authority, identity)
        PROVE  KeepsBinding
    <3>1. CASE UNCHANGED account
      BY <3>1
    <3>2. CASE /\ BindResult(fid, authority, identity) = "ok"
               /\ account' = [account EXCEPT !.enabled = TRUE,
                                             !.authority = authority]
      <4>1. account' # None
        BY <2>1, <3>2, NoneAssumption
           DEF Account, BindResult, valid_authority, Valid
      <4>2. account.enabled => account.authority = authority
        BY <2>1, <3>2 DEF BindResult, BindingConflict
      <4>3. QED
        BY <2>1, <3>2, <4>1, <4>2 DEF Account
    <3>3. QED
      BY <2>3, <3>1, <3>2 DEF bind_verified, Fail, durable
  <2>4. CASE invalidate_authority
    <3>1. CASE UNCHANGED account
      BY <3>1
    <3>2. CASE account' = [account EXCEPT !.enabled = FALSE]
      <4>1. account' \in Account
        BY <2>1, <3>2 DEF Account
      <4>2. QED
        BY <2>1, <3>2, <4>1, NoneAssumption DEF Account
    <3>3. QED
      BY <2>4, <3>1, <3>2 DEF invalidate_authority
  <2>5. QED
    BY <2>2, <2>3, <2>4
       DEF Next, open, Stop, Tick, set_evidence, issue_password,
           revoke_password, authenticate, refresh_session, delete_session,
           Fail, durable
<1>2. QED
  BY TypeCorrect, <1>1, PTL DEF Spec, BindingIsStable

-----------------------------------------------------------------------------
(* The budgets of the two tables.                                          *)

(* The tables are finite and within their budgets, and a refusal for want  *)
(* of room tells the truth of the state it was given in.                   *)
Budgets ==
  /\ IsFiniteSet(passwords) /\ IsFiniteSet(sessions)
  /\ LimitIsTruthful

(* Deleting rows stays within a budget.                                    *)
LEMMA FewerRows ==
  ASSUME NEW rows, NEW kept, NEW max \in Nat, IsFiniteSet(rows),
         Cardinality(rows) <= max, kept \subseteq rows
  PROVE  IsFiniteSet(kept) /\ Cardinality(kept) <= max
<1>1. /\ IsFiniteSet(kept) /\ Cardinality(kept) <= Cardinality(rows)
      /\ Cardinality(kept) \in Nat /\ Cardinality(rows) \in Nat
  BY FS_Subset, FS_CardinalityType
<1> QED
  BY <1>1

(* One more row fits where there is room.                                  *)
LEMMA OneMoreRow ==
  ASSUME NEW rows, NEW row, NEW max \in Nat, IsFiniteSet(rows),
         ~(Cardinality(rows) >= max)
  PROVE  /\ IsFiniteSet(rows \cup {row})
         /\ Cardinality(rows \cup {row}) <= max
<1>1. /\ IsFiniteSet(rows \cup {row})
      /\ \/ Cardinality(rows \cup {row}) = Cardinality(rows)
         \/ Cardinality(rows \cup {row}) = Cardinality(rows) + 1
      /\ Cardinality(rows) \in Nat
  BY FS_AddElement, FS_CardinalityType
<1> QED
  BY <1>1

(* A step that is not refused for want of room keeps the budgets if both   *)
(* tables stay within them.                                                *)
LEMMA RoomyStep ==
  ASSUME limited' = "no",
         IsFiniteSet(passwords'), Cardinality(passwords') <= MAX_PASSWORDS,
         IsFiniteSet(sessions'), Cardinality(sessions') <= MAX_SESSIONS
  PROVE  Budgets'
BY DEF Budgets, LimitIsTruthful

(* Every operation keeps to the budgets: issue_password and authenticate   *)
(* count before they insert, and every other call only deletes or replaces *)
(* rows.                                                                   *)
LEMMA BudgetsStep == Budgets /\ [Next]_vars => Budgets'
<1> SUFFICES ASSUME Budgets, [Next]_vars PROVE Budgets'
  OBVIOUS
<1>0. /\ MAX_PASSWORDS \in Nat /\ MAX_SESSIONS \in Nat
      /\ IsFiniteSet(passwords) /\ IsFiniteSet(sessions)
      /\ Cardinality(passwords) <= MAX_PASSWORDS
      /\ Cardinality(sessions) <= MAX_SESSIONS
      /\ Cardinality(passwords) \in Nat /\ Cardinality(sessions) \in Nat
  BY BoundsAssumption, FS_CardinalityType DEF Budgets, LimitIsTruthful
<1>1. CASE UNCHANGED vars
  BY <1>1 DEF vars, durable, Budgets, LimitIsTruthful
<1>2. ASSUME NEW error, Fail(error),
             error = "PasswordLimit" =>
               Cardinality(passwords) >= MAX_PASSWORDS,
             error = "SessionLimit" =>
               Cardinality(UnexpiredSessions) >= MAX_SESSIONS
      PROVE  Budgets'
  <2>1. /\ UNCHANGED <<passwords, sessions, now>>
        /\ limited' = "PasswordLimit" => error = "PasswordLimit"
        /\ limited' = "SessionLimit" => error = "SessionLimit"
    BY <1>2 DEF Fail, durable, Limits
  <2>2. /\ Cardinality(UnexpiredSessions) \in Nat
        /\ Cardinality(UnexpiredSessions) <= MAX_SESSIONS
    BY <1>0, FewerRows, FS_CardinalityType DEF UnexpiredSessions
  <2>3. UnexpiredSessions' = UnexpiredSessions
    BY <2>1 DEF UnexpiredSessions
  <2>4. limited' = "PasswordLimit" =>
          Cardinality(passwords) = MAX_PASSWORDS
    BY <1>0, <1>2, <2>1
  <2>5. limited' = "SessionLimit" =>
          Cardinality(UnexpiredSessions) = MAX_SESSIONS
    BY <1>0, <1>2, <2>1, <2>2
  <2> QED
    BY <1>0, <2>1, <2>3, <2>4, <2>5
       DEF Budgets, LimitIsTruthful, UnexpiredSessions
<1>3. ASSUME limited' = "no", UNCHANGED <<passwords, sessions>>
      PROVE  Budgets'
  BY <1>0, <1>3, RoomyStep
<1>4. enabled_account \notin Limits
  BY DEF enabled_account, Limits
<1>5. CASE open \/ Stop \/ Tick
  BY <1>3, <1>5 DEF open, Stop, Tick, durable
<1>6. ASSUME NEW fid, NEW authority, NEW identity,
             bind_verified(fid, authority, identity)
      PROVE  Budgets'
  <2>1. BindResult(fid, authority, identity) \notin Limits
    BY DEF BindResult, Limits
  <2> QED
    BY <1>2, <1>3, <1>6, <2>1 DEF bind_verified, Limits
<1>7. ASSUME NEW document, set_evidence(document) PROVE Budgets'
  <2>1. CASE limited' = "no" /\ UNCHANGED <<passwords, sessions>>
    BY <1>3, <2>1
  <2>2. CASE Fail("InvalidInput") \/ Fail(enabled_account)
    BY <1>2, <1>4, <2>2 DEF Limits
  <2> QED
    BY <1>7, <2>1, <2>2 DEF set_evidence
<1>8. ASSUME NEW kept, kept \subseteq passwords, DeletePasswords(kept),
             limited' = "no"
      PROVE  Budgets'
  <2>1. passwords' \subseteq passwords /\ sessions' \subseteq sessions
    BY <1>8 DEF DeletePasswords
  <2> QED
    BY <1>0, <1>8, <2>1, FewerRows, RoomyStep
<1>9. CASE invalidate_authority
  <2>1. CASE Fail("NotBound")
    BY <1>2, <2>1
  <2>2. CASE DeletePasswords({}) /\ limited' = "no"
    BY <1>8, <2>2
  <2> QED
    BY <1>9, <2>1, <2>2 DEF invalidate_authority
<1>10. ASSUME NEW name, issue_password(name) PROVE Budgets'
  <2>1. CASE IssueResult(name) # "ok" /\ Fail(IssueResult(name))
    <3>1. IssueResult(name) = "PasswordLimit" =>
            Cardinality(passwords) >= MAX_PASSWORDS
      BY <1>4 DEF IssueResult, Limits
    <3>2. IssueResult(name) # "SessionLimit"
      BY <1>4 DEF IssueResult, Limits
    <3> QED
      BY <1>2, <2>1, <3>1, <3>2
  <2>2. CASE IssueResult(name) = "ok" /\ limited' = "no"
    <3>1. ~(Cardinality(passwords) >= MAX_PASSWORDS)
      BY <2>2, <1>4 DEF IssueResult
    <3>2. PICK row : passwords' = passwords \cup {row}
      BY <1>10, <2>2 DEF issue_password
    <3>3. sessions' = sessions
      BY <1>10, <2>2 DEF issue_password
    <3> QED
      BY <1>0, <2>2, <3>1, <3>2, <3>3, OneMoreRow, RoomyStep
  <2> QED
    BY <1>10, <2>1, <2>2 DEF issue_password
<1>11. ASSUME NEW name, revoke_password(name) PROVE Budgets'
  <2>1. CASE Fail("InvalidInput")
    BY <1>2, <2>1
  <2>2. CASE /\ DeletePasswords({p \in passwords : p.name # name})
             /\ limited' = "no"
    BY <1>8, <2>2
  <2> QED
    BY <1>11, <2>1, <2>2 DEF revoke_password
<1>12. ASSUME NEW identifier, NEW secret, authenticate(identifier, secret)
       PROVE  Budgets'
  <2> DEFINE result == AuthenticateResult(identifier, secret)
  <2>1. CASE result # "ok" /\ Fail(result)
    <3>1. /\ result # "PasswordLimit"
          /\ result = "SessionLimit" =>
               Cardinality(UnexpiredSessions) >= MAX_SESSIONS
      BY DEF AuthenticateResult
    <3> QED
      BY <1>2, <2>1, <3>1
  <2>2. CASE result = "ok" /\ limited' = "no"
    <3>1. ~(Cardinality(UnexpiredSessions) >= MAX_SESSIONS)
      BY <2>2 DEF AuthenticateResult
    <3>2. PICK row : sessions' = UnexpiredSessions \cup {row}
      BY <1>12, <2>2 DEF authenticate
    <3>3. passwords' = passwords
      BY <1>12, <2>2 DEF authenticate
    <3>4. IsFiniteSet(UnexpiredSessions)
      BY <1>0, FewerRows DEF UnexpiredSessions
    <3> QED
      BY <1>0, <2>2, <3>1, <3>2, <3>3, <3>4, OneMoreRow, RoomyStep
  <2> QED
    BY <1>12, <2>1, <2>2 DEF authenticate
<1>13. \A token, kind : TokenResult(token, kind) \notin Limits
  BY DEF TokenResult, verify_token, validate_session, Limits
<1>14. ASSUME NEW token, refresh_session(token) PROVE Budgets'
  <2>1. CASE Fail(TokenResult(token, "refresh"))
    BY <1>2, <1>13, <2>1 DEF Limits
  <2>2. CASE TokenResult(token, "refresh") = "ok" /\ limited' = "no"
    <3>1. PICK jti : sessions' =
            {IF s.id = token.sid /\ s.refresh_jti = token.jti
             THEN [s EXCEPT !.refresh_jti = jti] ELSE s : s \in sessions}
      BY <1>14, <2>2 DEF refresh_session
    <3> DEFINE row(s) == IF s.id = token.sid /\ s.refresh_jti = token.jti
                         THEN [s EXCEPT !.refresh_jti = jti] ELSE s
               rotate == [s \in sessions |-> row(s)]
    <3>2. sessions' = {row(s) : s \in sessions}
      BY <3>1
    <3> HIDE DEF row
    <3>3. rotate \in Surjection(sessions, sessions')
      BY <3>2 DEF Surjection
    <3>4. IsFiniteSet(sessions') /\ Cardinality(sessions') <= Cardinality(sessions)
      BY <1>0, <3>3, FS_Surjection
    <3>5. Cardinality(sessions') \in Nat /\ Cardinality(sessions') <= MAX_SESSIONS
      BY <1>0, <3>4, FS_CardinalityType
    <3>6. passwords' = passwords
      BY <1>14, <2>2 DEF refresh_session
    <3> QED
      BY <1>0, <2>2, <3>4, <3>5, <3>6, RoomyStep
  <2> QED
    BY <1>14, <2>1, <2>2 DEF refresh_session
<1>15. ASSUME NEW token, delete_session(token) PROVE Budgets'
  <2>1. CASE Fail(TokenResult(token, "refresh"))
    BY <1>2, <1>13, <2>1 DEF Limits
  <2>2. CASE TokenResult(token, "refresh") = "ok" /\ limited' = "no"
    <3>1. passwords' = passwords /\ sessions' \subseteq sessions
      BY <1>15, <2>2 DEF delete_session
    <3> QED
      BY <1>0, <2>2, <3>1, FewerRows, RoomyStep
  <2> QED
    BY <1>15, <2>1, <2>2 DEF delete_session
<1> QED
  BY <1>1, <1>5, <1>6, <1>7, <1>9, <1>10, <1>11, <1>12, <1>14, <1>15 DEF Next

(* Neither table outgrows its budget, whatever calls come in whatever      *)
(* order, and Error::Limit is returned only when the table it speaks of is *)
(* full of passwords or of unexpired sessions.                             *)
THEOREM LimitsTellTheTruth == Spec => []LimitIsTruthful
<1>1. Init => Budgets
  BY FS_EmptySet, BoundsAssumption DEF Init, Budgets, LimitIsTruthful
<1>2. Budgets => LimitIsTruthful
  BY DEF Budgets
<1> QED
  BY <1>1, <1>2, BudgetsStep, PTL DEF Spec
=============================================================================
