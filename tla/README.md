# PurpleSky worker: TLA+ models, model checks and proofs

PurpleSky (`psky`) runs a worker that binds one Farcaster account to an ATProto
identity.  A user signs in with a Farcaster wallet, the worker checks the
wallet's authority on Optimism, and the user then issues app passwords that
ATProto clients exchange for session tokens.  An operator manages the worker
through a local console.  Publishing is not implemented: repositories are empty
or come from an offline lab.

Paths below are relative to the repository root.

## 1. Inventory

| Component | State | Operations | Module |
| --- | --- | --- | --- |
| credential store, `crates/psky-credentials/src/lib.rs` | one SQLite file: account binding, app passwords, sessions, evidence, token key | open, bind_verified, set_evidence, invalidate_authority, issue/revoke/list passwords, authenticate, get/refresh/delete session | `Credentials` |
| account service, `crates/psky/src/account.rs` | in memory: pending sign-ins, grants, authority cache, attempt windows; settings; the store | Start, Poll, Passwords, Issue, Revoke, Login, Session, Refresh, Logout, reconfiguration, restart | `AccountNode`; attempt windows and poll spacing in `Limiter` and `AttemptLimit` |
| Farcaster authority client, `crates/psky-farcaster-auth/src/client.rs` | none (relay channels and registry are outside) | start, status, verify, recheck_identity | `AuthorityCheck`, implementing `AuthorityVerdict`; inside `AccountNode` as one step |
| Sign In With Farcaster message, `crates/psky-farcaster-auth/src/message.rs` | none | parse, parse_authority, time window | `SignInMessage` |
| management console, `crates/psky/src/server.rs` | running action, reports, journal, shutdown flag | status, config, update_config, preflight, reconstruct, finish, drain | `Console` |
| settings store, `crates/psky/src/settings.rs` | `settings.json` with a revision | open, replace, publish | `SettingsFile` by system call; inside `Console` as one step |
| listeners and signals, `crates/psky/src/main.rs` | two HTTP listeners | serve, shutdown | inside `Console` |
| journal, `crates/psky/src/journal.rs` | ring of numbered events | push, page | `LogFeed`, `FeedView` |
| repository library, `crates/psky-repo` | record set, Merkle search tree, commit, CAR | put, delete, build, verify, to_car | `Mst`, `Repository` |
| reconstruction lab, `crates/psky/src/lab.rs` | none | run | `Repository`, an action of `Console` |
| Hypersnap preflight, `crates/psky-hypersnap` | none | validate, run | `Preflight`, an action of `Console` |
| account page, `crates/psky/src/account.js` | grant, challenge, list, revealed password, generation | sign in, poll, list, create, revoke, leave the page | `AccountPortal` |
| console page, `crates/psky/src/console.js` | connection, draft and its revision, log list, generation | connect, poll, edit, save, reload, run | `ConfigForm` (form), `LogFeed` (log) |
| HTTP hardening, CLI arguments, styles | none | pure functions | not modelled |

How they meet.  The account service owns the store and serializes requests with
one mutex, `core`, taken with `try_lock` and kept over every await.  The console
has its own mutex, `control`.  `update_config` takes `control`, then awaits
`core`, so that a settings change and the login policy move together.  The relay
hands out a signed proof once; the RPC provider answers from some finalized
block, not always the newest.  Store operations are transactions of their own:
a sign-in by a new authority takes three.

What is hard.  Requests that stop between two transactions (crash, failed write,
25 second timeout); providers that lag; a wall clock that is set back; a
30 second authority cache; passwords whose names are used again while sessions
refer to names; single-use refresh tokens; a lock held over an await; settings
published before they are durable; shutdown that waits for a notification.
`PROJECT.json` lists each hazard at its line, with the properties aimed at it.

What makes each component correct:

* store: a token is accepted only if the password it came from is still listed
  and belongs to the present authority; refresh tokens work once; lifetimes are
  absolute; a live session is never stranded; limits are about live rows;
* account service: credentials only ever exist beside evidence for the bound
  authority; old registry states revoke nothing; a lost authority is noticed; a proof is
  not lost to a retryable failure; settings and binding agree;
* authority client: an answer is the judgement of one fresh finalized block that
  does not contradict the evidence, or an error on which nothing is revoked;
* attempt limits: the rate holds however the clock is moved, and nobody is
  refused for longer than the window and the set-back explain;
* settings file: whole after every power failure, reported saves durable, a
  document replaced only by a save checked against it;
* console: one policy on disk, in memory and in the binding; no silent
  overwrite; reports match the settings; shutdown ends;
* journal and log feed: no silent gap, no mixing of two processes' events, and a
  connected tab catches up;
* console form: no draft is lost, moved to another revision or falsely called
  stale;
* account page: late answers reveal nothing, the list never goes back, a sign-in
  ends;
* preflight: health is earned by every endpoint, duplicates are named, the newest
  custody is reported;
* repository: a record is accepted exactly within the limits, the tree is the
  canonical one for its records, exports are exact.

## 2. Modules

`Lists` has what three of them share: lists of anything, and what a loop keeps of
one (`Kept`, for `Vec::retain` and `filter`).

### Credentials

One action per operation of `Store`, plus `open`, `Stop` and `Tick`.  The
variables are the tables, the process and the clock, and history variables that
no operation reads: `issued` (passwords handed out), `tokens` (tokens handed
out, all still held by some client), `opener` (the password that opened each
session) and `consumed`.  `issued`, `tokens` and `opener` also keep random values
fresh, which stands for 256 random bits.  Operations that fail roll back; their
`...Result` operator says why, and the state keeps only which limit it was, if any.
Strings are members of constant sets with one `Malformed` member that fails
whatever check it meets.  Tokens are records rather than signed text: a token is
accepted only if it carries the store's key, so a client cannot make one up.

Definitions marked "Mutated form" are single plausible mistakes.  No
specification uses them: each is put in the place of the definition after it to
see that the properties notice.

### AccountNode

`op` is the one request under way and where it has stopped; between its steps
the clock, the registry, the relay, the provider and crashes move.  The
Farcaster registry is a history: one map from signer to custody address per
finalized block, and an answer may come from any block up to the head.  An
authority is a signer with its custody address, which is what `fingerprint`
hashes besides the FID.  The store is reduced to what matters here, binding,
evidence, password names and which of them have a live session; the effect of
every store call is the one of module `Credentials`.  `Refuse` stands for every
early return after the pruning of expired entries.

The calls of one verification are pinned to one block hash, hence one step: that
this is right is what `AuthorityCheck` shows.  Two blocks of equal height with
different hashes are left to that module as well.

### Limiter, AttemptLimit

`Limiter` is `limit` with its two lists of times, and the promises of the limits;
`AttemptLimit` has the requests that use it, the slots of pending sign-ins and the two
seconds between polls, on a clock that jumps ahead and is set back.  History
variables count how far the clock was moved ahead and back, so that the
properties can speak of the time that has really passed at most.  A restart
forgets the lists, and the history with them: the limits are per process.

### SignInMessage, AuthorityVerdict, AuthorityCheck

`AuthorityVerdict` is the promise: a question is answered in one step from one
block, or with an error that decides nothing.  `AuthorityCheck` is the client:
`verify` and `recheck_identity` are sequences of RPC calls (`chain`, `block`,
`code`, `erc1271`, `custody`, `key`, `id`), and between two of them blocks are
finalized, forks appear, the tip moves back to a node that lags, and calls fail.
`ImplementsVerdict` is the refinement: the call under way is the question, and
only its last step is seen.  `SignInMessage` has the checks on the message: which
proofs parse for a challenge at a time.  Text and signatures are classes: the
ones the checks tell apart.

### Console

`control` and `core` are the two mutexes.  All handlers other than
`update_config` are one step; `update_config` is `UpdateBegin` and one of its
ends.  `disk` is `settings.json` as processes see it and `survivors` the documents
a power failure may leave in its place: a rename is final only after the directory
sync.  The process may be killed between the two (`CrashDuringSave`), and the next
one takes the document as it finds it.  Power may fail at any time, also while no
process runs.  A settings document is reduced to its revision and its account
policy; the first one needs no survivors, because a start that finds none makes one
with the same default policy.  A browser tab is the document it has read last.
`undone` is history: whether a power failure has taken back a document that a
process had opened or gone on with.

### SettingsFile

`ConfigStore` by system call: processes that start together on an empty
directory, the temporary file, its synchronization, the link or rename that
names it, the synchronization of the directory; any of them fails, any process
ends anywhere, and the power fails.  `survivors` are the files the name may lead
to after a power failure.  An operator writes or removes the file while no
publication is under way.  As the code's comment demands, one process at a time
serves: the listeners keep the others out.  (Two nodes on one directory with
different listeners can both pass the check before either renames; nothing in the
code prevents it, and the model leaves it out.)

### FeedView, LogFeed

`FeedView` is what the operator sees of a journal, and what may be relied on;
`LogFeed` how it comes about: the journal's ring, its pages, and a console tab that follows it.  A refresh
sends the status and log requests together; each is answered, refused or lost on
its own, possibly by different processes, and the refresh is rendered when all
are settled.  (The third request of a refresh, the list of operations, changes
nothing here.)  A call remembers the tab's generation, which every connection
and disconnection raises; `instance_id`, random in the code, is a number.  `push`
stands for every place the worker logs an event.

### ConfigForm

A console tab's form against a worker that others use too.  A call is a request
the tab waits for (for connecting, a pair); `puts` are saves on their way, which
may arrive after the tab has given them up.  `draft` counts the edits made since
the fields were loaded and `base` is the revision they were loaded from, both
history.  The three requests of a poll are one here; that one of the other two is
refused is `PollRefused`.

### AccountPortal

The account page's closure as one record, the requests whose answers have not
been read, and the passwords stored at the node, numbered so that a list or a
password can be told from a later one of the same name.  One step is what a
script does between two awaits.

### Preflight

The whole of a preflight run: validation of the configuration, four requests per
endpoint with every way the client tells failures apart, the parsers' verdicts,
and the report.  The raw answers are kept beside it to judge the report by.  Which
answers there may be is the constant `Replies`; `WellFormed` ones have fields of the
types the parsers require.

### Mst, Repository

Recursive operators for the tree (`build`, with a block standing for its CID) and
for the acceptance of JSON values, compared with reference definitions that do not
follow the code: an in-order reading of the tree, the sum of sizes, the depth and
cost of a value.  Records are put and deleted; each state is also built, verified
and exported.  These modules declare RECURSIVE operators and carry no theorems.

## 3. Runs

Each run has the configuration of its module's `MC` module.

| Run | Instance | What it shows |
| --- | --- | --- |
| `credentials` | 2 FIDs, names and authorities, 1 identity, a malformed one of each, 2 secrets, passwords and sessions, 3 refresh ids, clock 0..3 with lifetimes 2 and 3 | AcceptedTokensHaveLivePasswords, NoReplay, LifetimeIsAbsolute, LiveSessionsAreRefreshable, LimitIsTruthful, BindingIsStable |
| `account` | 2 signers of one FID, 2 identities, 2 sign-ins, 2 blocks, clock 0..1, under fairness | CredentialsHaveEvidence, CacheSpeaksForAccount, BindingMatchesSettings, NoFalseRevocation, ProofIsRetained, LossIsNoticed |
| `console` | 2 tabs, 2 policies, 2 listeners, 3 revisions, syncs that fail, kills in the middle of a save, power failures, under fairness | LoginPolicyIsTheSavedOne, ReportsAreCurrent, NeverRefusesToStart, NoSilentOverwrite, DrainEnds |
| `log_feed` | ring and tab of 2 events, pages of 1, 3 events per process, 2 processes, 2 connections, under fairness | FeedIsFaithful, CatchesUp |
| `preflight` | 3 endpoints with 7 answers to `/v1/info` and 2 to `castsByFid`, or a timeout; 1 endpoint with every list of up to 3 shards and 2 registry events and every failure; every refused configuration | HealthyIsEarned, DuplicatesAreNamed, NewestCustodyIsReported |
| `repository` | 6 paths (5 valid, with shared prefixes), 13 values around every limit, digests of layers 0, 1 and 4 | PutIsJudgedRight, TreeIsCanonical, ExportIsExact |
| `portal` | 1 name, 3 generations, 3 changes at the node, 4 list requests, under fairness | LateAnswersRevealNothing, ListNeverGoesBack, SignInEnds |
| `authority` | 3 block hashes, 3 registry states after the first, custody wallet and key, 2 challenges, clock 0..1 | EvidenceIsRecheckable, ImplementsVerdict, ConsentIsFresh |
| `settings_form` | 3 revisions, 2 processes, 3 connections and disconnections, 2 edits, 1 save, 1 action | NoFalseAlarm, EditsSurvive, SavesReplaceTheirBase |
| `attempts` | 2 starts and 1 login per window of 2, 1 sign-in at a time, polls 2 apart, clock up to 5, set back by 2, 3 attempts each | RateHolds, RefusalsAreEarned, PollsAreSpaced |
| `settings_file` | 3 processes, 2 settings, 3 revisions, 4 publications | ReadableAfterPowerFailure, AckedSurvives, OnlyCheckedSavesReplace |
| `console_status` | as `console` | a counterexample to StatusStaysAvailable, section 6 |

Every module also states its type invariant, `TypeOK`.  It is no property of a run:
for every module but `Mst` and `Repository` it is a theorem.

Why the bounds are enough to be interesting.  In `credentials` a name, a session
slot and a limit are each used again: with two secrets a password is revoked and
its name issued anew; with three refresh ids a session is rotated twice or a
second one opened; the clock passes both lifetimes and goes back; with two
authorities the account is bound, disabled and bound again.  In `account` two
blocks give a registry change and a provider that has not seen it; two sign-ins
give a grant of one authority when another signs in; two identities give a change
of settings in the middle of a sign-in.  A sign-in by a signer of another FID is
refused before it changes anything, so both signers belong to one.  In `console`
three revisions give a save, its loss in a power failure and the same revision
again.  In `log_feed` three events in a ring of two give an eviction, and two
processes a cursor that means something else after the restart; the ratio of
ring, tab and page is the code's (200, 200, 100).

In `attempts` two windows fit before the clock's end and a set-back reaches behind
a whole window.  In `authority` three hashes give a chain of three blocks or a fork
of two, and two challenges an older proof for the relay to return.  In
`settings_file` three processes are one that serves, one that has opened the file
and one that is about to create it.  In `settings_form` a save, an edit after it,
another tab's save, a restart and a reconnection all fit; there the constraint
`FewCalls` leaves out states with more than two calls waiting, those of former
connections included: two are a late answer beside a present one.  In `repository`
every limit is hit from both sides: there are values accepted at exactly the greatest
depth, cost and encoded size, values refused just beyond each, and record sets full
by number and by total bytes; the digests put empty layers between a node and its child.

Symmetry is declared only over random values, block hashes, inputs of one kind,
processes and settings, and never in the runs that check liveness.  Deadlock is
not checked: finite sets of random values, blocks and revisions run out, and a
worker that has refused to start stays down.

Fairness (`FairSpec` in `Console`).  Weak fairness of `AccountEnd`: every account
request has a 25 second limit.  Strong fairness of the ends of an update, of
`finish` and of each `Drain`: each of them waits for a tokio mutex, which is
first come, first served, and actions have time limits of their own.  Nothing
is assumed of tabs, signals or crashes.

Fairness (`FairSpec` in `LogFeed`).  Weak fairness of `Refresh` (the five second
timer), of the loss of a request (12 second timeout) and of rendering; strong
fairness of answering a request of a refresh that has lost none so far: not
every refresh of a connection fails.  A tab that is never visible again, or a
worker that never answers, is outside what `CatchesUp` says.

Fairness (`FairSpec` in `AccountPortal`).  Requests are aborted after 20 seconds,
answers are read, the poll timer of 3 seconds fires, and a sign-in request expires.
Nothing is assumed of the node: every request may fail.

Fairness (`UsedSpec` in `AccountNode`).  Requests end within 25 seconds and time
passes between them.  The rest is what the property is about, an account in use:
its password is tried again and again, and a provider asked again and again answers
at times from the newest block.  The code has no background check, so an account
nobody uses keeps its credentials until somebody does.

## 4. Proofs

Every theorem is about all values of the constants; the runs show the same on small
instances.  Each proofs module EXTENDS its component, and the assumptions are the
named ASSUMEs there, which TLC evaluates in every run.  (`ListProofs` EXTENDS
`Preflight`, and INSTANCEs `AttemptLimit` and `LogFeed`, whose promises it EXTENDS
from `Limiter` and `FeedView`: there the assumption is a hypothesis of each theorem.)

| Module | Theorems for run properties |
| --- | --- |
| `CredentialsProofs` | all six of run `credentials` |
| `AccountNodeProofs` | `CredentialsHaveEvidence`, `CacheSpeaksForAccount`, `BindingMatchesSettings`, `NoFalseRevocation`, `ProofIsRetained` |
| `AuthorityProofs` | all three of run `authority` |
| `ConsoleProofs` | `LoginPolicyIsTheSavedOne`, `ReportsAreCurrent`, `NeverRefusesToStart`, `NoSilentOverwrite` |
| `SettingsFileProofs` | all three of run `settings_file` |
| `ConfigFormProofs` | all three of run `settings_form` |
| `AccountPortalProofs` | `LateAnswersRevealNothing`, `ListNeverGoesBack` |
| `ListProofs` | all three of runs `preflight` and `attempts`; `FeedIsFaithful` |

### CredentialsProofs

Beside the properties of the run, a disabled account has no password, session or
evidence (`Disabling`).  The assumptions are `BoundsAssumption` (limits and lifetimes
are positive numbers) and `NoneAssumption` (an absent row is not a row).

The properties are not inductive.  The invariant is built in layers:

1. `Typed`: types, and a running store has its token key.
2. `Lineage`: every password row was issued under the account's present
   authority, and there are none while it is disabled; every session row hangs
   on the very password that opened it, not only on one of the same name; names
   and session ids are keys.  The second part is what the cascade keeps up when
   names are used again.
3. `TokenRows`: a row keeps the expiry its session was opened with (the history
   `deadline`), and no token of the session expires later; the row's current
   refresh token was handed out with the present key, identity, expiry and a
   legal lifetime; current refresh ids are not consumed; refresh ids belong to
   one session.

`Revocation` and `Disabling` follow from the second layer, `SingleUse`,
`AbsoluteLifetime` and `NoStranding` from the third, `TypeCorrect` from the
first; `StableBinding` is an action property and needs only types.  Layer three
depends on a detail of `verify_token`: because a token with `iat` in the future
is refused, a rotation after the clock was set back cannot produce a token whose
lifetime exceeds the maximum.

`LimitIsTruthful` counts rows, so it is proved with the finite-set theorems.  What it
lacks is that the tables are finite (`Budgets`); each operation then either deletes
rows, or adds one after it has found room.

### AuthorityProofs

`AuthorityCheck` INSTANCEs `AuthorityVerdict` with a refinement mapping that hides the
call under way: blocks, question and answer are the abstract ones, the RPC program
counter is internal.  The refinement `Spec => ImplementsVerdict` is proved, with
`TypeOK`, `EvidenceIsRecheckable` and `ConsentIsFresh`, from `CheckAssumption` and
`MessageAssumption`.  The invariant says of the check under way that what it has
found so far is what the one block it has pinned says, that this block is fresh and
follows the evidence, and of an accepted answer and of the evidence that proof and
identity belong together.  Blocks never change, so these facts stay true while the
world moves; the last step of a check then is a step of `AuthorityVerdict` about
that block, and all others are stuttering.  For `ConsentIsFresh` the call under way
also remembers that its message answers the challenge in hand (`Consented`).

### SettingsFileProofs

The properties of `SettingsFile` are proved for any number of processes, from `FileAssumption`.  Three things beside types make them inductive: a
file gets its name only after its bytes are synchronized (`Whole`, `Prepared`); one
process at most is running and nothing can change the file between its check and
its rename (`Owned`), because creation needs an absent file; and the file about to
be reported is the newest (`Newest`), so that synchronizing the directory leaves
nothing older behind.

### ConsoleProofs

Three things beside types: an update excludes operator actions (`Exclusive`), since
both need `control`; a running action was started under the present settings
(`Pinned`), so that the report it leaves is about them; and as long as no power
failure has taken back a document in use (`Durable`), the file is that document or,
while no process runs, the later one of a save that was killed, the binding admits
both, and no tab has seen a later document than the one in use, or another of the
same revision.

### AccountNodeProofs

The one request under way acts on what it found out before an await or a transaction,
so the invariant says that this is still true: its sign-in is still pending, with the
proof once that is read (`Polled`, `Opened`); the verified authority is what the
registry said at a finalized block the evidence does not contradict, and is that of
the signer of its proof (`Confirmed`);
and each of the three transactions of a sign-in finds the account as the one before
left it (`Sequenced`).  `ConstantsAssumption` says of signers that they are not the
words for the states of a relay channel.  `NoFalseRevocation` uses `Confirmed` at the
step that revokes, `ProofIsRetained` uses `Opened` and `Polled`: a channel is opened
once, and the proof is read only into a sign-in that has none.

### AccountPortalProofs, ConfigFormProofs

The pages.  Both arguments are about the calls of the present generation or
connection: each was sent by the very access the tab still has (`Standing`), and at
most one of each sort that matters is under way (`Single`).  A late answer of an
earlier generation then changes nothing.  For the list of passwords, `Ordered` says
that at most one request has the newest list version and that the node's numbers only
grow.  For the form, the fields are closed while a save or reload is under way, a
poll is sent only after the last one was read, so what it hears is no older than what
the tab knows (`News`, `Past`), and saves on their way carry the revision their
fields were loaded from (`Based`).

### ListProofs

Three components whose state or result is a list built by a loop.

Preflight.  The invariant (`Tells`) relates each node's report to the raw answers of its
endpoint; the rest is counting and induction.  Freshness only counts the shards
listed, and the parser refuses doubles and ids out of range: `FreshIsFull` is the
pigeonhole argument that the count then covers every shard.  `CountDifferent` does
the same for peers.  The loop of `parse_authority` is a recursive function on the
number of events seen; that it has a result (`ScanExists`) and that the result is a
newest custodial event (`ScanFinds`) are proved by an induction stated over sets of
numbers (`UpTo`, from the well-foundedness of the natural numbers), because the
library's induction rules, which take a predicate, cannot be instantiated.
`RepliesAssumption` says that a well-formed answer has numbers and lists where the
code's types have them; malformed answers stay arbitrary.

What a loop keeps.  `Kept` is a recursive function on the number of elements seen;
by the same induction it has a value (`SiftExists`), every element of it comes from
a place of its own in the list, and none that belongs is missing (`KeptLeads`), and
of a list that parts into elements to leave and elements to keep it is the second
part (`KeptSuffix`).

AttemptLimit, from `LimitAssumption`.  The code compares readings of a clock that
moves both ways, the properties speak of how far it has gone ahead.  `Origin`, what
the clock would show had it never been moved, ties the two: a reading is the origin
plus what the clock had gone ahead, minus what it had been set back.  The invariant
(`Counted`) is a one-to-one map from the remembered times to attempts that were let
in, each time being the reading at its attempt, onto all attempts of the last window:
`retain` with a saturating subtraction drops a time only when the clock has gone
ahead by a window since.  `RateHolds` then is that the attempts of a window are no
more than the times remembered, and these no more than the capacity;
`RefusalsAreEarned` that a full list stands for as many different attempts, each
within the window plus the set-back since.  `Noted` does the same for the last poll
of each sign-in.

LogFeed, from `ConstantsAssumption`.  The ring holds the last events of the process
without gaps (`Ring`), so a page is an interval of them (`PageIs`).  At most one call
of the present generation is under way (`Calling`); while a refresh is, the cursor
does not move and nothing empties the list, so the page it was answered with, if by
the process the tab knows, continues the list or says that the ring has lost events
(`Continues`, `PageContinues`), and appending it keeps the list in order and, unless
the tab says otherwise, whole (`Follows`, `AppendFollows`).  What makes this
inductive is the reason for which a gap goes on being admitted: the flag is
computed anew by every page, and stays up because a list that has lost events is at
its capacity, or the ring has dropped some and will never be without a loss again.

### Only model-checked

* Liveness, which the prover does not support: `LossIsNoticed`, `DrainEnds`,
  `CatchesUp`, `SignInEnds`.
* `Repository`: `Mst` and it are recursive operators over trees and JSON values, and
  a module that reaches a RECURSIVE operator loses the SMT backend.

## 5. Not modelled

Encodings (JWT text, CBOR, CAR, ABI, hexadecimal, URLs), signatures and hashes
beyond "cannot be forged" and "injective", HTTP headers and origins, file
permissions, limits of single settings fields, static pages, wording and rendering,
the clipboard, the list of recent operations, the lab's output directory and its
comparison of two workers, creation of the admin token, argument parsing.  They are pure functions or plain I/O with
nothing concurrent about them; where they can fail, the models have the failure as
a refusal.

## 6. Findings

* `console_status`: the documentation says that the management status remains
  available while the account service is busy.  If a settings save arrives in
  that time it holds `control` while it waits for `core`, and status waits with it.

Two properties of `Console` hold only until a power failure takes back a document
that a process has gone on with (`~undone`), and the documentation does not make
the condition.  The code goes on with a document that is not yet final in two ways:

* after a failed directory sync `update_config` puts the new policy in force
  (`server.rs:496`);
* when a process is killed between the rename (`settings.rs:418`) and the directory
  sync (`settings.rs:420`), the next one takes the document it finds and does not
  synchronize the directory (`settings.rs:362`).

A sign-in under such a document and a power failure then leave a binding and
settings that contradict each other, and the worker refuses to start until the file
is edited (`NeverRefusesToStart`).  Or a revision number is used for two different
documents, and a tab that has seen the first overwrites the second
(`NoSilentOverwrite`).

No property is about this one: a comment in `psky-hypersnap/src/lib.rs:381` says that
`registry_events` counts registration or transfer events, but line 866 counts all
events of the answer, changes of the recovery address included.

## 7. Plan

1. Abstract specifications: an account as a set of live credentials per authority,
   implemented by `AccountNode`; a settings register with compare-and-swap,
   implemented by `SettingsFile` and `Console`.
2. Properties not stated yet: the busy flags of both pages, a change of settings
   coming to every tab's notice, an honest wallet's clock skew, and that two
   histories with the same records export the same file.
3. The list of recent operations of the console, and the admin token's file.
