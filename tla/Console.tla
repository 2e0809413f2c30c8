------------------------------ MODULE Console ------------------------------
(***************************************************************************)
(* The management console of one worker (crates/psky/src/server.rs) with   *)
(* its settings store (settings.rs) and the two locks it shares with the   *)
(* account service: `control' guards the console, `core' the account       *)
(* service.  Of all handlers only update_config keeps control over an      *)
(* await, the one for core; every other handler takes and drops it within  *)
(* one step.                                                               *)
(*                                                                         *)
(* A settings document is its revision and the account policy in it (the   *)
(* FID and service identity a binding freezes).  `disk' is settings.json   *)
(* as the running system sees it, `survivors' what a power failure may     *)
(* leave in its place: a rename is safe only once the directory is         *)
(* synchronized, and a process can be killed before that.                  *)
(***************************************************************************)
EXTENDS Integers, FiniteSets

CONSTANTS
  Tabs,           \* browser tabs of the operator
  Policies,       \* account policies
  Listeners,      \* each HTTP listener awaits the shutdown signal and drains
  None,
  MaxRevision     \* bound on the revision

VARIABLES
  node,           \* "up", "down", or "refused": it would not start
  disk,           \* settings.json as it reads now
  survivors,      \* the documents a power failure may leave there
  document,       \* ConfigStore's copy, or what the last process had
  applied,        \* the policy the account service works with
  bound,          \* the policy the account was bound under, in the store
  control,        \* the update holding the control lock, or None
  wanted,         \* what the update under way asks to save
  core,           \* whether an account request holds the core lock
  active,         \* the running operator action, or None
  preflight,      \* the revision the peer report is about, or None
  shutting_down,
  drain,          \* where each listener's shutdown stands
  known,          \* the document each tab has last seen, or None
  undone          \* history: a power failure has taken back a document that
                  \* a process had opened or gone on with

files == <<disk, survivors, undone>>
locks == <<control, wanted, core>>
action == <<active, preflight>>
stopping == <<shutting_down, drain>>
vars == <<node, files, document, applied, bound, locks, action, stopping, known>>

Document == [revision : 1..MaxRevision, policy : Policies]
OperationKind == {"preflight", "reconstruct"}
Operation == [kind : OperationKind, config_revision : 1..MaxRevision]

ASSUME ConstantsAssumption ==
  /\ MaxRevision \in Nat \ {0}
  /\ None \notin Tabs \cup Policies \cup Document \cup Operation \cup Nat

(* Every variable has its type; no revision passes the last one.           *)
TypeOK ==
  /\ node \in {"up", "down", "refused"}
  /\ disk \in Document
  /\ survivors \subseteq Document /\ disk \in survivors
  /\ document \in Document
  /\ applied \in Policies
  /\ bound \in Policies \cup {None}
  /\ control \in Tabs \cup {None}
  /\ wanted \in Policies \cup {None}
  /\ core \in BOOLEAN
  /\ active \in Operation \cup {None}
  /\ preflight \in 1..MaxRevision \cup {None}
  /\ shutting_down \in BOOLEAN
  /\ drain \in [Listeners -> {"serving", "signalled", "waiting", "done"}]
  /\ known \in [Tabs -> Document \cup {None}]
  /\ undone \in BOOLEAN

\* First start: ConfigStore::open publishes and synchronizes revision 1.  If
\* it is lost before that, the next start makes the same one again: its
\* account policy is the default, whatever the command line says.
Init ==
  /\ node = "up"
  /\ \E p \in Policies : disk = [revision |-> 1, policy |-> p]
  /\ survivors = {disk} /\ document = disk /\ applied = disk.policy
  /\ bound = None
  /\ control = None /\ wanted = None /\ core = FALSE
  /\ active = None /\ preflight = None
  /\ shutting_down = FALSE
  /\ drain = [l \in Listeners |-> "serving"]
  /\ known = [t \in Tabs |-> None]
  /\ undone = FALSE

-----------------------------------------------------------------------------
(* The account service, as far as the console meets it.                    *)

AccountBegin ==
  /\ node = "up" /\ ~core
  /\ core' = TRUE
  /\ UNCHANGED <<node, files, document, applied, bound, control, wanted,
                 action, stopping, known>>

\* The request ends within its 25 seconds; a sign-in binds the account under
\* the policy in force.
AccountEnd ==
  /\ node = "up" /\ core
  /\ core' = FALSE
  /\ \/ UNCHANGED bound
     \/ bound = None /\ bound' = applied
  /\ UNCHANGED <<node, files, document, applied, control, wanted, action,
                 stopping, known>>

-----------------------------------------------------------------------------
(* Reading and saving settings.                                            *)

\* GET /admin/config, as GET /admin/status, needs the control lock.
Readable == node = "up" /\ control = None

ReadConfig(t) ==
  /\ Readable
  /\ known' = [known EXCEPT ![t] = document]
  /\ UNCHANGED <<node, files, document, applied, bound, locks, action, stopping>>

\* Mutated form: a running action is no reason.
UnavailableInShutdown == shutting_down

\* Saves and operator actions are turned away during shutdown or an action.
unavailable == shutting_down \/ active # None

\* update_config has control and asks for core.
UpdateBegin(t, policy) ==
  /\ Readable
  /\ known[t] # None
  /\ ~unavailable
  /\ control' = t
  /\ wanted' = policy
  /\ UNCHANGED <<node, files, document, applied, bound, core, action, stopping,
                 known>>

\* The tab goes away while its update waits: both guards are dropped.
UpdateCancel ==
  /\ node = "up" /\ control # None
  /\ control' = None /\ wanted' = None
  /\ UNCHANGED <<node, files, document, applied, bound, core, action, stopping,
                 known>>

\* Mutated forms: the binding or the revision is ignored.
SavableIfCurrent ==
  /\ known[control].revision = document.revision
  /\ disk = document /\ document.revision < MaxRevision
SavableIfBound ==
  /\ bound # None => wanted = bound
  /\ disk = document /\ document.revision < MaxRevision

\* ConfigurationGuard::check, then the tests of ConfigStore::replace.
Savable ==
  /\ bound # None => wanted = bound
  /\ known[control].revision = document.revision
  /\ disk = document
  /\ document.revision < MaxRevision

NextDocument == [revision |-> document.revision + 1, policy |-> wanted]

\* With both locks: refused, not written, saved, or published without the
\* directory sync.  Nothing here awaits, so it is one step.
UpdateReject ==
  /\ node = "up" /\ control # None /\ ~core
  /\ control' = None /\ wanted' = None
  /\ UNCHANGED <<node, files, document, applied, bound, core, action, stopping,
                 known>>

\* publish replaces the file; the directory sync makes that final.
Publish(synced) ==
  /\ Savable
  /\ disk' = NextDocument
  /\ survivors' = {NextDocument} \cup IF synced THEN {} ELSE survivors
  /\ UNCHANGED undone

\* Mutated form: a failed sync leaves the old policy in force.
SaveOrForget(synced) ==
  /\ node = "up" /\ control # None /\ ~core
  /\ Publish(synced)
  /\ document' = NextDocument
  /\ applied' = IF synced THEN wanted ELSE applied
  /\ preflight' = None
  /\ known' = [known EXCEPT ![control] = IF synced THEN NextDocument ELSE @]
  /\ control' = None /\ wanted' = None
  /\ UNCHANGED <<node, bound, core, active, stopping>>

UpdateSave(synced) ==
  /\ node = "up" /\ control # None /\ ~core
  /\ Publish(synced)
  /\ document' = NextDocument
  /\ applied' = wanted
  /\ preflight' = None
  /\ known' = [known EXCEPT ![control] = IF synced THEN NextDocument ELSE @]
  /\ control' = None /\ wanted' = None
  /\ UNCHANGED <<node, bound, core, active, stopping>>

-----------------------------------------------------------------------------
(* Operator actions.                                                       *)

\* Mutated form: the wake-up is forgotten.
NotNotified == drain

\* Notify::notify_waiters: every waiting drain goes round its loop again.
Notified == [l \in Listeners |-> IF drain[l] = "waiting" THEN "signalled"
                                 ELSE drain[l]]

\* Peer checks or the offline reconstruction, as a task of its own.
start(kind) ==
  /\ Readable /\ ~unavailable
  /\ active' = [kind |-> kind, config_revision |-> document.revision]
  /\ UNCHANGED <<node, files, document, applied, bound, locks, preflight,
                 stopping, known>>

\* The report or its failure is recorded, and waiting drains wake.  Failed
\* peer checks clear the report.  What a reconstruction reports has no bearing
\* on anything else and is left out.
finish ==
  /\ Readable
  /\ active # None
  /\ \/ /\ active.kind = "preflight"
        /\ preflight' \in {active.config_revision, None}
     \/ /\ active.kind = "reconstruct"
        /\ UNCHANGED preflight
  /\ active' = None
  /\ drain' = Notified
  /\ UNCHANGED <<node, files, document, applied, bound, locks, shutting_down,
                 known>>

-----------------------------------------------------------------------------
(* Shutdown.                                                               *)

\* SIGINT or SIGTERM reaches every listener.
Signal ==
  /\ node = "up"
  /\ \E l \in Listeners : drain[l] = "serving"
  /\ drain' = [l \in Listeners |-> IF drain[l] = "serving" THEN "signalled"
                                   ELSE drain[l]]
  /\ UNCHANGED <<node, files, document, applied, bound, locks, action,
                 shutting_down, known>>

\* One turn of the loop in drain, registered with the notifier before the
\* lock is dropped.
Drain(l) ==
  /\ Readable
  /\ drain[l] = "signalled"
  /\ shutting_down' = TRUE
  /\ drain' = [drain EXCEPT ![l] = IF active = None THEN "done" ELSE "waiting"]
  /\ UNCHANGED <<node, files, document, applied, bound, locks, action, known>>

\* The process ends, by itself or not.
Down ==
  /\ node' = "down"
  /\ control' = None /\ wanted' = None /\ core' = FALSE
  /\ active' = None /\ preflight' = None
  /\ shutting_down' = FALSE
  /\ drain' = [l \in Listeners |-> "serving"]
  /\ UNCHANGED <<document, applied, bound, known>>

\* It is killed, or ends; page cache and renames survive.
Crash ==
  /\ node = "up"
  /\ Down
  /\ UNCHANGED files

\* It is killed in a save, when the new document is published and before
\* anything else: the directory sync may have been reached or not.
CrashDuringSave(synced) ==
  /\ node = "up" /\ control # None /\ ~core
  /\ Publish(synced)
  /\ Down

\* The machine loses power, whether the process runs or not: a rename not yet
\* synchronized may be undone.
PowerLoss ==
  /\ Down
  /\ disk' \in survivors
  /\ survivors' = {disk'}
  /\ undone' = (undone \/ disk' \notin {disk, document})

\* ConfigStore::open takes the document it finds, synchronized or not;
\* AccountNode::open refuses one that contradicts the binding.
Restart ==
  /\ node = "down"
  /\ document' = disk
  /\ applied' = disk.policy
  /\ node' = IF bound # None /\ disk.policy # bound THEN "refused" ELSE "up"
  /\ UNCHANGED <<files, bound, locks, action, stopping, known>>

Next ==
  \/ AccountBegin \/ AccountEnd
  \/ \E t \in Tabs : ReadConfig(t)
  \/ \E t \in Tabs, policy \in Policies : UpdateBegin(t, policy)
  \/ UpdateCancel \/ UpdateReject
  \/ \E synced \in BOOLEAN : UpdateSave(synced)
  \/ \E kind \in OperationKind : start(kind)
  \/ finish
  \/ Signal
  \/ \E l \in Listeners : Drain(l)
  \/ \E synced \in BOOLEAN : CrashDuringSave(synced)
  \/ Crash \/ PowerLoss \/ Restart

Spec == Init /\ [][Next]_vars

(* Fairness: an account request ends by its timeout, an operator action by *)
(* its own; both locks are first come, first served, so whoever waits for  *)
(* one that keeps being released gets it.                                  *)
FairSpec ==
  /\ Spec
  /\ WF_vars(AccountEnd)
  /\ SF_vars(UpdateReject \/ \E synced \in BOOLEAN : UpdateSave(synced))
  /\ SF_vars(finish)
  /\ \A l \in Listeners : SF_vars(Drain(l))

-----------------------------------------------------------------------------
(* Properties.                                                             *)

(* The policy the account service works with is the one in settings.json,  *)
(* whatever way a save ended: update_config swaps both under both locks.   *)
LoginPolicyIsTheSavedOne ==
  node = "up" => document = disk /\ applied = disk.policy

(* A peer report on display is about the current settings, although checks *)
(* run for a while after they were started.                                *)
ReportsAreCurrent ==
  node = "up" /\ preflight # None => preflight = document.revision

(* A save replaces only the document its tab had seen ("Two tabs cannot    *)
(* silently overwrite each other's revisions"), whatever crashes lie in    *)
(* between, kills in the middle of a save included, and whatever power     *)
(* failures, as long as none has taken back a document that a process had  *)
(* gone on with.  That can happen: update_config goes on after a failed    *)
(* directory sync, and ConfigStore::open after a kill that left the sync   *)
(* undone.  The same revision is then used for another document, and the   *)
(* conflict test compares revisions only.                                  *)
NoSilentOverwrite ==
  [][node = "up" /\ node' = "up" /\ document' # document /\ ~undone =>
       control # None /\ known[control] = document]_vars

(* The node comes back from every crash, wherever in a save it falls, and  *)
(* from every power failure that takes back no document a process had gone *)
(* on with: the persisted settings admit the persisted binding.  Only      *)
(* after such a loss (a failed directory sync passed over, or a kill       *)
(* between rename and sync followed by a start) can a binding made under   *)
(* settings that are gone keep the node from starting.                     *)
NeverRefusesToStart == node = "refused" => undone

(* Shutdown drains accepted actions and then ends: no listener waits for a *)
(* notification that has already been given.                               *)
DrainEnds ==
  \A l \in Listeners :
    drain[l] \in {"signalled", "waiting"} ~> drain[l] = "done" \/ node # "up"

(* The management status can be read while an account request runs.        *)
StatusStaysAvailable == node = "up" /\ core => Readable
=============================================================================
