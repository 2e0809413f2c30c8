----------------------------- MODULE ConfigForm -----------------------------
(***************************************************************************)
(* The settings form of one console tab (crates/psky/src/console.js): its  *)
(* draft and the revision it was loaded from, against a worker whose       *)
(* settings others change as well, which restarts, and whose answers are   *)
(* late, lost or refused.  Module LogFeed follows the log of the same tab, *)
(* module Console the worker's side of a save.                             *)
(*                                                                         *)
(* A call is a request (for connecting, a pair of requests) the tab waits  *)
(* for; `puts' are the saves that have not reached the worker yet.  A save *)
(* the tab has given up after 12 seconds may still reach it.               *)
(***************************************************************************)
EXTENDS Integers

CONSTANTS
  None,
  MaxRevision,     \* bound on the revision of the settings
  MaxInstance,     \* bound on restarts
  MaxGeneration,   \* bound on connections and disconnections
  MaxSaves,        \* bound on the saves of this tab
  MaxRuns,         \* bound on the operator actions it starts
  MaxDraft         \* bound on the edits of one draft

ASSUME ConstantsAssumption ==
  /\ {MaxRevision, MaxInstance, MaxGeneration, MaxSaves, MaxDraft}
       \subseteq Nat \ {0}
  /\ MaxRuns \in Nat
  /\ None \notin Nat

VARIABLES
  \* the worker
  document,        \* revision of the saved settings
  instance,        \* instance_id: random, here numbered
  active,          \* whether an operator action is running
  \* the tab
  connected, connecting, refreshing, saving, submitting, generation,
  revision,        \* the revision the draft is to replace, or None
  dirty, stale,
  operation,       \* whether the tab shows a running action
  instanceId,      \* the process the tab last heard of, 0 for none
  \* history
  draft,           \* edits made since the fields were loaded
  base,            \* revision the fields were loaded from, or None
  since,           \* the process the tab had last heard of then
  saves, runs,     \* saves and actions submitted
  \* requests
  calls, puts

worker == <<document, instance, active>>
flags == <<connected, connecting, refreshing, saving, submitting>>
form == <<revision, dirty, stale, draft, base, since>>
shown == <<operation, instanceId>>
count == <<saves, runs>>
vars == <<worker, flags, generation, form, shown, count, calls, puts>>

\* What became of a request: not made, under way, failed or timed out,
\* refused (401 or 403), in conflict (409), or answered.
Unasked == [is |-> "unasked"]
Sent == [is |-> "sent"]
Failed == [is |-> "failed"]
Refused == [is |-> "refused"]
Conflict == [is |-> "conflict"]
Reply == {Unasked, Sent, Failed, Refused, Conflict}
  \cup [is : {"ok"}, revision : 1..MaxRevision, instance : 1..MaxInstance,
        active : BOOLEAN]

Kinds == {"connect", "poll", "reload", "save", "run"}
Flags == {"connecting", "saving", "submitting", "none"}

\* `releases' is the flag of the handler that waits for a poll to end.
Call == [kind : Kinds, generation : 1..MaxGeneration, draft : 0..MaxDraft,
         id : 0..MaxSaves, releases : Flags,
         status : Reply, config : Reply]
Put == [id : 1..MaxSaves, expected : 1..MaxRevision, base : 1..MaxRevision]

(* Every variable has its type.                                            *)
TypeOK ==
  /\ document \in 1..MaxRevision /\ instance \in 1..MaxInstance
  /\ {active, connected, connecting, refreshing, saving, submitting, dirty,
      stale, operation} \subseteq BOOLEAN
  /\ generation \in 0..MaxGeneration
  /\ {revision, base} \subseteq (1..MaxRevision) \cup {None}
  /\ instanceId \in 0..MaxInstance /\ since \in 0..MaxInstance
  /\ draft \in 0..MaxDraft /\ saves \in 0..MaxSaves /\ runs \in 0..MaxRuns
  /\ calls \subseteq Call /\ puts \subseteq Put

Init ==
  /\ document = 1 /\ instance = 1 /\ active = FALSE
  /\ connected = FALSE /\ connecting = FALSE /\ refreshing = FALSE
  /\ saving = FALSE /\ submitting = FALSE
  /\ generation = 0
  /\ revision = None /\ dirty = FALSE /\ stale = FALSE
  /\ operation = FALSE /\ instanceId = 0
  /\ draft = 0 /\ base = None /\ since = 0
  /\ saves = 0 /\ runs = 0
  /\ calls = {} /\ puts = {}

-----------------------------------------------------------------------------
(* The worker.                                                             *)

Answer == [is |-> "ok", revision |-> document, instance |-> instance,
           active |-> active]

Replace(c, d) == calls' = (calls \ {c}) \cup {d}

\* status and config, each answered when the worker comes to it.
ServeStatus(c) ==
  /\ c.kind # "run" /\ c.status = Sent
  /\ Replace(c, [c EXCEPT !.status = Answer])
  /\ UNCHANGED <<worker, flags, generation, form, shown, count, puts>>

ServeConfig(c) ==
  /\ c.kind # "save" /\ c.config = Sent
  /\ Replace(c, [c EXCEPT !.config = Answer])
  /\ UNCHANGED <<worker, flags, generation, form, shown, count, puts>>

\* The save with the same id hears what became of it, unless the tab no
\* longer waits or the answer is lost on the way.
Tell(p, reply) ==
  \/ \E c \in calls : /\ c.kind = "save" /\ c.id = p.id /\ c.config = Sent
                      /\ Replace(c, [c EXCEPT !.config = reply])
  \/ UNCHANGED calls

\* update_config accepts a save that expects the revision there is.
AcceptPut(p) ==
  /\ ~active /\ document = p.expected /\ document < MaxRevision
  /\ document' = document + 1
  /\ puts' = puts \ {p}
  /\ Tell(p, [Answer EXCEPT !.revision = document + 1])
  /\ UNCHANGED <<instance, active, flags, generation, form, shown, count>>

\* It is refused: a conflict of revisions, or an action running, settings
\* that are not valid, a disk that fails.
RefusePut(p) ==
  /\ puts' = puts \ {p}
  /\ \/ ~active /\ document # p.expected /\ Tell(p, Conflict)
     \/ Tell(p, Failed)
  /\ UNCHANGED <<worker, flags, generation, form, shown, count>>

\* preflight and reconstruct: one action at a time.
ServeRun(c) ==
  /\ c.kind = "run" /\ c.status = Sent
  /\ \/ ~active /\ active' = TRUE
        /\ Replace(c, [c EXCEPT !.status = [Answer EXCEPT !.active = TRUE]])
     \/ active /\ UNCHANGED active /\ Replace(c, [c EXCEPT !.status = Failed])
  /\ UNCHANGED <<document, instance, flags, generation, form, shown, count,
                 puts>>

OperationEnds ==
  /\ active /\ active' = FALSE
  /\ UNCHANGED <<document, instance, flags, generation, form, shown, count,
                 calls, puts>>

\* Another tab saves settings.
OtherSave ==
  /\ ~active /\ document < MaxRevision
  /\ document' = document + 1
  /\ UNCHANGED <<instance, active, flags, generation, form, shown, count,
                 calls, puts>>

\* The process is started anew with the saved settings.
Restart ==
  /\ instance < MaxInstance
  /\ instance' = instance + 1
  /\ active' = FALSE /\ puts' = {}
  /\ UNCHANGED <<document, flags, generation, form, shown, count, calls>>

\* A request fails, is not answered in 12 seconds, or is refused.
LoseCall(c, r) ==
  /\ r = Refused => generation < MaxGeneration
  /\ \/ c.status = Sent /\ Replace(c, [c EXCEPT !.status = r])
     \/ c.config = Sent /\ Replace(c, [c EXCEPT !.config = r])
  /\ UNCHANGED <<worker, flags, generation, form, shown, count, puts>>

-----------------------------------------------------------------------------
(* What the operator does.                                                 *)

NewCall(kind) ==
  [kind |-> kind, generation |-> generation, draft |-> draft, id |-> 0,
   releases |-> "none", status |-> Unasked, config |-> Unasked]

Connect ==
  /\ ~connected /\ ~connecting /\ generation < MaxGeneration
  /\ connecting' = TRUE
  /\ generation' = generation + 1
  /\ calls' = calls \cup {[NewCall("connect") EXCEPT
                             !.generation = generation + 1,
                             !.status = Sent, !.config = Sent]}
  /\ UNCHANGED <<worker, connected, refreshing, saving, submitting, form,
                 shown, count, puts>>

\* disconnect: the tab forgets its token; the draft stays.
disconnect ==
  /\ generation' = generation + 1
  /\ connected' = FALSE /\ connecting' = FALSE /\ refreshing' = FALSE
  /\ saving' = FALSE /\ submitting' = FALSE

Disconnect ==
  /\ connected /\ generation < MaxGeneration
  /\ disconnect
  /\ UNCHANGED <<worker, form, shown, count, calls, puts>>

\* Mutated form: the fields stay open while a save is under way.
EditAnyTime ==
  /\ connected /\ revision # None
  /\ draft < MaxDraft
  /\ draft' = draft + 1 /\ dirty' = TRUE
  /\ UNCHANGED <<worker, flags, generation, revision, stale, base, since,
                 shown, count, calls, puts>>

\* The fields are disabled while a save or reload is under way.
Edit ==
  /\ connected /\ ~saving /\ revision # None
  /\ draft < MaxDraft
  /\ draft' = draft + 1 /\ dirty' = TRUE
  /\ UNCHANGED <<worker, flags, generation, revision, stale, base, since,
                 shown, count, calls, puts>>

\* Reload: the operator has agreed to lose the edits there are.
Reload ==
  /\ connected /\ ~saving
  /\ saving' = TRUE
  /\ calls' = calls \cup {[NewCall("reload") EXCEPT !.config = Sent]}
  /\ UNCHANGED <<worker, connected, connecting, refreshing, submitting,
                 generation, form, shown, count, puts>>

Save ==
  /\ connected /\ ~saving /\ ~stale /\ dirty /\ ~submitting /\ ~operation
  /\ saves < MaxSaves
  /\ saves' = saves + 1
  /\ saving' = TRUE
  /\ calls' = calls \cup {[NewCall("save") EXCEPT !.id = saves + 1,
                                                  !.config = Sent]}
  /\ puts' = puts \cup {[id |-> saves + 1, expected |-> revision,
                         base |-> base]}
  /\ UNCHANGED <<worker, connected, connecting, refreshing, submitting,
                 generation, form, shown, runs>>

Run ==
  /\ connected /\ ~operation /\ ~submitting /\ ~saving
  /\ runs < MaxRuns
  /\ runs' = runs + 1
  /\ submitting' = TRUE
  /\ calls' = calls \cup {[NewCall("run") EXCEPT !.status = Sent]}
  /\ UNCHANGED <<worker, connected, connecting, refreshing, saving,
                 generation, form, shown, saves, puts>>

\* refresh, by timer, by hand, or when the tab becomes visible.
Refresh ==
  /\ connected /\ ~refreshing
  /\ refreshing' = TRUE
  /\ calls' = calls \cup {[NewCall("poll") EXCEPT !.status = Sent]}
  /\ UNCHANGED <<worker, connected, connecting, saving, submitting,
                 generation, form, shown, count, puts>>

-----------------------------------------------------------------------------
(* What the tab makes of the answers.                                      *)

IsOk(reply) == reply.is = "ok"

\* Promise.all gives up at the first failure; the other calls ask for one
\* thing.
Ready(c) ==
  \/ Sent \notin {c.status, c.config}
  \/ c.kind = "connect" /\ {Failed, Refused} \cap {c.status, c.config} # {}

\* The answer is still wanted.
Current(c) == c.generation = generation

Late(c) ==
  /\ Ready(c) /\ ~Current(c)
  /\ calls' = calls \ {c}
  /\ UNCHANGED <<worker, flags, generation, form, shown, count, puts>>

\* The node was restarted since the tab last heard of it.
Restarted(s, heard) == heard # 0 /\ s.instance # heard

\* Mutated form: every status is taken for the newest.
NeverOlder(s, rev, heard) == FALSE

\* A status from before a save the tab knows of.
Older(s, rev, heard) ==
  ~Restarted(s, heard) /\ rev # None /\ s.revision < rev

\* renderStatus, given the form's revision and whether it is stale.
StaleAfter(s, rev, old, heard) ==
  \/ old
  \/ Restarted(s, heard)
  \/ ~Older(s, rev, heard) /\ rev # None /\ s.revision # rev

OperationAfter(s, rev, heard) ==
  IF Older(s, rev, heard) THEN operation ELSE s.active

\* Mutated form: a kept draft is moved on to the newest revision.
NewestRevision(config) == config.revision

\* The revision a kept draft is to replace.
DraftRevision(config) == revision

\* renderConfig keeps the draft, or fills the fields from the answer to c.
KeepDraft(config) ==
  /\ revision' = DraftRevision(config)
  /\ UNCHANGED <<dirty, draft, base, since>>

LoadFields(c) ==
  /\ revision' = c.config.revision /\ base' = c.config.revision
  /\ dirty' = FALSE /\ draft' = 0
  /\ since' = IF c.kind = "connect" THEN c.status.instance ELSE instanceId

\* await refresh(): the handler's flag is released when the poll ends, at
\* once when one is under way already.
AwaitRefresh(c, flag) ==
  /\ refreshing' = TRUE
  /\ calls' = IF refreshing THEN calls \ {c}
              ELSE (calls \ {c}) \cup
                     {[NewCall("poll") EXCEPT !.status = Sent,
                                              !.releases = flag]}

ConnectDone(c) ==
  LET keep == dirty
      rev == IF keep THEN DraftRevision(c.config) ELSE c.config.revision
      old == c.config.revision # rev IN
  /\ c.kind = "connect" /\ Current(c)
  /\ IsOk(c.status) /\ IsOk(c.config)
  /\ connected' = TRUE
  /\ IF keep THEN KeepDraft(c.config) ELSE LoadFields(c)
  /\ stale' = StaleAfter(c.status, rev, old, 0)
  /\ operation' = OperationAfter(c.status, rev, 0)
  /\ instanceId' = c.status.instance
  /\ AwaitRefresh(c, "connecting")
  /\ UNCHANGED <<worker, connecting, saving, submitting, generation, count,
                 puts>>

\* A failed connection, and any call that is refused, ends in disconnect.
Refusal(c) ==
  /\ Ready(c) /\ Current(c) /\ generation < MaxGeneration
  /\ \/ Refused \in {c.status, c.config}
     \/ c.kind = "connect" /\ Failed \in {c.status, c.config}
  /\ disconnect
  /\ calls' = calls \ {c}
  /\ UNCHANGED <<worker, form, shown, count, puts>>

Release(flag) ==
  /\ connecting' = (connecting /\ flag # "connecting")
  /\ saving' = (saving /\ flag # "saving")
  /\ submitting' = (submitting /\ flag # "submitting")

PollDone(c) ==
  /\ c.kind = "poll" /\ Current(c)
  /\ \/ /\ IsOk(c.status)
        /\ stale' = StaleAfter(c.status, revision, stale, instanceId)
        /\ operation' = OperationAfter(c.status, revision, instanceId)
        /\ instanceId' = c.status.instance
     \/ c.status = Failed /\ UNCHANGED <<stale, shown>>
  /\ refreshing' = FALSE
  /\ Release(c.releases)
  /\ calls' = calls \ {c}
  /\ UNCHANGED <<worker, connected, generation, revision, dirty, draft, base,
                 since, count, puts>>

\* The status is shown, but another request of the poll is refused.
PollRefused(c) ==
  /\ c.kind = "poll" /\ Current(c) /\ IsOk(c.status)
  /\ generation < MaxGeneration
  /\ stale' = StaleAfter(c.status, revision, stale, instanceId)
  /\ operation' = OperationAfter(c.status, revision, instanceId)
  /\ instanceId' = c.status.instance
  /\ disconnect
  /\ calls' = calls \ {c}
  /\ UNCHANGED <<worker, revision, dirty, draft, base, since, count, puts>>

ReloadDone(c) ==
  /\ c.kind = "reload" /\ Current(c)
  /\ \/ IsOk(c.config) /\ LoadFields(c) /\ stale' = FALSE
     \/ c.config = Failed /\ UNCHANGED form
  /\ saving' = FALSE
  /\ calls' = calls \ {c}
  /\ UNCHANGED <<worker, connected, connecting, refreshing, submitting,
                 generation, shown, count, puts>>

SaveDone(c) ==
  /\ c.kind = "save" /\ Current(c)
  /\ \/ /\ IsOk(c.config)
        /\ LoadFields(c) /\ stale' = FALSE
        /\ saving' = ~refreshing
        /\ AwaitRefresh(c, "saving")
     \/ /\ c.config \in {Failed, Conflict}
        /\ stale' = (stale \/ c.config = Conflict)
        /\ saving' = FALSE
        /\ calls' = calls \ {c}
        /\ UNCHANGED <<refreshing, revision, dirty, draft, base, since>>
  /\ UNCHANGED <<worker, connected, connecting, submitting, generation, shown,
                 count, puts>>

\* An accepted action is shown at once; a failure is looked into.
RunDone(c) ==
  /\ c.kind = "run" /\ Current(c)
  /\ \/ IsOk(c.status) /\ operation' = TRUE
     \/ c.status = Failed /\ UNCHANGED operation
  /\ submitting' = ~refreshing
  /\ AwaitRefresh(c, "submitting")
  /\ UNCHANGED <<worker, connected, connecting, saving, generation, form,
                 instanceId, count, puts>>

Done(c) == ConnectDone(c) \/ PollDone(c) \/ ReloadDone(c) \/ SaveDone(c)
           \/ RunDone(c)

Next ==
  \/ \E c \in calls : ServeStatus(c) \/ ServeConfig(c) \/ ServeRun(c)
  \/ \E c \in calls, r \in {Failed, Refused} : LoseCall(c, r)
  \/ \E p \in puts : AcceptPut(p) \/ RefusePut(p)
  \/ OperationEnds \/ OtherSave \/ Restart
  \/ Connect \/ Disconnect \/ Edit \/ Reload \/ Save \/ Run \/ Refresh
  \/ \E c \in calls : Late(c) \/ Refusal(c) \/ PollRefused(c)
                      \/ Done(c)

Spec == Init /\ [][Next]_vars

-----------------------------------------------------------------------------
(* Properties.                                                             *)

(* Edits leave the form in two ways only: with the answer to the save that *)
(* carried them all, or to the reload the operator agreed to when they     *)
(* were all made.  No answer, poll or reconnection discards a draft.       *)
EditsSurvive ==
  [][draft > 0 /\ draft' < draft =>
       \E c \in calls \ calls' :
         /\ c.kind \in {"save", "reload"} /\ c.generation = generation
         /\ IsOk(c.config) /\ c.draft = draft]_vars

(* A save that is accepted replaces the very settings its fields were      *)
(* loaded from, however often the tab was reconnected in between           *)
(* ("Reauthentication must not discard a draft or move its                 *)
(* compare-and-swap revision").                                            *)
SavesReplaceTheirBase ==
  [][\A p \in puts : p \notin puts' /\ document' # document =>
                       p.base = document]_vars

(* The warning that the draft is stale is never false: settings have       *)
(* changed, or the node has been restarted since the tab last heard of it  *)
(* when it loaded the fields.                                              *)
NoFalseAlarm == stale => document # revision \/ instance # since

=============================================================================
