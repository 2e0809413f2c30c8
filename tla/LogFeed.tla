------------------------------ MODULE LogFeed ------------------------------
(***************************************************************************)
(* The worker's event journal (crates/psky/src/journal.rs), its pages      *)
(* (logs in server.rs), and one console tab that follows it (console.js)   *)
(* through lost requests, reconnections and restarts of the worker, which  *)
(* start the sequence numbers over.                                        *)
(*                                                                         *)
(* A refresh asks for the status and for a log page at the same time; the  *)
(* worker answers each when it comes to it.  Every call remembers the      *)
(* generation of the tab it was made in.                                   *)
(***************************************************************************)
EXTENDS Lists, FeedView

CONSTANTS
  LOG_CAPACITY,    \* events the worker keeps
  PAGE_LIMIT,      \* events the tab asks for at once; logs refuses more than
                   \* LOG_CAPACITY
  TAB_CAPACITY,    \* events the tab keeps
  MaxSequence,     \* bound on the events of one process
  MaxInstance,     \* bound on restarts
  MaxGeneration    \* bound on connections and disconnections

ASSUME ConstantsAssumption ==
  /\ {LOG_CAPACITY, TAB_CAPACITY} \subseteq Nat \ {0}
  /\ PAGE_LIMIT \in 1..LOG_CAPACITY
  /\ {MaxSequence, MaxInstance, MaxGeneration} \subseteq Nat \ {0}

VARIABLES
  entries, sequence,          \* the worker's ring
  connecting, refreshing, generation,
  calls                       \* under way

worker == <<instance, entries, sequence>>
tab == <<connected, connecting, refreshing, generation, logs, cursor,
         instanceId, truncated>>
vars == <<worker, tab, calls>>

Event == [instance : 1..MaxInstance, sequence : 1..MaxSequence]

\* What became of a request: under way, failed or timed out, refused (401 or
\* 403), or answered.
Sent == [is |-> "sent"]
Failed == [is |-> "failed"]
Refused == [is |-> "refused"]
Unanswered == {Sent, Failed, Refused}
StatusReply == Unanswered \cup [is : {"ok"}, instance_id : 1..MaxInstance]

IsPage(p) ==
  /\ Len(p.entries) <= PAGE_LIMIT
  /\ \A i \in DOMAIN p.entries : p.entries[i] \in Event
  /\ {p.next_cursor, p.dropped_before} \subseteq 0..MaxSequence
  /\ p.truncated \in BOOLEAN

(* Every variable has its type, and neither the ring nor the tab's list    *)
(* grows past its capacity.                                                *)
TypeOK ==
  /\ instance \in 1..MaxInstance
  /\ Len(entries) <= LOG_CAPACITY
  /\ \A i \in DOMAIN entries : entries[i] \in Event
  /\ sequence \in 1..MaxSequence
  /\ {connected, connecting, refreshing, truncated} \subseteq BOOLEAN
  /\ generation \in 0..MaxGeneration
  /\ Len(logs) <= TAB_CAPACITY
  /\ \A i \in DOMAIN logs : logs[i] \in Event
  /\ cursor \in 0..MaxSequence
  /\ instanceId \in 0..MaxInstance
  /\ \A c \in calls :
       /\ c.generation \in 1..generation /\ c.after \in 0..MaxSequence
       /\ c.status \in StatusReply
       /\ c.logs \in Unanswered \/ IsPage(c.logs.page)

-----------------------------------------------------------------------------
(* The journal.                                                            *)

\* ConsoleState::new: a new process with its first event.
FreshJournal(i) ==
  /\ instance' = i
  /\ entries' = <<[instance |-> i, sequence |-> 1]>>
  /\ sequence' = 1

Init ==
  /\ instance = 1
  /\ entries = <<[instance |-> 1, sequence |-> 1]>>
  /\ sequence = 1
  /\ connected = FALSE /\ connecting = FALSE /\ refreshing = FALSE
  /\ generation = 0
  /\ logs = <<>> /\ cursor = 0 /\ instanceId = 0 /\ truncated = FALSE
  /\ calls = {}

push ==
  /\ sequence < MaxSequence
  /\ sequence' = sequence + 1
  /\ entries' = Append(IF Len(entries) = LOG_CAPACITY THEN Tail(entries)
                       ELSE entries,
                       [instance |-> instance, sequence |-> sequence + 1])
  /\ UNCHANGED <<instance, tab, calls>>

Restart ==
  /\ instance < MaxInstance
  /\ FreshJournal(instance + 1)
  /\ UNCHANGED <<tab, calls>>

page(after) ==
  LET newer == Kept(entries, {e \in Event : e.sequence > after})
      found == SubSeq(newer, 1, IF Len(newer) < PAGE_LIMIT THEN Len(newer)
                                ELSE PAGE_LIMIT)
      dropped == IF entries = <<>> THEN 0 ELSE Head(entries).sequence - 1 IN
  [entries |-> found,
   next_cursor |-> IF found = <<>> THEN sequence
                   ELSE found[Len(found)].sequence,
   dropped_before |-> dropped,
   truncated |-> after < dropped]

-----------------------------------------------------------------------------
(* Calls.                                                                  *)

NewCall(kind, gen, after) ==
  [kind |-> kind, generation |-> gen, after |-> after, status |-> Sent,
   logs |-> IF kind = "refresh" THEN Sent ELSE Failed]

\* refresh: nothing while another one is under way.
Refreshes(gen, after) ==
  IF refreshing THEN {} ELSE {NewCall("refresh", gen, after)}

Replace(c, d) == calls' = (calls \ {c}) \cup {d} /\ UNCHANGED <<worker, tab>>

\* The worker answers.
ServeStatus(c) ==
  /\ c.status = Sent
  /\ Replace(c, [c EXCEPT !.status = [is |-> "ok", instance_id |-> instance]])

ServeLogs(c) ==
  /\ c.logs = Sent
  /\ Replace(c, [c EXCEPT !.logs = [is |-> "ok", page |-> page(c.after)]])

\* The request or its answer is lost, or 12 seconds pass; or the worker,
\* restarted with another token, refuses it.
LoseStatus(c) == c.status = Sent /\ Replace(c, [c EXCEPT !.status = Failed])
LoseLogs(c) == c.logs = Sent /\ Replace(c, [c EXCEPT !.logs = Failed])
RefuseStatus(c) == c.status = Sent /\ Replace(c, [c EXCEPT !.status = Refused])
RefuseLogs(c) == c.logs = Sent /\ Replace(c, [c EXCEPT !.logs = Refused])

Settled(c) == c.status # Sent /\ c.logs # Sent

-----------------------------------------------------------------------------
(* The tab.                                                                *)

\* Submitting the token; the panel is hidden while connected.  The bound
\* leaves room for the disconnection.
Connect ==
  /\ ~connected /\ ~connecting
  /\ generation + 1 < MaxGeneration
  /\ connecting' = TRUE
  /\ generation' = generation + 1
  /\ calls' = calls \cup {NewCall("connect", generation + 1, 0)}
  /\ UNCHANGED <<worker, connected, refreshing, logs, cursor, instanceId,
                 truncated>>

\* Mutated form: a refresh under way keeps the tab from ever refreshing.
DisconnectBusy ==
  /\ generation' = generation + 1
  /\ connected' = FALSE /\ connecting' = FALSE
  /\ UNCHANGED <<refreshing, logs, cursor, instanceId, truncated>>

disconnect ==
  /\ generation' = generation + 1
  /\ connected' = FALSE /\ connecting' = FALSE /\ refreshing' = FALSE
  /\ UNCHANGED <<logs, cursor, instanceId, truncated>>

\* The operator disconnects.
Disconnect ==
  /\ connected
  /\ disconnect
  /\ UNCHANGED <<worker, calls>>

\* The timer, a click, or the tab becoming visible.
Refresh ==
  /\ connected /\ ~refreshing
  /\ refreshing' = TRUE
  /\ calls' = calls \cup Refreshes(generation, cursor)
  /\ UNCHANGED <<worker, connected, connecting, generation, logs, cursor,
                 instanceId, truncated>>

\* Answers to calls of an earlier generation are dropped.
Current(c) == c.generation = generation

DropLate(c) ==
  /\ Settled(c) /\ ~Current(c)
  /\ calls' = calls \ {c}
  /\ UNCHANGED <<worker, tab>>

\* A connection starts with an empty list and refreshes at once; it is
\* connecting until that first refresh is over.
Connected(c) ==
  /\ c.kind = "connect" /\ Settled(c) /\ Current(c)
  /\ c.status.is = "ok"
  /\ connected' = TRUE /\ connecting' = ~refreshing
  /\ logs' = <<>> /\ cursor' = 0
  /\ instanceId' = c.status.instance_id
  /\ refreshing' = TRUE
  /\ calls' = (calls \ {c}) \cup Refreshes(generation, 0)
  /\ UNCHANGED <<worker, generation, truncated>>

ConnectFailed(c) ==
  /\ c.kind = "connect" /\ Settled(c) /\ Current(c)
  /\ c.status \in {Failed, Refused}
  /\ disconnect
  /\ calls' = calls \ {c}
  /\ UNCHANGED worker

Trimmed(s) ==
  IF Len(s) > TAB_CAPACITY THEN SubSeq(s, Len(s) - TAB_CAPACITY + 1, Len(s))
  ELSE s

\* Events whose number the tab has not seen yet are appended.
appendLogs(p) ==
  LET seen == {logs[i].sequence : i \in DOMAIN logs}
      new == Kept(p.entries, {e \in Event : e.sequence \notin seen}) IN
  /\ logs' = Trimmed(logs \o new)
  /\ cursor' = p.next_cursor
  /\ truncated' = \/ p.truncated \/ p.dropped_before # 0
                  \/ Len(logs') >= TAB_CAPACITY

\* renderStatus: the status comes from another process than the last one.
Restarted(c) ==
  c.status.is = "ok" /\ instanceId # 0 /\ c.status.instance_id # instanceId

\* Mutated form: the page asked for with the former cursor is rendered after
\* a restart as well.
RenderLatePage(c) ==
  \/ /\ Restarted(c) /\ c.logs.is = "ok"
     /\ logs' = c.logs.page.entries /\ cursor' = c.logs.page.next_cursor
     /\ truncated' = c.logs.page.truncated
  \/ /\ ~Restarted(c) /\ c.logs.is = "ok"
     /\ appendLogs(c.logs.page)
  \/ /\ c.logs.is # "ok"
     /\ UNCHANGED <<logs, cursor, truncated>>

\* What a settled refresh does to the list.  The log page of a refresh that
\* discovers a restart was asked for with the former process's cursor.
Render(c) ==
  \/ /\ Restarted(c)
     /\ logs' = <<>> /\ cursor' = 0
     /\ UNCHANGED truncated
  \/ /\ ~Restarted(c) /\ c.logs.is = "ok"
     /\ appendLogs(c.logs.page)
  \/ /\ ~Restarted(c) /\ c.logs.is # "ok"
     /\ UNCHANGED <<logs, cursor, truncated>>

\* All requests of a refresh are settled: what was answered is rendered, then
\* a refusal disconnects (markFailure).
Refreshed(c) ==
  /\ c.kind = "refresh" /\ Settled(c) /\ Current(c)
  /\ instanceId' = IF c.status.is = "ok" THEN c.status.instance_id ELSE instanceId
  /\ Render(c)
  /\ refreshing' = FALSE /\ connecting' = FALSE
  /\ \/ /\ Refused \in {c.status, c.logs}
        /\ connected' = FALSE /\ generation' = generation + 1
     \/ /\ Refused \notin {c.status, c.logs}
        /\ UNCHANGED <<connected, generation>>
  /\ calls' = calls \ {c}
  /\ UNCHANGED worker

-----------------------------------------------------------------------------
Next ==
  \/ push \/ Restart
  \/ Connect \/ Disconnect \/ Refresh
  \/ \E c \in calls :
       \/ ServeStatus(c) \/ ServeLogs(c) \/ LoseStatus(c) \/ LoseLogs(c)
       \/ RefuseStatus(c) \/ RefuseLogs(c)
       \/ DropLate(c) \/ Connected(c) \/ ConnectFailed(c) \/ Refreshed(c)

Spec == Init /\ [][Next]_vars

\* A refresh of the present connection none of whose requests has failed.
Unharmed(c) == Current(c) /\ Failed \notin {c.status, c.logs}

(* Fairness: the tab's timer refreshes every five seconds, every request   *)
(* settles within twelve, and it is not so that every refresh loses a      *)
(* request.                                                                *)
FairSpec ==
  /\ Spec
  /\ WF_vars(Refresh)
  /\ WF_vars(\E c \in calls : LoseStatus(c) \/ LoseLogs(c))
  /\ SF_vars(\E c \in calls : Unharmed(c) /\ ServeStatus(c))
  /\ SF_vars(\E c \in calls : Unharmed(c) /\ ServeLogs(c))
  /\ WF_vars(\E c \in calls : Refreshed(c))

-----------------------------------------------------------------------------
(* Properties.                                                             *)

(* A tab that stays connected hears of every restart and reads the journal *)
(* to its end.                                                             *)
CatchesUp ==
  []<>(~connected \/ (instanceId = instance /\ cursor = sequence))
=============================================================================
