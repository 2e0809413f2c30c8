--------------------------- MODULE AccountPortal ---------------------------
(***************************************************************************)
(* The account page in the browser (crates/psky/src/account.js): one tab   *)
(* that signs in, lists, creates and revokes app passwords, over requests  *)
(* that are answered late, refused or lost, while its user cancels,        *)
(* disconnects or leaves the page at any moment, and another tab changes   *)
(* the passwords as well.                                                  *)
(*                                                                         *)
(* Scripts run one task at a time: from the moment an answer is read to    *)
(* the next await is one step.  The clock is two events: a sign-in request *)
(* expires, and the timer of a grant fires.                                *)
(***************************************************************************)
EXTENDS Integers

CONSTANTS
  Names,           \* password names
  MaxGeneration,   \* bound on the generations of the tab
  MaxStamp,        \* bound on changes to the stored passwords
  MaxVersion       \* bound on the user's requests that ask for a list

ASSUME ConstantsAssumption ==
  {MaxGeneration, MaxStamp, MaxVersion} \subseteq Nat \ {0}

VARIABLES
  tab,             \* the closure's variables and what the page shows
  calls,           \* requests whose answer has not been read
  stored,          \* the node: of each name, the password stored, 0 for none
  stamp            \* the node: changes so far; passwords are numbered by it

vars == <<tab, calls, stored, stamp>>
node == <<stored, stamp>>

None == [is |-> "none"]
Sent == [is |-> "sent"]
\* 401 or 403; any other 4xx but 429; everything else that went wrong.
Refused == [is |-> "refused"]
Rejected == [is |-> "rejected"]
Trouble == [is |-> "trouble"]

Ops == {"status", "login", "poll", "list", "create", "revoke"}

\* A request: its generation and, for lists, the version and the operation
\* that awaits it.
Call(op, t) ==
  [op |-> op, generation |-> t.generation, version |-> 0, owner |-> op,
   name |-> "none", reply |-> Sent]

(* Every variable has its type.                                            *)
TypeOK ==
  /\ tab.generation \in 0..MaxGeneration
  /\ {tab.enabled, tab.pollTimer, tab.grantTimer, tab.busy, tab.starting,
      tab.retry, tab.hidden} \subseteq BOOLEAN
  /\ tab.listVersion \in Nat
  /\ stored \in [Names -> 0..MaxStamp] /\ stamp \in 0..MaxStamp
  /\ \A c \in calls : /\ c.op \in Ops /\ c.generation \in 0..tab.generation
                      /\ c.reply.is \in {"sent", "ok", "refused", "rejected", "trouble"}

-----------------------------------------------------------------------------
(* The tab.                                                                *)

\* loadStatus, up to its request.
LoadingStatus(t) == [t EXCEPT !.busy = TRUE, !.enabled = FALSE, !.retry = FALSE]

NewTab ==
  [generation |-> 0, enabled |-> FALSE, grant |-> None, challenge |-> None,
   pollTimer |-> FALSE, grantTimer |-> FALSE, busy |-> FALSE,
   starting |-> FALSE, revealed |-> None, listVersion |-> 0, shown |-> None,
   retry |-> FALSE, hidden |-> FALSE]

Init ==
  /\ tab = LoadingStatus(NewTab)
  /\ calls = {Call("status", NewTab)}
  /\ stored = [n \in Names |-> 0] /\ stamp = 0

clearAccess(t) ==
  [t EXCEPT !.generation = @ + 1, !.listVersion = @ + 1,
            !.pollTimer = FALSE, !.grantTimer = FALSE,
            !.grant = None, !.challenge = None,
            !.busy = FALSE, !.starting = FALSE,
            !.revealed = None, !.shown = None]

\* A list is asked for.
Listing(t) == [t EXCEPT !.listVersion = @ + 1]
ListCall(t, owner) ==
  [Call("list", t) EXCEPT !.version = t.listVersion + 1, !.owner = owner]

Step(t, cs) == tab' = t /\ calls' = cs

\* What the user may do: the buttons are shown and enabled by renderActions.
RetryStatus ==
  /\ ~tab.hidden /\ tab.retry
  /\ Step(LoadingStatus(tab), calls \cup {Call("status", tab)})
  /\ UNCHANGED node

\* The bound leaves room for the end of the sign-in.
startLogin ==
  /\ ~tab.hidden /\ tab.enabled /\ ~tab.busy
  /\ tab.grant = None /\ tab.challenge = None
  /\ tab.generation + 1 < MaxGeneration
  /\ LET t == [clearAccess(tab) EXCEPT !.busy = TRUE, !.starting = TRUE] IN
     Step(t, calls \cup {Call("login", t)})
  /\ UNCHANGED node

Disconnect ==
  /\ ~tab.hidden
  /\ tab.grant # None \/ tab.challenge # None \/ tab.starting
  /\ Step(clearAccess(tab), calls)
  /\ UNCHANGED node

RefreshPasswords ==
  /\ ~tab.hidden /\ tab.grant # None /\ ~tab.busy
  /\ tab.listVersion < MaxVersion
  /\ Step(Listing(tab), calls \cup {ListCall(tab, "list")})
  /\ UNCHANGED node

createPassword(n) ==
  /\ ~tab.hidden /\ tab.grant # None /\ ~tab.busy
  /\ tab.listVersion < MaxVersion
  /\ Step([tab EXCEPT !.busy = TRUE, !.revealed = None],
          calls \cup {[Call("create", tab) EXCEPT !.name = n]})
  /\ UNCHANGED node

\* Revoke buttons are those of the list shown.
revokePassword(n) ==
  /\ ~tab.hidden /\ tab.grant # None /\ ~tab.busy
  /\ tab.shown # None /\ n \in tab.shown.names
  /\ tab.listVersion < MaxVersion
  /\ Step([tab EXCEPT !.busy = TRUE],
          calls \cup {[Call("revoke", tab) EXCEPT !.name = n]})
  /\ UNCHANGED node

DismissPassword ==
  /\ ~tab.hidden /\ tab.revealed # None
  /\ Step([tab EXCEPT !.revealed = None], calls)
  /\ UNCHANGED node

\* The page is left, and perhaps shown again out of the browser's cache.
PageHide ==
  /\ ~tab.hidden /\ tab.generation < MaxGeneration
  /\ Step([clearAccess(tab) EXCEPT !.hidden = TRUE], calls)
  /\ UNCHANGED node

PageShow ==
  /\ tab.hidden
  /\ LET t == [LoadingStatus(tab) EXCEPT !.hidden = FALSE] IN
     Step(t, calls \cup {Call("status", t)})
  /\ UNCHANGED node

\* Timers.
ChallengeExpires ==
  /\ tab.challenge # None /\ ~tab.challenge.expired
  /\ tab' = [tab EXCEPT !.challenge.expired = TRUE]
  /\ UNCHANGED <<calls, node>>

\* pollLogin, up to its request.
pollLogin ==
  /\ tab.pollTimer
  /\ \/ /\ tab.challenge.expired
        /\ Step(clearAccess(tab), calls)
     \/ /\ ~tab.challenge.expired
        /\ Step([tab EXCEPT !.pollTimer = FALSE], calls \cup {Call("poll", tab)})
  /\ UNCHANGED node

GrantTimer ==
  /\ tab.grantTimer
  /\ Step(clearAccess(tab), calls)
  /\ UNCHANGED node

-----------------------------------------------------------------------------
(* The node and the network.                                               *)

Answer(c, r) == calls' = (calls \ {c}) \cup {[c EXCEPT !.reply = r]}

Change(n, p) ==
  /\ stamp < MaxStamp
  /\ stamp' = stamp + 1
  /\ stored' = [stored EXCEPT ![n] = p]

Listed == {n \in Names : stored[n] # 0}

Serve(c) ==
  /\ c.reply = Sent
  /\ \/ /\ c.op = "status"
        /\ \E e \in BOOLEAN : Answer(c, [is |-> "ok", enabled |-> e])
        /\ UNCHANGED node
     \/ /\ c.op = "login"
        /\ Answer(c, [is |-> "ok"])
        /\ UNCHANGED node
     \/ /\ c.op = "poll"
        /\ \E s \in {"pending", "complete", "expired"} :
             Answer(c, [is |-> "ok", status |-> s])
        /\ UNCHANGED node
     \/ /\ c.op = "list"
        /\ Answer(c, [is |-> "ok", stamp |-> stamp, names |-> Listed])
        /\ UNCHANGED node
     \/ /\ c.op = "create" /\ stored[c.name] = 0
        /\ Change(c.name, stamp + 1)
        /\ Answer(c, [is |-> "ok", password |-> stamp + 1])
     \* revoking what is not there succeeds too
     \/ /\ c.op = "revoke"
        /\ \/ stored[c.name] # 0 /\ Change(c.name, 0)
           \/ stored[c.name] = 0 /\ UNCHANGED node
        /\ Answer(c, [is |-> "ok", password |-> stored[c.name]])
  /\ UNCHANGED tab

\* The request is refused, or lost before or after it took effect; requests
\* are aborted after 20 seconds.
Fail(c) ==
  /\ c.reply = Sent
  /\ \E r \in {Refused, Rejected, Trouble} : Answer(c, r)
  /\ UNCHANGED <<tab, node>>

LoseAnswer(c) ==
  /\ c.reply.is = "ok" /\ c.op \in {"poll", "create", "revoke"}
  /\ Answer(c, Trouble)
  /\ UNCHANGED <<tab, node>>

\* Another tab creates or revokes a password.
OtherTab(n) ==
  /\ Change(n, IF stored[n] = 0 THEN stamp + 1 ELSE 0)
  /\ UNCHANGED <<tab, calls>>

-----------------------------------------------------------------------------
(* Answers.                                                                *)

\* Mutated form: an answer counts whatever the generation.
Any(c) == c.reply # Sent /\ ~tab.hidden

\* request: answers to an earlier generation are thrown away.
Current(c) ==
  c.reply # Sent /\ c.generation = tab.generation /\ ~tab.hidden

Stale(c) ==
  /\ c.reply # Sent /\ c.generation # tab.generation
  /\ calls' = calls \ {c}
  /\ UNCHANGED <<tab, node>>

Rest(c) == calls \ {c}

StatusAnswered(c) ==
  /\ c.op = "status" /\ Current(c)
  /\ \/ /\ c.reply.is = "ok"
        /\ Step([tab EXCEPT !.enabled = c.reply.enabled, !.busy = FALSE], Rest(c))
     \/ /\ c.reply.is # "ok"
        /\ Step([tab EXCEPT !.retry = TRUE, !.busy = FALSE], Rest(c))
  /\ UNCHANGED node

LoginAnswered(c) ==
  /\ c.op = "login" /\ Current(c)
  /\ LET t == [tab EXCEPT !.busy = FALSE, !.starting = FALSE] IN
     \/ /\ c.reply.is = "ok"
        /\ Step([t EXCEPT !.challenge = [expired |-> FALSE,
                                         generation |-> c.generation],
                          !.pollTimer = TRUE], Rest(c))
     \/ /\ c.reply.is # "ok"
        /\ Step(t, Rest(c))
  /\ UNCHANGED node

Polled(c, status) == c.reply.is = "ok" /\ c.reply.status = status

\* Mutated form: polling ends with the first answer that cannot be used.
PollGivesUp(c) ==
  /\ c.op = "poll" /\ Current(c)
  /\ \/ /\ Polled(c, "pending")
        /\ Step([tab EXCEPT !.pollTimer = TRUE], Rest(c))
     \/ /\ c.reply = Trouble
        /\ Step(tab, Rest(c))
  /\ UNCHANGED node

\* The grant belongs to the sign-in of its generation.
PollAnswered(c) ==
  /\ c.op = "poll" /\ Current(c)
  /\ \/ /\ Polled(c, "pending") \/ c.reply = Trouble
        /\ Step([tab EXCEPT !.pollTimer = TRUE], Rest(c))
     \/ /\ Polled(c, "complete")
        /\ LET t == [tab EXCEPT
                       !.grant = [generation |-> tab.challenge.generation],
                       !.challenge = None, !.grantTimer = TRUE] IN
           Step(Listing(t), Rest(c) \cup {ListCall(t, "poll")})
     \/ /\ Polled(c, "expired") \/ c.reply \in {Refused, Rejected}
        /\ Step(clearAccess(tab), Rest(c))
  /\ UNCHANGED node

\* Mutated form: the last answer wins.
AnyVersion(c) == TRUE

Newest(c) == c.version = tab.listVersion

\* The end of loadPasswords, and of the operation that awaits it.
ListAnswered(c) ==
  /\ c.op = "list" /\ Current(c)
  /\ LET t == [tab EXCEPT !.busy = IF c.owner \in {"create", "revoke"}
                                   THEN FALSE ELSE @] IN
     \/ /\ Newest(c) /\ c.reply.is = "ok"
        /\ Step([t EXCEPT !.shown = [stamp |-> c.reply.stamp,
                                     names |-> c.reply.names,
                                     generation |-> c.generation]], Rest(c))
     \/ /\ Newest(c) /\ c.reply = Refused
        /\ Step(clearAccess(tab), Rest(c))
     \/ /\ ~Newest(c) \/ c.reply \in {Rejected, Trouble}
        /\ Step(t, Rest(c))
  /\ UNCHANGED node

\* passwordError for create and revoke.
ChangeFailed(c) ==
  /\ c.op \in {"create", "revoke"} /\ Current(c)
  /\ \/ c.reply = Refused /\ Step(clearAccess(tab), Rest(c))
     \/ c.reply \in {Rejected, Trouble} /\ Step([tab EXCEPT !.busy = FALSE], Rest(c))
  /\ UNCHANGED node

Created(c) ==
  /\ c.op = "create" /\ Current(c) /\ c.reply.is = "ok"
  /\ LET t == [tab EXCEPT !.revealed = [name |-> c.name,
                                        password |-> c.reply.password,
                                        generation |-> c.generation]] IN
     Step(Listing(t), Rest(c) \cup {ListCall(t, "create")})
  /\ UNCHANGED node

\* What is left to see once the password of this name is revoked.
Unrevealed(n) ==
  IF tab.revealed # None /\ tab.revealed.name = n THEN None ELSE tab.revealed

Revoked(c) ==
  /\ c.op = "revoke" /\ Current(c) /\ c.reply.is = "ok"
  /\ LET t == [tab EXCEPT !.revealed = Unrevealed(c.name)] IN
     Step(Listing(t), Rest(c) \cup {ListCall(t, "revoke")})
  /\ UNCHANGED node

-----------------------------------------------------------------------------
Read(c) ==
  \/ Stale(c) \/ StatusAnswered(c) \/ LoginAnswered(c) \/ PollAnswered(c)
  \/ ListAnswered(c) \/ ChangeFailed(c) \/ Created(c) \/ Revoked(c)

Next ==
  \/ RetryStatus \/ startLogin \/ Disconnect \/ RefreshPasswords
  \/ DismissPassword \/ PageHide \/ PageShow
  \/ ChallengeExpires \/ pollLogin \/ GrantTimer
  \/ \E n \in Names : createPassword(n) \/ revokePassword(n) \/ OtherTab(n)
  \/ \E c \in calls : Serve(c) \/ Fail(c) \/ LoseAnswer(c) \/ Read(c)

Spec == Init /\ [][Next]_vars

(* Fairness: requests are answered or aborted after 20 seconds, answers    *)
(* are read, the poll timer fires after 3 seconds, and time passes.        *)
FairSpec ==
  /\ Spec
  /\ WF_vars(\E c \in calls : Fail(c))
  /\ WF_vars(\E c \in calls : Read(c))
  /\ WF_vars(pollLogin) /\ WF_vars(ChallengeExpires)

-----------------------------------------------------------------------------
(* Properties.                                                             *)

(* Whatever the page holds or shows, a grant, a password or a list, was    *)
(* asked for after access was last cleared, and a hidden page holds none:  *)
(* no late answer reconnects a disconnected tab or reveals a password in   *)
(* it (request, clearAccess).                                              *)
LateAnswersRevealNothing ==
  /\ \A held \in {tab.grant, tab.challenge, tab.revealed, tab.shown} \ {None} :
       held.generation = tab.generation /\ ~tab.hidden
  /\ tab.revealed # None \/ tab.shown # None => tab.grant # None

(* The list on the page is only ever replaced by one read later at the     *)
(* node, in whatever order the answers come (listVersion).                 *)
ListNeverGoesBack ==
  [][tab.shown # None /\ tab'.shown # None =>
       tab'.shown.stamp >= tab.shown.stamp]_vars

(* A sign-in comes to an end, with a grant or without, although every poll *)
(* may fail, and the page does not stay busy.                              *)
SignInEnds == []<>(tab.challenge = None) /\ []<>(~tab.busy)
=============================================================================
