------------------------- MODULE AccountPortalProofs ------------------------
(***************************************************************************)
(* No late answer shows anything on the account page, and its list never   *)
(* goes back, for any number of names, requests, departures and changes.   *)
(*                                                                         *)
(* The first rests on the generations: a request of the present one was    *)
(* sent by the sign-in or grant the tab still has (Standing), and there is *)
(* at most one login, one poll (Single).  The second rests on the          *)
(* versions: at most one list has the newest, it was asked for after the   *)
(* list on the page was read, and the node only moves on (Ordered).        *)
(***************************************************************************)
EXTENDS AccountPortal, TLAPS

OkReply ==
  [is : {"ok"}] \cup [is : {"ok"}, enabled : BOOLEAN]
  \cup [is : {"ok"}, status : {"pending", "complete", "expired"}]
  \cup [is : {"ok"}, stamp : Nat, names : SUBSET Names]
  \cup [is : {"ok"}, password : Nat]

TabRecord ==
  [generation : Nat, enabled : BOOLEAN,
   grant : [generation : Nat] \cup {None},
   challenge : [expired : BOOLEAN, generation : Nat] \cup {None},
   pollTimer : BOOLEAN, grantTimer : BOOLEAN, busy : BOOLEAN,
   starting : BOOLEAN,
   revealed : [name : Names \cup {"none"}, password : Nat, generation : Nat]
                \cup {None},
   listVersion : Nat,
   shown : [stamp : Nat, names : SUBSET Names, generation : Nat] \cup {None},
   retry : BOOLEAN, hidden : BOOLEAN]

CallRecord ==
  [op : Ops, generation : Nat, version : Nat, owner : Ops,
   name : Names \cup {"none"},
   reply : {Sent, Refused, Rejected, Trouble} \cup OkReply]

\* A change names its password, and the node answers each request in its
\* own form.
InForm(c) ==
  /\ c.op \in {"create", "revoke"} => c.name \in Names
  /\ c.reply.is = "ok" =>
       /\ c.op = "status" => c.reply \in [is : {"ok"}, enabled : BOOLEAN]
       /\ c.op = "poll" =>
            c.reply \in [is : {"ok"}, status : {"pending", "complete", "expired"}]
       /\ c.op = "list" =>
            c.reply \in [is : {"ok"}, stamp : Nat, names : SUBSET Names]
       /\ c.op \in {"create", "revoke"} =>
            c.reply \in [is : {"ok"}, password : Nat]

Typed ==
  /\ tab \in TabRecord
  /\ stored \in [Names -> 0..MaxStamp] /\ stamp \in 0..MaxStamp
  /\ \A c \in calls : c \in CallRecord /\ InForm(c)

Connected == tab.grant # None \/ tab.challenge # None \/ tab.starting

\* A tab with a timer or an access to clear is on display, and within the
\* bound on generations.
Clearable ==
  /\ tab.generation <= MaxGeneration
  /\ Connected => tab.generation < MaxGeneration /\ ~tab.hidden
  /\ tab.pollTimer => tab.challenge # None
  /\ tab.grantTimer => tab.grant # None

\* What a request of the present generation shows of the tab.
Standing(c) ==
  /\ ~tab.hidden
  /\ c.op = "login" => /\ tab.starting /\ tab.challenge = None
                       /\ tab.grant = None
  /\ c.op = "poll" => tab.challenge # None /\ ~tab.pollTimer
  /\ c.op \in {"list", "create", "revoke"} => tab.grant # None

Present(c) == c.generation = tab.generation
NewestList(c) == c.op = "list" /\ c.version = tab.listVersion

Sound ==
  \A c \in calls :
    /\ c.generation <= tab.generation
    /\ Present(c) => Standing(c)
    /\ c.op = "list" => c.version <= tab.listVersion

Single ==
  \A c, d \in calls :
    \/ /\ Present(c) /\ Present(d)
       /\ c.op = d.op /\ c.op \in {"login", "poll"}
    \/ NewestList(c) /\ NewestList(d)
    => c = d

Ordered ==
  /\ tab.shown # None => tab.shown.stamp <= stamp
  /\ \A c \in calls :
       c.op = "list" /\ c.reply.is = "ok" =>
         /\ c.reply.stamp <= stamp
         /\ NewestList(c) /\ tab.shown # None => tab.shown.stamp <= c.reply.stamp

Inv == /\ Typed /\ Clearable /\ Sound /\ Single /\ Ordered
       /\ LateAnswersRevealNothing

USE DEF vars, node

(* What a tab holds is told from nothing by its fields.                    *)
LEMMA HeldIsSomething ==
  /\ None \notin [generation : Nat]
  /\ None \notin [expired : BOOLEAN, generation : Nat]
  /\ None \notin [name : Names \cup {"none"}, password : Nat, generation : Nat]
  /\ None \notin [stamp : Nat, names : SUBSET Names, generation : Nat]
BY DEF None

(* The replies that are no answers, and the one that has not come.         *)
LEMMA ReplyKinds ==
  /\ Sent.is = "sent" /\ Refused.is = "refused" /\ Rejected.is = "rejected"
  /\ Trouble.is = "trouble"
  /\ \A r \in OkReply : r.is = "ok" /\ r # Sent
BY DEF Sent, Refused, Rejected, Trouble, OkReply

(* A request as it is sent.                                                *)
LEMMA CallFacts ==
  ASSUME NEW t \in TabRecord, NEW op \in Ops, NEW n \in Names
  PROVE  /\ Call(op, t) \in CallRecord /\ Call(op, t).op = op
         /\ Call(op, t).generation = t.generation /\ Call(op, t).reply = Sent
         /\ [Call(op, t) EXCEPT !.name = n] \in CallRecord
         /\ [Call(op, t) EXCEPT !.name = n].op = op
         /\ [Call(op, t) EXCEPT !.name = n].generation = t.generation
         /\ [Call(op, t) EXCEPT !.name = n].reply = Sent
         /\ [Call(op, t) EXCEPT !.name = n].name = n
<1>1. t.generation \in Nat
  BY DEF TabRecord
<1>2. /\ Call(op, t) \in CallRecord /\ Call(op, t).op = op
      /\ Call(op, t).generation = t.generation /\ Call(op, t).reply = Sent
  BY <1>1 DEF Call, CallRecord
<1>3. ASSUME NEW c \in CallRecord
      PROVE  /\ [c EXCEPT !.name = n] \in CallRecord
             /\ [c EXCEPT !.name = n].op = c.op
             /\ [c EXCEPT !.name = n].generation = c.generation
             /\ [c EXCEPT !.name = n].reply = c.reply
             /\ [c EXCEPT !.name = n].name = n
  BY DEF CallRecord
<1> QED
  BY <1>2, <1>3

(* A list as it is asked for.                                              *)
LEMMA ListCallFacts ==
  ASSUME NEW t \in TabRecord, NEW owner \in Ops
  PROVE  /\ ListCall(t, owner) \in CallRecord /\ ListCall(t, owner).op = "list"
         /\ ListCall(t, owner).generation = t.generation
         /\ ListCall(t, owner).version = t.listVersion + 1
         /\ ListCall(t, owner).reply = Sent
<1>1. t.listVersion + 1 \in Nat /\ Call("list", t) \in CallRecord
      /\ Call("list", t).op = "list"
      /\ Call("list", t).generation = t.generation
      /\ Call("list", t).reply = Sent
  BY DEF Call, CallRecord, TabRecord, Ops
<1> QED
  BY <1>1 DEF ListCall, CallRecord

(* The page starts with nothing but the request for its status.            *)
LEMMA InitInv == Init => Inv
<1> SUFFICES ASSUME Init PROVE Inv
  OBVIOUS
<1>1. /\ tab \in TabRecord /\ tab.generation = 0 /\ ~tab.hidden
      /\ tab.grant = None /\ tab.challenge = None /\ ~tab.starting
      /\ tab.revealed = None /\ tab.shown = None
      /\ ~tab.pollTimer /\ ~tab.grantTimer
  BY DEF Init, LoadingStatus, NewTab, TabRecord
<1>2. NewTab \in TabRecord /\ NewTab.generation = 0
  BY DEF NewTab, TabRecord
<1>3. PICK c : calls = {c} /\ c = Call("status", NewTab)
  BY DEF Init
<1>4. /\ c \in CallRecord /\ c.op = "status" /\ c.generation = 0
      /\ c.reply = Sent
  BY <1>2, <1>3 DEF Call, CallRecord, Ops
<1>5. c.reply.is # "ok"
  BY <1>4, ReplyKinds
<1>6. Typed
  BY <1>1, <1>3, <1>4, <1>5, ConstantsAssumption DEF Init, Typed, InForm
<1>7. Clearable
  BY <1>1, ConstantsAssumption DEF Clearable, Connected
<1> QED
  BY <1>1, <1>3, <1>4, <1>5, <1>6, <1>7
  DEF Inv, Sound, Single, Ordered, Standing, Present, NewestList,
      LateAnswersRevealNothing

(* A step of the tab that sends nothing keeps the invariant, if it says    *)
(* nothing that requests under way would contradict.                       *)
LEMMA KeepInv ==
  ASSUME Inv, UNCHANGED node, calls' \subseteq calls,
         tab' \in TabRecord, tab'.generation = tab.generation,
         tab'.listVersion = tab.listVersion,
         Clearable', LateAnswersRevealNothing',
         \A c \in calls' : Present(c) => Standing(c)',
         tab'.shown # None =>
           /\ tab'.shown.stamp <= stamp
           /\ \A c \in calls' : NewestList(c) /\ c.reply.is = "ok" =>
                tab'.shown.stamp <= c.reply.stamp
  PROVE  Inv'
<1>1. Typed'
  BY DEF Inv, Typed, InForm
<1>2. Sound' /\ Single' /\ Ordered'
  BY DEF Inv, Sound, Single, Ordered, Present, NewestList
<1> QED
  BY <1>1, <1>2 DEF Inv

(* A step of the tab that sends a request keeps the invariant, if the tab  *)
(* has what the request shows of it and has sent no other of its kind.     *)
LEMMA SendInv ==
  ASSUME Inv, UNCHANGED node, NEW old, old \subseteq calls,
         NEW sent \in CallRecord, calls' = old \cup {sent}, sent.reply = Sent,
         tab' \in TabRecord, tab'.generation = tab.generation,
         sent.generation = tab.generation, tab'.shown = tab.shown,
         sent.op \in {"create", "revoke"} => sent.name \in Names,
         Clearable', LateAnswersRevealNothing',
         \A c \in calls' : Present(c) => Standing(c)',
         sent.op \in {"login", "poll"} =>
           \A c \in old : ~(Present(c) /\ c.op = sent.op),
         \/ sent.op # "list" /\ tab'.listVersion = tab.listVersion
         \/ /\ tab'.listVersion = tab.listVersion + 1
            /\ sent.version = tab'.listVersion
  PROVE  Inv'
<1>1. sent.reply.is # "ok"
  BY ReplyKinds
<1>2. Typed'
  BY <1>1 DEF Inv, Typed, InForm
<1>3. tab.generation \in Nat /\ tab.listVersion \in Nat
  BY DEF Inv, Typed, TabRecord
<1>4. \A c \in old : c.op = "list" => c.version \in Nat
                                      /\ c.version <= tab.listVersion
  BY DEF Inv, Typed, Sound, CallRecord
<1>5. Sound'
  BY <1>3, <1>4 DEF Inv, Sound, Present
<1>6. Single'
  <2> SUFFICES ASSUME NEW c \in calls', NEW d \in calls',
                      \/ /\ Present(c)' /\ Present(d)'
                         /\ c.op = d.op /\ c.op \in {"login", "poll"}
                      \/ NewestList(c)' /\ NewestList(d)'
               PROVE  c = d
    BY DEF Single
  <2>1. CASE c = sent \/ d = sent
    BY <1>3, <1>4, <2>1 DEF Present, NewestList
  <2>2. CASE c \in old /\ d \in old
    BY <1>3, <1>4, <2>2 DEF Inv, Single, Present, NewestList
  <2> QED
    BY <2>1, <2>2
<1>7. Ordered'
  BY <1>1, <1>3, <1>4 DEF Inv, Ordered, NewestList
<1> QED
  BY <1>2, <1>5, <1>6, <1>7 DEF Inv

(* Clearing the access ends the generation of every request under way, and *)
(* the version of every list.                                              *)
LEMMA ClearInv ==
  ASSUME Inv, UNCHANGED node, calls' \subseteq calls, tab' \in TabRecord,
         tab.generation < MaxGeneration,
         tab'.generation = tab.generation + 1,
         tab'.listVersion = tab.listVersion + 1,
         tab'.grant = None, tab'.challenge = None, ~tab'.starting,
         ~tab'.pollTimer, ~tab'.grantTimer,
         tab'.revealed = None, tab'.shown = None
  PROVE  Inv'
<1>1. Typed'
  BY DEF Inv, Typed, InForm
<1>2. /\ tab.generation \in Nat /\ tab.listVersion \in Nat /\ MaxGeneration \in Nat
      /\ \A c \in calls : c \in CallRecord
  BY ConstantsAssumption DEF Inv, Typed, TabRecord
<1>3. \A c \in calls : /\ c.generation \in Nat
                       /\ c.generation <= tab.generation
                       /\ c.op = "list" => c.version \in Nat
                                           /\ c.version <= tab.listVersion
  BY <1>2 DEF Inv, Sound, CallRecord
<1>4. Clearable'
  BY <1>2 DEF Clearable, Connected
<1>5. Sound' /\ Single' /\ Ordered'
  BY <1>2, <1>3 DEF Inv, Sound, Single, Ordered, Present, NewestList
<1>6. LateAnswersRevealNothing'
  BY DEF LateAnswersRevealNothing
<1> QED
  BY <1>1, <1>4, <1>5, <1>6 DEF Inv

(* What clearAccess leaves.                                                *)
LEMMA ClearedTab ==
  ASSUME NEW t \in TabRecord
  PROVE  /\ clearAccess(t) \in TabRecord
         /\ clearAccess(t).generation = t.generation + 1
         /\ clearAccess(t).listVersion = t.listVersion + 1
         /\ clearAccess(t).grant = None /\ clearAccess(t).challenge = None
         /\ ~clearAccess(t).starting
         /\ ~clearAccess(t).pollTimer /\ ~clearAccess(t).grantTimer
         /\ clearAccess(t).revealed = None /\ clearAccess(t).shown = None
         /\ clearAccess(t).hidden = t.hidden
<1>1. t.generation + 1 \in Nat /\ t.listVersion + 1 \in Nat
  BY DEF TabRecord
<1>2. clearAccess(t) \in TabRecord
  BY <1>1, ZenonT(60) DEF clearAccess, TabRecord
<1>3. /\ clearAccess(t).generation = t.generation + 1
      /\ clearAccess(t).listVersion = t.listVersion + 1
      /\ clearAccess(t).grant = None /\ clearAccess(t).challenge = None
  BY ZenonT(60) DEF clearAccess, TabRecord
<1>4. /\ ~clearAccess(t).starting
      /\ ~clearAccess(t).pollTimer /\ ~clearAccess(t).grantTimer
      /\ clearAccess(t).revealed = None /\ clearAccess(t).shown = None
      /\ clearAccess(t).hidden = t.hidden
  BY ZenonT(60) DEF clearAccess, TabRecord
<1> QED
  BY <1>2, <1>3, <1>4

\* The sign-in and the grant are as they were.
SameAccess ==
  /\ tab'.generation = tab.generation /\ tab'.hidden = tab.hidden
  /\ tab'.grant = tab.grant /\ tab'.challenge = tab.challenge
  /\ tab'.starting = tab.starting /\ tab'.pollTimer = tab.pollTimer
  /\ tab'.grantTimer = tab.grantTimer

(* While the access stays, requests say of it what they said.              *)
LEMMA SameAccessFacts ==
  ASSUME Inv, SameAccess
  PROVE  /\ Clearable'
         /\ \A c \in calls : Present(c) => Standing(c)'
BY DEF Inv, SameAccess, Clearable, Connected, Sound, Present, Standing

(* What is held, one by one.                                               *)
LEMMA HeldFacts ==
  LateAnswersRevealNothing <=>
    /\ tab.grant # None => tab.grant.generation = tab.generation /\ ~tab.hidden
    /\ tab.challenge # None =>
         tab.challenge.generation = tab.generation /\ ~tab.hidden
    /\ tab.revealed # None =>
         tab.revealed.generation = tab.generation /\ ~tab.hidden
    /\ tab.shown # None => tab.shown.generation = tab.generation /\ ~tab.hidden
    /\ tab.revealed # None \/ tab.shown # None => tab.grant # None
BY DEF LateAnswersRevealNothing

(* What is held stays held by the same generation.                         *)
LEMMA HeldStays ==
  ASSUME Inv, SameAccess,
         tab'.revealed = tab.revealed \/ tab'.revealed = None,
         tab'.shown = tab.shown \/ tab'.shown = None
  PROVE  LateAnswersRevealNothing'
BY DEF Inv, SameAccess, LateAnswersRevealNothing

(* The status of the node is asked for, at first or again.                 *)
LEMMA StatusInv ==
  ASSUME Inv, RetryStatus \/ PageShow
  PROVE  Inv'
<1> DEFINE c == Call("status", tab')
<1>1. tab \in TabRecord
  BY DEF Inv, Typed
<1>2. /\ LoadingStatus(tab) \in TabRecord
      /\ LoadingStatus(tab).generation = tab.generation
      /\ LoadingStatus(tab).listVersion = tab.listVersion
      /\ LoadingStatus(tab).hidden = tab.hidden
      /\ LoadingStatus(tab).grant = tab.grant
      /\ LoadingStatus(tab).challenge = tab.challenge
  BY <1>1, ZenonT(60) DEF LoadingStatus, TabRecord
<1>3. /\ LoadingStatus(tab).starting = tab.starting
      /\ LoadingStatus(tab).pollTimer = tab.pollTimer
      /\ LoadingStatus(tab).grantTimer = tab.grantTimer
      /\ LoadingStatus(tab).revealed = tab.revealed
      /\ LoadingStatus(tab).shown = tab.shown
  BY <1>1, ZenonT(60) DEF LoadingStatus, TabRecord
<1>4. /\ \/ tab' = LoadingStatus(tab) /\ ~tab.hidden
         \/ tab' = [LoadingStatus(tab) EXCEPT !.hidden = FALSE] /\ tab.hidden
      /\ calls' = calls \cup {c} /\ UNCHANGED node
  <2>1. Call("status", LoadingStatus(tab)) = Call("status", tab)
    BY <1>2 DEF Call
  <2> QED
    BY <2>1 DEF RetryStatus, PageShow, Step
<1>5. /\ tab' \in TabRecord /\ ~tab'.hidden
      /\ tab'.generation = tab.generation /\ tab'.listVersion = tab.listVersion
      /\ tab'.grant = tab.grant /\ tab'.challenge = tab.challenge
      /\ tab'.starting = tab.starting /\ tab'.pollTimer = tab.pollTimer
      /\ tab'.grantTimer = tab.grantTimer
      /\ tab'.revealed = tab.revealed /\ tab'.shown = tab.shown
  BY <1>2, <1>3, <1>4 DEF TabRecord
<1>6. c \in CallRecord /\ c.op = "status" /\ c.generation = tab'.generation
      /\ c.reply = Sent
  BY <1>5 DEF Call, CallRecord, Ops, TabRecord
<1> HIDE DEF c
<1>7. Clearable' /\ LateAnswersRevealNothing'
  BY <1>5, HeldFacts DEF Inv, Clearable, Connected, LateAnswersRevealNothing
<1>8. \A d \in calls' : Present(d) => Standing(d)'
  BY <1>4, <1>5, <1>6 DEF Inv, Sound, Present, Standing
<1> QED
  BY <1>4, <1>5, <1>6, <1>7, <1>8, SendInv

(* A sign-in starts in a generation of its own.                            *)
LEMMA StartLoginInv ==
  ASSUME Inv, startLogin
  PROVE  Inv'
<1> DEFINE cleared == clearAccess(tab)
           c == Call("login", tab')
<1>1. /\ tab \in TabRecord /\ tab.generation \in Nat /\ tab.listVersion \in Nat
      /\ \A d \in calls : d \in CallRecord /\ d.generation \in Nat
                          /\ d.version \in Nat
  BY DEF Inv, Typed, TabRecord, CallRecord
<1>2. /\ ~tab.hidden /\ tab.generation + 1 < MaxGeneration
      /\ tab' = [cleared EXCEPT !.busy = TRUE, !.starting = TRUE]
      /\ calls' = calls \cup {c} /\ UNCHANGED node
  BY DEF startLogin, Step
<1>3. /\ cleared \in TabRecord /\ cleared.generation = tab.generation + 1
      /\ cleared.listVersion = tab.listVersion + 1
      /\ cleared.grant = None /\ cleared.challenge = None
      /\ ~cleared.pollTimer /\ ~cleared.grantTimer
      /\ cleared.revealed = None /\ cleared.shown = None
      /\ cleared.hidden = tab.hidden
  BY <1>1, ClearedTab
<1> HIDE DEF cleared
<1>4. /\ tab' \in TabRecord /\ tab'.generation = cleared.generation
      /\ tab'.listVersion = cleared.listVersion /\ tab'.hidden = cleared.hidden
      /\ tab'.grant = cleared.grant /\ tab'.challenge = cleared.challenge
      /\ tab'.starting
  BY <1>2, <1>3, ZenonT(60) DEF TabRecord
<1>5. /\ tab'.pollTimer = cleared.pollTimer
      /\ tab'.grantTimer = cleared.grantTimer
      /\ tab'.revealed = cleared.revealed /\ tab'.shown = cleared.shown
  BY <1>2, <1>3, ZenonT(60) DEF TabRecord
<1>6. c \in CallRecord /\ c.op = "login" /\ c.generation = tab'.generation
      /\ c.reply = Sent
  BY <1>4 DEF Call, CallRecord, Ops, TabRecord
<1>7. c.reply.is # "ok"
  BY <1>6, ReplyKinds
<1> HIDE DEF c
<1>8. Typed'
  BY <1>2, <1>4, <1>6, <1>7 DEF Inv, Typed, InForm
<1>9. Clearable'
  BY <1>1, <1>2, <1>3, <1>4, <1>5, ConstantsAssumption DEF Clearable, Connected
<1>10. Sound' /\ Single' /\ Ordered'
  BY <1>1, <1>2, <1>3, <1>4, <1>5, <1>6, <1>7
  DEF Inv, Sound, Single, Ordered, Present, NewestList, Standing
<1>11. LateAnswersRevealNothing'
  BY <1>3, <1>4, <1>5 DEF LateAnswersRevealNothing
<1> QED
  BY <1>8, <1>9, <1>10, <1>11 DEF Inv

(* Leaving: the user disconnects, the grant or the sign-in runs out, or    *)
(* the page is hidden.                                                     *)
LEMMA LeaveInv ==
  ASSUME Inv, UNCHANGED node, calls' \subseteq calls,
         \/ tab' = clearAccess(tab) /\ Connected
         \/ /\ tab' = [clearAccess(tab) EXCEPT !.hidden = TRUE]
            /\ tab.generation < MaxGeneration
  PROVE  Inv'
<1>1. tab \in TabRecord /\ tab.generation < MaxGeneration
  BY DEF Inv, Typed, Clearable
<1> DEFINE cleared == clearAccess(tab)
<1>2. /\ cleared \in TabRecord /\ cleared.generation = tab.generation + 1
      /\ cleared.listVersion = tab.listVersion + 1
      /\ cleared.grant = None /\ cleared.challenge = None /\ ~cleared.starting
      /\ ~cleared.pollTimer /\ ~cleared.grantTimer
      /\ cleared.revealed = None /\ cleared.shown = None
  BY <1>1, ClearedTab
<1>3. tab' = cleared \/ tab' = [cleared EXCEPT !.hidden = TRUE]
  OBVIOUS
<1> HIDE DEF cleared
<1>4. /\ tab' \in TabRecord /\ tab'.generation = tab.generation + 1
      /\ tab'.listVersion = tab.listVersion + 1
      /\ tab'.grant = None /\ tab'.challenge = None /\ ~tab'.starting
      /\ ~tab'.pollTimer /\ ~tab'.grantTimer
      /\ tab'.revealed = None /\ tab'.shown = None
  BY <1>2, <1>3 DEF TabRecord
<1> QED
  BY <1>1, <1>4, ClearInv

(* The steps of a user who has a grant.                                    *)
LEMMA UseInv ==
  ASSUME Inv,
         \/ RefreshPasswords \/ DismissPassword
         \/ \E n \in Names : createPassword(n) \/ revokePassword(n)
  PROVE  Inv'
<1>1. tab \in TabRecord /\ UNCHANGED node
  BY DEF Inv, Typed, RefreshPasswords, DismissPassword, createPassword,
         revokePassword
<1>2. CASE RefreshPasswords
  <2> DEFINE c == ListCall(tab, "list")
  <2>1. /\ tab' = [tab EXCEPT !.listVersion = @ + 1]
        /\ calls' = calls \cup {c} /\ tab.grant # None /\ ~tab.hidden
    BY <1>2 DEF RefreshPasswords, Step, Listing
  <2>2. /\ tab' \in TabRecord /\ SameAccess
        /\ tab'.listVersion = tab.listVersion + 1
        /\ tab'.revealed = tab.revealed /\ tab'.shown = tab.shown
    BY <1>1, <2>1 DEF TabRecord, SameAccess
  <2>3. /\ c \in CallRecord /\ c.op = "list" /\ c.generation = tab.generation
        /\ c.version = tab.listVersion + 1 /\ c.reply = Sent
    BY <1>1, ListCallFacts DEF Ops
  <2> HIDE DEF c
  <2>4. \A d \in calls' : Present(d) => Standing(d)'
    BY <2>1, <2>2, <2>3, SameAccessFacts DEF Standing, SameAccess
  <2> QED
    BY <1>1, <2>1, <2>2, <2>3, <2>4, SameAccessFacts, HeldStays, SendInv
    DEF SameAccess
<1>3. ASSUME NEW n \in Names, createPassword(n) \/ revokePassword(n)
      PROVE  Inv'
  <2>1. PICK op \in {"create", "revoke"} :
          /\ calls' = calls \cup {[Call(op, tab) EXCEPT !.name = n]}
          /\ \/ tab' = [tab EXCEPT !.busy = TRUE, !.revealed = None]
             \/ tab' = [tab EXCEPT !.busy = TRUE]
          /\ tab.grant # None /\ ~tab.hidden
    BY <1>3 DEF createPassword, revokePassword, Step
  <2> DEFINE c == [Call(op, tab) EXCEPT !.name = n]
  <2>2. /\ tab' \in TabRecord /\ SameAccess
        /\ tab'.listVersion = tab.listVersion
        /\ tab'.revealed = tab.revealed \/ tab'.revealed = None
        /\ tab'.shown = tab.shown
    <3>1. CASE tab' = [tab EXCEPT !.busy = TRUE, !.revealed = None]
      BY <1>1, <3>1, ZenonT(60) DEF TabRecord, SameAccess
    <3>2. CASE tab' = [tab EXCEPT !.busy = TRUE]
      BY <1>1, <3>2, ZenonT(60) DEF TabRecord, SameAccess
    <3> QED
      BY <2>1, <3>1, <3>2
  <2>3. /\ c \in CallRecord /\ c.op = op /\ c.generation = tab.generation
        /\ c.reply = Sent /\ c.name \in Names
    BY <1>1, CallFacts DEF Ops
  <2> HIDE DEF c
  <2>4. calls' = calls \cup {c}
    BY <2>1 DEF c
  <2>5. \A d \in calls' : Present(d) => Standing(d)'
    BY <2>1, <2>2, <2>3, <2>4, SameAccessFacts DEF Standing, SameAccess
  <2> QED
    BY <1>1, <2>2, <2>3, <2>4, <2>5, SameAccessFacts, HeldStays, SendInv
    DEF SameAccess
<1>4. CASE DismissPassword
  <2>1. tab' = [tab EXCEPT !.revealed = None] /\ calls' = calls
    BY <1>4 DEF DismissPassword, Step
  <2>2. /\ tab' \in TabRecord /\ SameAccess
        /\ tab'.listVersion = tab.listVersion
        /\ tab'.revealed = None /\ tab'.shown = tab.shown
    BY <1>1, <2>1 DEF TabRecord, SameAccess
  <2>3. /\ Clearable' /\ LateAnswersRevealNothing'
        /\ \A c \in calls' : Present(c) => Standing(c)'
        /\ tab'.generation = tab.generation
    BY <2>1, <2>2, SameAccessFacts, HeldStays DEF SameAccess
  <2>4. tab'.shown # None =>
          /\ tab'.shown.stamp <= stamp
          /\ \A c \in calls' : NewestList(c) /\ c.reply.is = "ok" =>
               tab'.shown.stamp <= c.reply.stamp
    BY <2>1, <2>2 DEF Inv, Ordered, NewestList
  <2> QED
    BY <1>1, <2>1, <2>2, <2>3, <2>4, KeepInv
<1> QED
  BY <1>2, <1>3, <1>4

(* The sign-in request expires, and the poll timer fires.                  *)
LEMMA PollInv ==
  ASSUME Inv, ChallengeExpires \/ pollLogin
  PROVE  Inv'
<1>1. tab \in TabRecord /\ UNCHANGED node
  BY DEF Inv, Typed, ChallengeExpires, pollLogin
<1>2. CASE ChallengeExpires
  <2>1. /\ tab.challenge \in [expired : BOOLEAN, generation : Nat]
        /\ tab' = [tab EXCEPT !.challenge = [tab.challenge EXCEPT !.expired = TRUE]]
        /\ calls' = calls
    BY <1>1, <1>2 DEF ChallengeExpires, TabRecord
  <2>2. /\ [tab.challenge EXCEPT !.expired = TRUE]
             \in [expired : BOOLEAN, generation : Nat]
        /\ [tab.challenge EXCEPT !.expired = TRUE].generation
             = tab.challenge.generation
    BY <2>1
  <2>3. /\ tab' \in TabRecord
        /\ tab'.generation = tab.generation /\ tab'.hidden = tab.hidden
        /\ tab'.listVersion = tab.listVersion
        /\ tab'.grant = tab.grant /\ tab'.starting = tab.starting
        /\ tab'.pollTimer = tab.pollTimer /\ tab'.grantTimer = tab.grantTimer
        /\ tab'.revealed = tab.revealed /\ tab'.shown = tab.shown
        /\ tab'.challenge = [tab.challenge EXCEPT !.expired = TRUE]
    BY <1>1, <2>1, <2>2, ZenonT(60) DEF TabRecord
  <2>4. /\ tab'.challenge # None /\ tab.challenge # None
        /\ tab'.challenge.generation = tab.challenge.generation
    BY <2>1, <2>2, <2>3, HeldIsSomething
  <2>5. Clearable' /\ LateAnswersRevealNothing'
    BY <2>3, <2>4 DEF Inv, Clearable, Connected, LateAnswersRevealNothing
  <2>6. \A d \in calls' : Present(d) => Standing(d)'
    BY <2>1, <2>3, <2>4 DEF Inv, Sound, Present, Standing
  <2>7. tab'.shown # None =>
          /\ tab'.shown.stamp <= stamp
          /\ \A c \in calls' : NewestList(c) /\ c.reply.is = "ok" =>
               tab'.shown.stamp <= c.reply.stamp
    BY <2>1, <2>3 DEF Inv, Ordered, NewestList
  <2> QED
    BY <1>1, <2>1, <2>3, <2>5, <2>6, <2>7, KeepInv
<1>3. CASE pollLogin
  <2>1. tab.pollTimer /\ tab.challenge # None
    BY <1>3 DEF pollLogin, Inv, Clearable
  <2>2. CASE tab' = clearAccess(tab) /\ calls' = calls
    BY <1>1, <2>1, <2>2, LeaveInv DEF Connected
  <2>3. CASE /\ tab' = [tab EXCEPT !.pollTimer = FALSE]
             /\ calls' = calls \cup {Call("poll", tab)}
    <3> DEFINE c == Call("poll", tab)
    <3>1. /\ tab' \in TabRecord
          /\ tab'.generation = tab.generation /\ tab'.hidden = tab.hidden
          /\ tab'.listVersion = tab.listVersion
          /\ tab'.grant = tab.grant /\ tab'.challenge = tab.challenge
          /\ tab'.starting = tab.starting
          /\ ~tab'.pollTimer /\ tab'.grantTimer = tab.grantTimer
          /\ tab'.revealed = tab.revealed /\ tab'.shown = tab.shown
      BY <1>1, <2>3, ZenonT(60) DEF TabRecord
    <3>2. /\ c \in CallRecord /\ c.op = "poll"
          /\ c.generation = tab.generation /\ c.reply = Sent
      BY <1>1 DEF Call, CallRecord, Ops, TabRecord
    <3> HIDE DEF c
    <3>3. calls' = calls \cup {c}
      BY <2>3 DEF c
    <3>4. Clearable' /\ LateAnswersRevealNothing'
      BY <3>1 DEF Inv, Clearable, Connected, LateAnswersRevealNothing
    <3>5. \A d \in calls' : Present(d) => Standing(d)'
      BY <2>1, <3>1, <3>2, <3>3
      DEF Inv, Sound, Present, Standing, Clearable, Connected
    <3>6. \A d \in calls : ~(Present(d) /\ d.op = "poll")
      BY <2>1 DEF Inv, Sound, Standing
    <3> QED
      BY <1>1, <3>1, <3>2, <3>3, <3>4, <3>5, <3>6, SendInv
  <2> QED
    BY <1>3, <2>2, <2>3 DEF pollLogin, Step
<1> QED
  BY <1>2, <1>3

(* A request is answered in its form, a list with what the node has.       *)
LEMMA AnswerInv ==
  ASSUME Inv, UNCHANGED tab, NEW c \in calls,
         NEW r \in {Sent, Refused, Rejected, Trouble} \cup OkReply,
         Answer(c, r), InForm([c EXCEPT !.reply = r]),
         c.op = "list" /\ r.is = "ok" => r.stamp = stamp,
         stored' \in [Names -> 0..MaxStamp], stamp' \in 0..MaxStamp,
         stamp <= stamp'
  PROVE  Inv'
<1> DEFINE d == [c EXCEPT !.reply = r]
<1>1. c \in CallRecord /\ tab \in TabRecord /\ stamp \in Nat
  BY DEF Inv, Typed
<1>2. /\ d \in CallRecord /\ d.op = c.op /\ d.generation = c.generation
      /\ d.version = c.version /\ d.reply = r
      /\ calls' = (calls \ {c}) \cup {d} /\ InForm(d)
  BY <1>1 DEF Answer, CallRecord
<1> HIDE DEF d
<1>3. Typed'
  BY <1>2 DEF Inv, Typed, InForm
<1>4. Sound' /\ Single'
  BY <1>2 DEF Inv, Sound, Single, Present, Standing, NewestList
<1>5. Ordered'
  <2>1. ASSUME tab.shown # None PROVE tab.shown.stamp \in Nat
    BY <1>1, <2>1 DEF TabRecord
  <2>2. ASSUME NEW e \in calls, e.op = "list", e.reply.is = "ok"
        PROVE  e.reply.stamp \in Nat
    BY <2>2 DEF Inv, Typed, InForm
  <2>3. tab'.shown # None => tab'.shown.stamp <= stamp'
    BY <1>1, <2>1 DEF Inv, Ordered
  <2>4. ASSUME NEW e \in calls', e.op = "list", e.reply.is = "ok"
        PROVE  /\ e.reply.stamp <= stamp'
               /\ NewestList(e)' /\ tab'.shown # None =>
                    tab'.shown.stamp <= e.reply.stamp
    <3>1. CASE e = d
      BY <1>1, <1>2, <2>1, <2>4, <3>1 DEF Inv, Ordered
    <3>2. CASE e \in calls
      BY <1>1, <2>1, <2>2, <2>4, <3>2 DEF Inv, Ordered, NewestList
    <3> QED
      BY <1>2, <3>1, <3>2
  <2> QED
    BY <2>3, <2>4 DEF Ordered
<1>6. Clearable' /\ LateAnswersRevealNothing'
  BY DEF Inv, Clearable, Connected, LateAnswersRevealNothing
<1> QED
  BY <1>3, <1>4, <1>5, <1>6 DEF Inv

(* A password is stored, or removed.                                       *)
LEMMA ChangeFacts ==
  ASSUME Inv, NEW n \in Names, NEW q \in {0, stamp + 1}, Change(n, q)
  PROVE  /\ stored' \in [Names -> 0..MaxStamp] /\ stamp' \in 0..MaxStamp
         /\ stamp <= stamp' /\ stamp + 1 \in Nat
<1>1. stamp \in 0..MaxStamp /\ stamp < MaxStamp /\ stamp' = stamp + 1
      /\ MaxStamp \in Nat
  BY ConstantsAssumption DEF Change, Inv, Typed
<1>2. q \in 0..MaxStamp
  BY <1>1
<1> QED
  BY <1>1, <1>2 DEF Change, Inv, Typed

(* The node and the network keep the invariant.                            *)
LEMMA NodeInv ==
  ASSUME Inv,
         \/ \E n \in Names : OtherTab(n)
         \/ \E c \in calls : Serve(c) \/ Fail(c) \/ LoseAnswer(c)
  PROVE  Inv'
<1>1. /\ stored \in [Names -> 0..MaxStamp] /\ stamp \in 0..MaxStamp
      /\ stamp \in Nat /\ stamp <= stamp
  BY ConstantsAssumption DEF Inv, Typed
<1>2. ASSUME NEW n \in Names, OtherTab(n) PROVE Inv'
  <2>1. /\ stored' \in [Names -> 0..MaxStamp] /\ stamp' \in 0..MaxStamp
        /\ stamp <= stamp' /\ UNCHANGED <<tab, calls>>
    BY <1>2, ChangeFacts DEF OtherTab
  <2>2. Typed' /\ Clearable' /\ Sound' /\ Single' /\ LateAnswersRevealNothing'
    BY <2>1
    DEF Inv, Typed, InForm, Clearable, Connected, Sound, Single, Present,
        Standing, NewestList, LateAnswersRevealNothing
  <2>3. Ordered'
    <3>1. tab.shown # None => tab.shown.stamp \in Nat
      BY DEF Inv, Typed, TabRecord
    <3>2. \A c \in calls : c.op = "list" /\ c.reply.is = "ok" =>
                             c.reply.stamp \in Nat
      BY DEF Inv, Typed, InForm
    <3> QED
      BY <1>1, <2>1, <3>1, <3>2 DEF Inv, Ordered, NewestList
  <2> QED
    BY <2>2, <2>3 DEF Inv
<1>3. ASSUME NEW c \in calls, Fail(c) \/ LoseAnswer(c) PROVE Inv'
  <2>1. PICK r \in {Refused, Rejected, Trouble} :
          Answer(c, r) /\ UNCHANGED <<tab, stored, stamp>>
    BY <1>3 DEF Fail, LoseAnswer
  <2>2. r.is # "ok" /\ c \in CallRecord /\ InForm(c)
    BY ReplyKinds DEF Inv, Typed
  <2>3. InForm([c EXCEPT !.reply = r])
    BY <2>2 DEF InForm, CallRecord
  <2> QED
    BY <1>1, <2>1, <2>2, <2>3, AnswerInv
<1>4. ASSUME NEW c \in calls, Serve(c) PROVE Inv'
  <2>1. c \in CallRecord /\ InForm(c) /\ UNCHANGED tab
    BY <1>4 DEF Inv, Typed, Serve
  <2>2. ASSUME NEW r \in OkReply, Answer(c, r), UNCHANGED <<stored, stamp>>,
               InForm([c EXCEPT !.reply = r]), c.op = "list" => r.stamp = stamp
        PROVE  Inv'
    BY <1>1, <2>1, <2>2, AnswerInv
  <2>3. CASE /\ c.op = "status"
             /\ \E e \in BOOLEAN : Answer(c, [is |-> "ok", enabled |-> e])
             /\ UNCHANGED node
    <3>1. PICK e \in BOOLEAN : Answer(c, [is |-> "ok", enabled |-> e])
      BY <2>3
    <3> DEFINE r == [is |-> "ok", enabled |-> e]
    <3>2. r \in [is : {"ok"}, enabled : BOOLEAN] /\ r \in OkReply
      BY DEF OkReply
    <3> HIDE DEF r
    <3>3. InForm([c EXCEPT !.reply = r])
      BY <2>1, <2>3, <3>2 DEF InForm, CallRecord
    <3> QED
      BY <2>2, <2>3, <3>1, <3>2, <3>3 DEF r
  <2>4. CASE c.op = "login" /\ Answer(c, [is |-> "ok"]) /\ UNCHANGED node
    <3> DEFINE r == [is |-> "ok"]
    <3>1. r \in OkReply
      BY DEF OkReply
    <3> HIDE DEF r
    <3>2. InForm([c EXCEPT !.reply = r])
      BY <2>1, <2>4 DEF InForm, CallRecord
    <3> QED
      BY <2>2, <2>4, <3>1, <3>2 DEF r
  <2>5. CASE /\ c.op = "poll"
             /\ \E st \in {"pending", "complete", "expired"} :
                  Answer(c, [is |-> "ok", status |-> st])
             /\ UNCHANGED node
    <3>1. PICK st \in {"pending", "complete", "expired"} :
            Answer(c, [is |-> "ok", status |-> st])
      BY <2>5
    <3> DEFINE r == [is |-> "ok", status |-> st]
    <3>2. /\ r \in [is : {"ok"}, status : {"pending", "complete", "expired"}]
          /\ r \in OkReply
      BY DEF OkReply
    <3> HIDE DEF r
    <3>3. InForm([c EXCEPT !.reply = r])
      BY <2>1, <2>5, <3>2 DEF InForm, CallRecord
    <3> QED
      BY <2>2, <2>5, <3>1, <3>2, <3>3 DEF r
  <2>6. CASE /\ c.op = "list"
             /\ Answer(c, [is |-> "ok", stamp |-> stamp, names |-> Listed])
             /\ UNCHANGED node
    <3> DEFINE r == [is |-> "ok", stamp |-> stamp, names |-> Listed]
    <3>1. /\ r \in [is : {"ok"}, stamp : Nat, names : SUBSET Names]
          /\ r \in OkReply /\ r.stamp = stamp
      BY <1>1 DEF OkReply, Listed
    <3> HIDE DEF r
    <3>2. InForm([c EXCEPT !.reply = r])
      BY <2>1, <2>6, <3>1 DEF InForm, CallRecord
    <3> QED
      BY <2>2, <2>6, <3>1, <3>2 DEF r
  <2>7. ASSUME NEW q \in Nat, Answer(c, [is |-> "ok", password |-> q]),
               c.op \in {"create", "revoke"},
               stored' \in [Names -> 0..MaxStamp], stamp' \in 0..MaxStamp,
               stamp <= stamp'
        PROVE  Inv'
    <3> DEFINE r == [is |-> "ok", password |-> q]
    <3>1. r \in [is : {"ok"}, password : Nat] /\ r \in OkReply
      BY DEF OkReply
    <3> HIDE DEF r
    <3>2. InForm([c EXCEPT !.reply = r])
      BY <2>1, <2>7, <3>1 DEF InForm, CallRecord
    <3> QED
      BY <2>1, <2>7, <3>1, <3>2, AnswerInv DEF r
  <2>8. CASE /\ c.op = "create" /\ Change(c.name, stamp + 1)
             /\ Answer(c, [is |-> "ok", password |-> stamp + 1])
    <3>1. c.name \in Names
      BY <2>1, <2>8 DEF InForm
    <3> QED
      BY <2>7, <2>8, <3>1, ChangeFacts
  <2>9. CASE /\ c.op = "revoke"
             /\ Change(c.name, 0) \/ UNCHANGED node
             /\ Answer(c, [is |-> "ok", password |-> stored[c.name]])
    <3>1. c.name \in Names /\ stored[c.name] \in Nat
      BY <1>1, <2>1, <2>9 DEF InForm
    <3>2. /\ stored' \in [Names -> 0..MaxStamp] /\ stamp' \in 0..MaxStamp
          /\ stamp <= stamp'
      BY <1>1, <2>9, <3>1, ChangeFacts
    <3> QED
      BY <2>7, <2>9, <3>1, <3>2
  <2> QED
    BY <1>4, <2>3, <2>4, <2>5, <2>6, <2>8, <2>9 DEF Serve
<1> QED
  BY <1>2, <1>3, <1>4

(* The tab as the answers read find it.                                    *)
LEMMA ReadFacts ==
  ASSUME Inv, NEW c \in calls, Current(c)
  PROVE  /\ tab \in TabRecord /\ c \in CallRecord /\ InForm(c)
         /\ ~tab.hidden /\ Present(c) /\ Standing(c)
         /\ c.reply.is # "sent" /\ Rest(c) \subseteq calls
BY ReplyKinds
DEF Inv, Typed, Sound, Current, Present, CallRecord, OkReply, Rest

(* An answer that changes neither access nor list keeps the invariant.     *)
LEMMA PlainRead ==
  ASSUME Inv, UNCHANGED node, calls' \subseteq calls, tab' \in TabRecord,
         SameAccess, tab'.listVersion = tab.listVersion,
         tab'.revealed = tab.revealed, tab'.shown = tab.shown
  PROVE  Inv'
<1>1. /\ Clearable' /\ LateAnswersRevealNothing'
      /\ \A c \in calls' : Present(c) => Standing(c)'
      /\ tab'.generation = tab.generation
  BY SameAccessFacts, HeldStays DEF SameAccess
<1>2. tab'.shown # None =>
        /\ tab'.shown.stamp <= stamp
        /\ \A c \in calls' : NewestList(c) /\ c.reply.is = "ok" =>
             tab'.shown.stamp <= c.reply.stamp
  BY DEF Inv, Ordered, NewestList
<1> QED
  BY <1>1, <1>2, KeepInv

(* Answers that come too late, about the status, or about a change that    *)
(* failed.                                                                 *)
LEMMA MinorReadInv ==
  ASSUME Inv, NEW c \in calls, Stale(c) \/ StatusAnswered(c) \/ ChangeFailed(c)
  PROVE  Inv'
<1>1. UNCHANGED node /\ tab \in TabRecord
  BY DEF Stale, StatusAnswered, ChangeFailed, Inv, Typed
<1>2. CASE Stale(c)
  <2>1. tab' = tab /\ calls' \subseteq calls
    BY <1>2 DEF Stale
  <2>2. /\ tab' \in TabRecord /\ SameAccess /\ tab'.listVersion = tab.listVersion
        /\ tab'.revealed = tab.revealed /\ tab'.shown = tab.shown
    BY <1>1, <2>1 DEF SameAccess
  <2> QED
    BY <1>1, <2>1, <2>2, PlainRead
<1>3. CASE StatusAnswered(c)
  <2>1. Current(c) /\ c.op = "status" /\ calls' = Rest(c)
    BY <1>3 DEF StatusAnswered, Step
  <2>2. \/ /\ c.reply.enabled \in BOOLEAN
           /\ tab' = [tab EXCEPT !.enabled = c.reply.enabled, !.busy = FALSE]
        \/ tab' = [tab EXCEPT !.retry = TRUE, !.busy = FALSE]
    BY <1>3, <2>1, ReadFacts DEF StatusAnswered, Step, InForm
  <2>3. /\ tab' \in TabRecord /\ SameAccess /\ tab'.listVersion = tab.listVersion
        /\ tab'.revealed = tab.revealed /\ tab'.shown = tab.shown
    <3>1. CASE tab' = [tab EXCEPT !.retry = TRUE, !.busy = FALSE]
      BY <1>1, <3>1, ZenonT(60) DEF TabRecord, SameAccess
    <3>2. ASSUME NEW e \in BOOLEAN, tab' = [tab EXCEPT !.enabled = e, !.busy = FALSE]
          PROVE  /\ tab' \in TabRecord /\ SameAccess
                 /\ tab'.listVersion = tab.listVersion
                 /\ tab'.revealed = tab.revealed /\ tab'.shown = tab.shown
      BY <1>1, <3>2, ZenonT(60) DEF TabRecord, SameAccess
    <3> QED
      BY <2>2, <3>1, <3>2
  <2> QED
    BY <1>1, <2>1, <2>3, ReadFacts, PlainRead
<1>4. CASE ChangeFailed(c)
  <2>1. Current(c) /\ c.op \in {"create", "revoke"} /\ calls' = Rest(c)
        /\ (tab' = clearAccess(tab) \/ tab' = [tab EXCEPT !.busy = FALSE])
    BY <1>4 DEF ChangeFailed, Step
  <2>2. tab.grant # None /\ Rest(c) \subseteq calls
    BY <2>1, ReadFacts DEF Standing
  <2>3. CASE tab' = clearAccess(tab)
    BY <1>1, <2>1, <2>2, <2>3, LeaveInv DEF Connected
  <2>4. CASE tab' = [tab EXCEPT !.busy = FALSE]
    <3>1. /\ tab' \in TabRecord /\ SameAccess
          /\ tab'.listVersion = tab.listVersion
          /\ tab'.revealed = tab.revealed /\ tab'.shown = tab.shown
      BY <1>1, <2>4, ZenonT(60) DEF TabRecord, SameAccess
    <3> QED
      BY <1>1, <2>1, <2>2, <3>1, PlainRead
  <2> QED
    BY <2>1, <2>3, <2>4
<1> QED
  BY <1>2, <1>3, <1>4

(* A sign-in that was started gets its challenge.                          *)
LEMMA LoginInv ==
  ASSUME Inv, NEW c \in calls, LoginAnswered(c)
  PROVE  Inv'
<1> DEFINE t == [tab EXCEPT !.busy = FALSE, !.starting = FALSE]
           ch == [expired |-> FALSE, generation |-> c.generation]
<1>1. /\ c.op = "login" /\ Current(c) /\ calls' = Rest(c) /\ UNCHANGED node
      /\ \/ tab' = [t EXCEPT !.challenge = ch, !.pollTimer = TRUE]
         \/ tab' = t
  BY DEF LoginAnswered, Step
<1>2. /\ tab \in TabRecord /\ tab.starting /\ tab.challenge = None
      /\ tab.grant = None /\ ~tab.hidden /\ ~tab.pollTimer
      /\ c.generation = tab.generation /\ c.generation \in Nat
      /\ Rest(c) \subseteq calls /\ c \notin Rest(c)
  BY <1>1, ReadFacts
  DEF Standing, Present, CallRecord, Inv, Clearable, Rest
<1>3. /\ t \in TabRecord /\ ~t.starting
      /\ t.generation = tab.generation /\ t.hidden = tab.hidden
      /\ t.listVersion = tab.listVersion
      /\ t.grant = tab.grant /\ t.challenge = tab.challenge
  BY <1>2, ZenonT(60) DEF TabRecord
<1>4. /\ t.pollTimer = tab.pollTimer /\ t.grantTimer = tab.grantTimer
      /\ t.revealed = tab.revealed /\ t.shown = tab.shown
  BY <1>2, ZenonT(60) DEF TabRecord
<1>5. ch \in [expired : BOOLEAN, generation : Nat] /\ ch.generation = tab.generation
  BY <1>2
<1> HIDE DEF t, ch
<1>6. /\ tab' \in TabRecord /\ ~tab'.starting
      /\ tab'.generation = tab.generation /\ ~tab'.hidden
      /\ tab'.listVersion = tab.listVersion /\ tab'.grant = None
      /\ tab'.grantTimer = tab.grantTimer
      /\ tab'.revealed = tab.revealed /\ tab'.shown = tab.shown
      /\ \/ tab'.challenge = ch
         \/ tab'.challenge = None /\ ~tab'.pollTimer
  <2>1. CASE tab' = t
    BY <1>2, <1>3, <1>4, <2>1
  <2>2. CASE tab' = [t EXCEPT !.challenge = ch, !.pollTimer = TRUE]
    <3>1. /\ tab' \in TabRecord /\ tab'.starting = t.starting
          /\ tab'.generation = t.generation /\ tab'.hidden = t.hidden
          /\ tab'.listVersion = t.listVersion /\ tab'.grant = t.grant
      BY <1>3, <1>5, <2>2, ZenonT(60) DEF TabRecord
    <3>2. /\ tab'.grantTimer = t.grantTimer /\ tab'.challenge = ch
          /\ tab'.revealed = t.revealed /\ tab'.shown = t.shown
      BY <1>3, <1>5, <2>2, ZenonT(60) DEF TabRecord
    <3> QED
      BY <1>2, <1>3, <1>4, <3>1, <3>2
  <2> QED
    BY <1>1, <2>1, <2>2
<1>7. ch # None
  BY <1>5, HeldIsSomething
<1>8. Clearable' /\ LateAnswersRevealNothing'
  BY <1>2, <1>5, <1>6, <1>7
  DEF Inv, Clearable, Connected, LateAnswersRevealNothing
<1>9. \A d \in calls' : Present(d) => Standing(d)'
  <2> SUFFICES ASSUME NEW d \in Rest(c), Present(d) PROVE Standing(d)'
    BY <1>1
  <2>1. d.op # "login"
    BY <1>1, <1>2 DEF Inv, Single, Present
  <2>2. Standing(d)
    BY <1>2 DEF Inv, Sound
  <2> QED
    BY <1>2, <1>6, <2>1, <2>2 DEF Standing
<1>10. tab'.shown # None =>
         /\ tab'.shown.stamp <= stamp
         /\ \A d \in calls' : NewestList(d) /\ d.reply.is = "ok" =>
              tab'.shown.stamp <= d.reply.stamp
  BY <1>1, <1>2, <1>6 DEF Inv, Ordered, NewestList
<1> QED
  BY <1>1, <1>2, <1>6, <1>8, <1>9, <1>10, KeepInv

(* A poll goes on, ends the sign-in, or turns it into a grant.             *)
LEMMA PollAnsweredInv ==
  ASSUME Inv, NEW c \in calls, PollAnswered(c)
  PROVE  Inv'
<1>1. c.op = "poll" /\ Current(c) /\ UNCHANGED node
  BY DEF PollAnswered
<1>2. /\ tab \in TabRecord /\ ~tab.hidden /\ tab.challenge # None /\ ~tab.pollTimer
      /\ Rest(c) \subseteq calls /\ c \notin Rest(c) /\ Present(c)
  BY <1>1, ReadFacts DEF Standing, Rest
<1>3. ASSUME NEW d \in Rest(c), Present(d)
      PROVE  d.op # "poll" /\ d.op # "login" /\ Standing(d)
  BY <1>1, <1>2, <1>3 DEF Inv, Single, Sound, Standing
<1>4. CASE tab' = [tab EXCEPT !.pollTimer = TRUE] /\ calls' = Rest(c)
  <2>1. /\ tab' \in TabRecord
        /\ tab'.generation = tab.generation /\ tab'.hidden = tab.hidden
        /\ tab'.listVersion = tab.listVersion
        /\ tab'.grant = tab.grant /\ tab'.challenge = tab.challenge
        /\ tab'.starting = tab.starting /\ tab'.grantTimer = tab.grantTimer
        /\ tab'.revealed = tab.revealed /\ tab'.shown = tab.shown
    BY <1>2, <1>4, ZenonT(60) DEF TabRecord
  <2>2. Clearable' /\ LateAnswersRevealNothing'
    BY <1>2, <2>1 DEF Inv, Clearable, Connected, LateAnswersRevealNothing
  <2>3. \A d \in calls' : Present(d) => Standing(d)'
    BY <1>3, <1>4, <2>1 DEF Standing
  <2>4. tab'.shown # None =>
          /\ tab'.shown.stamp <= stamp
          /\ \A d \in calls' : NewestList(d) /\ d.reply.is = "ok" =>
               tab'.shown.stamp <= d.reply.stamp
    BY <1>2, <1>4, <2>1 DEF Inv, Ordered, NewestList
  <2> QED
    BY <1>1, <1>2, <1>4, <2>1, <2>2, <2>3, <2>4, KeepInv
<1>5. CASE tab' = clearAccess(tab) /\ calls' = Rest(c)
  BY <1>1, <1>2, <1>5, LeaveInv DEF Connected
<1> DEFINE g == [generation |-> tab.challenge.generation]
           t == [tab EXCEPT !.grant = g, !.challenge = None,
                            !.grantTimer = TRUE]
<1>6. CASE /\ tab' = Listing(t)
           /\ calls' = Rest(c) \cup {ListCall(t, "poll")}
  <2>1. g \in [generation : Nat] /\ g.generation = tab.generation
    BY <1>2 DEF Inv, LateAnswersRevealNothing, TabRecord
  <2>2. g # None
    BY <2>1, HeldIsSomething
  <2> HIDE DEF g
  <2>3. /\ t \in TabRecord /\ t.grant = g /\ t.challenge = None
        /\ t.generation = tab.generation /\ t.hidden = tab.hidden
        /\ t.listVersion = tab.listVersion
    BY <1>2, <2>1, ZenonT(60) DEF TabRecord
  <2>4. /\ t.starting = tab.starting /\ t.pollTimer = tab.pollTimer
        /\ t.revealed = tab.revealed /\ t.shown = tab.shown
    BY <1>2, <2>1, ZenonT(60) DEF TabRecord
  <2> DEFINE l == ListCall(t, "poll")
  <2>5. /\ l \in CallRecord /\ l.op = "list" /\ l.generation = t.generation
        /\ l.version = t.listVersion + 1 /\ l.reply = Sent
    BY <2>3, ListCallFacts DEF Ops
  <2> HIDE DEF t, l
  <2>6. /\ tab' \in TabRecord /\ tab'.grant = g /\ tab'.challenge = None
        /\ tab'.generation = tab.generation /\ ~tab'.hidden
        /\ tab'.listVersion = tab.listVersion + 1
        /\ tab'.starting = tab.starting /\ ~tab'.pollTimer
        /\ tab'.revealed = tab.revealed /\ tab'.shown = tab.shown
    BY <1>2, <1>6, <2>3, <2>4 DEF Listing, TabRecord
  <2>7. Clearable' /\ LateAnswersRevealNothing'
    BY <1>2, <2>1, <2>2, <2>6
    DEF Inv, Clearable, Connected, LateAnswersRevealNothing
  <2>8. calls' = Rest(c) \cup {l}
    BY <1>6 DEF l
  <2>9. \A d \in calls' : Present(d) => Standing(d)'
    BY <1>3, <2>2, <2>5, <2>6, <2>8 DEF Standing
  <2> QED
    BY <1>1, <1>2, <2>3, <2>5, <2>6, <2>7, <2>8, <2>9, SendInv
<1> QED
  BY <1>4, <1>5, <1>6 DEF PollAnswered, Step

(* The newest list is shown, a refused one ends the access, others pass.   *)
LEMMA ListAnsweredInv ==
  ASSUME Inv, NEW c \in calls, ListAnswered(c)
  PROVE  Inv'
<1> DEFINE t == [tab EXCEPT !.busy = IF c.owner \in {"create", "revoke"}
                                     THEN FALSE ELSE @]
           list == [stamp |-> c.reply.stamp, names |-> c.reply.names,
                    generation |-> c.generation]
<1>1. /\ c.op = "list" /\ Current(c) /\ UNCHANGED node /\ calls' = Rest(c)
      /\ \/ /\ Newest(c) /\ c.reply.is = "ok"
            /\ tab' = [t EXCEPT !.shown = list]
         \/ tab' = clearAccess(tab)
         \/ tab' = t
  BY DEF ListAnswered, Step
<1>2. /\ tab \in TabRecord /\ ~tab.hidden /\ tab.grant # None
      /\ Rest(c) \subseteq calls /\ c \notin Rest(c)
      /\ c.generation = tab.generation /\ c \in CallRecord /\ InForm(c)
  BY <1>1, ReadFacts DEF Standing, Rest, Present
<1>3. CASE tab' = clearAccess(tab)
  BY <1>1, <1>2, <1>3, LeaveInv DEF Connected
<1>4. /\ t \in TabRecord /\ t.generation = tab.generation
      /\ t.hidden = tab.hidden /\ t.listVersion = tab.listVersion
      /\ t.grant = tab.grant /\ t.challenge = tab.challenge
      /\ t.starting = tab.starting /\ t.pollTimer = tab.pollTimer
      /\ t.grantTimer = tab.grantTimer
      /\ t.revealed = tab.revealed /\ t.shown = tab.shown
  <2>1. \E b \in BOOLEAN : t = [tab EXCEPT !.busy = b]
    BY <1>2 DEF TabRecord
  <2> HIDE DEF t
  <2> QED
    BY <1>2, <2>1 DEF TabRecord
<1> HIDE DEF t
<1>5. CASE tab' = t
  BY <1>1, <1>2, <1>4, <1>5, PlainRead DEF SameAccess
<1>6. CASE Newest(c) /\ c.reply.is = "ok" /\ tab' = [t EXCEPT !.shown = list]
  <2>1. /\ list \in [stamp : Nat, names : SUBSET Names, generation : Nat]
        /\ list.generation = tab.generation /\ list.stamp = c.reply.stamp
    BY <1>1, <1>2, <1>6 DEF InForm, TabRecord
  <2> HIDE DEF list
  <2>2. /\ tab' \in TabRecord /\ SameAccess
        /\ tab'.listVersion = tab.listVersion
        /\ tab'.revealed = tab.revealed /\ tab'.shown = list
    BY <1>4, <1>6, <2>1 DEF TabRecord, SameAccess
  <2>3. LateAnswersRevealNothing'
    BY <1>2, <2>1, <2>2 DEF Inv, LateAnswersRevealNothing, SameAccess
  <2>4. /\ Clearable' /\ tab'.generation = tab.generation
        /\ \A d \in calls' : Present(d) => Standing(d)'
    BY <1>1, <1>2, <2>2, SameAccessFacts DEF SameAccess
  <2>5. list.stamp <= stamp
    BY <1>1, <1>6, <2>1 DEF Inv, Ordered
  <2>6. \A d \in calls' : ~NewestList(d)
    BY <1>1, <1>2, <1>6 DEF Inv, Single, NewestList, Newest
  <2> QED
    BY <1>1, <1>2, <2>2, <2>3, <2>4, <2>5, <2>6, KeepInv
<1> QED
  BY <1>1, <1>3, <1>5, <1>6

(* A change went through: the password is shown or no longer shown, and    *)
(* the list is asked for again.                                            *)
LEMMA ChangedInv ==
  ASSUME Inv, NEW c \in calls, Created(c) \/ Revoked(c)
  PROVE  Inv'
<1>1. /\ c.op \in {"create", "revoke"} /\ Current(c) /\ UNCHANGED node
      /\ c.reply.is = "ok"
  BY DEF Created, Revoked
<1>2. /\ tab \in TabRecord /\ ~tab.hidden /\ tab.grant # None
      /\ Rest(c) \subseteq calls /\ c.generation = tab.generation
      /\ c \in CallRecord /\ InForm(c)
  BY <1>1, ReadFacts DEF Standing, Rest, Present
<1>3. PICK x \in [name : Names \cup {"none"}, password : Nat, generation : Nat]
                   \cup {None} :
        /\ x # None => x.generation = tab.generation
        /\ tab' = Listing([tab EXCEPT !.revealed = x])
        /\ calls' = Rest(c) \cup {ListCall([tab EXCEPT !.revealed = x], c.op)}
  <2>1. CASE Created(c)
    <3> DEFINE x == [name |-> c.name, password |-> c.reply.password,
                     generation |-> c.generation]
    <3>1. /\ x \in [name : Names \cup {"none"}, password : Nat, generation : Nat]
          /\ x.generation = tab.generation
      BY <1>1, <1>2 DEF InForm, CallRecord
    <3>2. /\ tab' = Listing([tab EXCEPT !.revealed = x])
          /\ calls' = Rest(c) \cup {ListCall([tab EXCEPT !.revealed = x], c.op)}
      BY <2>1 DEF Created, Step
    <3> QED
      BY <3>1, <3>2
  <2>2. CASE Revoked(c)
    <3> DEFINE x == Unrevealed(c.name)
    <3>1. x = None \/ x = tab.revealed
      BY DEF Unrevealed
    <3>2. /\ tab' = Listing([tab EXCEPT !.revealed = x])
          /\ calls' = Rest(c) \cup {ListCall([tab EXCEPT !.revealed = x], c.op)}
      BY <2>2 DEF Revoked, Step
    <3> HIDE DEF x
    <3>3. /\ x \in [name : Names \cup {"none"}, password : Nat, generation : Nat]
                     \cup {None}
          /\ x # None => x.generation = tab.generation
      BY <1>2, <3>1, HeldFacts DEF Inv, TabRecord
    <3> QED
      BY <3>2, <3>3
  <2> QED
    BY <2>1, <2>2
<1> DEFINE t == [tab EXCEPT !.revealed = x]
           l == ListCall(t, c.op)
<1>4. /\ t \in TabRecord /\ t.generation = tab.generation
      /\ t.hidden = tab.hidden /\ t.listVersion = tab.listVersion
      /\ t.grant = tab.grant /\ t.challenge = tab.challenge
      /\ t.starting = tab.starting /\ t.pollTimer = tab.pollTimer
      /\ t.grantTimer = tab.grantTimer
      /\ t.revealed = x /\ t.shown = tab.shown
  BY <1>2 DEF TabRecord
<1>5. /\ l \in CallRecord /\ l.op = "list" /\ l.generation = t.generation
      /\ l.version = t.listVersion + 1 /\ l.reply = Sent
  BY <1>1, <1>4, ListCallFacts DEF Ops
<1>6. tab' = Listing(t) /\ calls' = Rest(c) \cup {l}
  BY <1>3
<1> HIDE DEF t, l
<1>7. /\ tab' \in TabRecord /\ SameAccess
      /\ tab'.listVersion = tab.listVersion + 1
      /\ tab'.revealed = x /\ tab'.shown = tab.shown
  BY <1>4, <1>6 DEF Listing, TabRecord, SameAccess
<1>8. LateAnswersRevealNothing'
  BY <1>2, <1>3, <1>7 DEF Inv, LateAnswersRevealNothing, SameAccess
<1>9. \A d \in calls' : Present(d) => Standing(d)'
  BY <1>2, <1>5, <1>6, <1>7, SameAccessFacts DEF Standing, SameAccess
<1> QED
  BY <1>1, <1>2, <1>4, <1>5, <1>6, <1>7, <1>8, <1>9, SameAccessFacts, SendInv
  DEF SameAccess

(* Every step keeps the invariant.                                         *)
LEMMA NextInv == Inv /\ [Next]_vars => Inv'
<1> SUFFICES ASSUME Inv, [Next]_vars PROVE Inv'
  OBVIOUS
<1>1. CASE RetryStatus \/ PageShow
  BY <1>1, StatusInv
<1>2. CASE startLogin
  BY <1>2, StartLoginInv
<1>3. CASE Disconnect \/ GrantTimer \/ PageHide
  BY <1>3, LeaveInv
  DEF Disconnect, GrantTimer, PageHide, Step, Connected, Inv, Clearable
<1>4. CASE \/ RefreshPasswords \/ DismissPassword
           \/ \E n \in Names : createPassword(n) \/ revokePassword(n)
  BY <1>4, UseInv
<1>5. CASE ChallengeExpires \/ pollLogin
  BY <1>5, PollInv
<1>6. CASE \/ \E n \in Names : OtherTab(n)
           \/ \E c \in calls : Serve(c) \/ Fail(c) \/ LoseAnswer(c)
  BY <1>6, NodeInv
<1>7. CASE \E c \in calls : Read(c)
  BY <1>7, MinorReadInv, LoginInv, PollAnsweredInv, ListAnsweredInv, ChangedInv
  DEF Read
<1>8. CASE UNCHANGED vars
  <2>1. /\ tab \in TabRecord /\ tab' = tab /\ calls' \subseteq calls
        /\ UNCHANGED node
    BY <1>8 DEF Inv, Typed
  <2>2. SameAccess
    BY <2>1 DEF SameAccess
  <2> QED
    BY <2>1, <2>2, PlainRead
<1> QED
  BY <1>1, <1>2, <1>3, <1>4, <1>5, <1>6, <1>7, <1>8 DEF Next

(* The invariant holds throughout.                                         *)
LEMMA Invariance == Spec => []Inv
BY InitInv, NextInv, PTL DEF Spec

(* Every variable of the tab, its requests and the node has its type, and  *)
(* the generations stay within their bound.                                *)
THEOREM TypeCorrect == Spec => []TypeOK
<1>1. Inv => TypeOK
  <2> SUFFICES ASSUME Inv PROVE TypeOK
    OBVIOUS
  <2>1. /\ tab \in TabRecord /\ \A c \in calls : c \in CallRecord
        /\ stored \in [Names -> 0..MaxStamp] /\ stamp \in 0..MaxStamp
    BY DEF Inv, Typed
  <2>2. tab.generation \in 0..MaxGeneration /\ tab.listVersion \in Nat
    BY <2>1, ConstantsAssumption DEF Inv, Clearable, TabRecord
  <2>3. {tab.enabled, tab.pollTimer, tab.grantTimer, tab.busy, tab.starting,
         tab.retry, tab.hidden} \subseteq BOOLEAN
    BY <2>1, Zenon DEF TabRecord
  <2>4. ASSUME NEW c \in calls
        PROVE  /\ c.op \in Ops /\ c.generation \in 0..tab.generation
               /\ c.reply.is \in {"sent", "ok", "refused", "rejected", "trouble"}
    <3>1. c \in CallRecord /\ c.generation <= tab.generation
      BY <2>1 DEF Inv, Sound
    <3>2. c.op \in Ops /\ c.generation \in 0..tab.generation
      BY <2>2, <3>1 DEF CallRecord
    <3>3. c.reply \in {Sent, Refused, Rejected, Trouble} \cup OkReply
      BY <3>1 DEF CallRecord
    <3> QED
      BY <3>2, <3>3, ReplyKinds
  <2> QED
    BY <2>1, <2>2, <2>3, <2>4 DEF TypeOK
<1> QED
  BY <1>1, Invariance, PTL

(* No answer that comes after a disconnect, a timeout or a hidden page     *)
(* brings back a grant, shows a list or reveals a password.                *)
THEOREM NothingComesLate == Spec => []LateAnswersRevealNothing
<1>1. Inv => LateAnswersRevealNothing
  BY DEF Inv
<1> QED
  BY <1>1, Invariance, PTL

(* Only an answered list changes the list shown, unless it is taken away.  *)
LEMMA OnlyListsShow ==
  ASSUME Inv, [Next]_vars, tab'.shown # None
  PROVE  \/ tab'.shown = tab.shown
         \/ \E c \in calls : ListAnswered(c)
<1>1. tab \in TabRecord /\ clearAccess(tab) \in TabRecord
      /\ clearAccess(tab).shown = None
  BY ClearedTab DEF Inv, Typed
<1>2. LoadingStatus(tab) \in TabRecord /\ LoadingStatus(tab).shown = tab.shown
  BY <1>1, ZenonT(60) DEF LoadingStatus, TabRecord
<1>3. CASE RetryStatus \/ PageShow
  BY <1>2, <1>3 DEF RetryStatus, PageShow, Step, TabRecord
<1>4. CASE startLogin
  <2>1. tab' = [clearAccess(tab) EXCEPT !.busy = TRUE, !.starting = TRUE]
    BY <1>4 DEF startLogin, Step
  <2>2. tab'.shown = None
    BY <1>1, <2>1, ZenonT(60) DEF TabRecord
  <2> QED
    BY <2>2
<1>5. CASE Disconnect \/ GrantTimer \/ PageHide
  BY <1>1, <1>5 DEF Disconnect, GrantTimer, PageHide, Step, TabRecord
<1>6. CASE RefreshPasswords \/ DismissPassword \/ ChallengeExpires
  BY <1>1, <1>6
  DEF RefreshPasswords, DismissPassword, ChallengeExpires, Step, Listing,
      TabRecord
<1>7. CASE \E n \in Names : createPassword(n) \/ revokePassword(n)
  <2>1. \/ tab' = [tab EXCEPT !.busy = TRUE, !.revealed = None]
        \/ tab' = [tab EXCEPT !.busy = TRUE]
    BY <1>7 DEF createPassword, revokePassword, Step
  <2>2. tab'.shown = tab.shown
    BY <1>1, <2>1, ZenonT(60) DEF TabRecord
  <2> QED
    BY <2>2
<1>8. CASE pollLogin
  BY <1>1, <1>8 DEF pollLogin, Step, TabRecord
<1>9. CASE \/ \E n \in Names : OtherTab(n)
           \/ \E c \in calls : Serve(c) \/ Fail(c) \/ LoseAnswer(c) \/ Stale(c)
  BY <1>9 DEF OtherTab, Serve, Fail, LoseAnswer, Stale
<1>10. ASSUME NEW c \in calls, StatusAnswered(c) PROVE tab'.shown = tab.shown
  <2>1. \/ tab' = [tab EXCEPT !.enabled = c.reply.enabled, !.busy = FALSE]
        \/ tab' = [tab EXCEPT !.retry = TRUE, !.busy = FALSE]
    BY <1>10 DEF StatusAnswered, Step
  <2> QED
    BY <1>1, <2>1, ZenonT(60) DEF TabRecord
<1>11. ASSUME NEW c \in calls, LoginAnswered(c) PROVE tab'.shown = tab.shown
  <2> DEFINE t == [tab EXCEPT !.busy = FALSE, !.starting = FALSE]
             ch == [expired |-> FALSE, generation |-> c.generation]
  <2>1. tab' = [t EXCEPT !.challenge = ch, !.pollTimer = TRUE] \/ tab' = t
    BY <1>11 DEF LoginAnswered, Step
  <2>2. t \in TabRecord /\ t.shown = tab.shown
    BY <1>1, ZenonT(60) DEF TabRecord
  <2> HIDE DEF t, ch
  <2> QED
    BY <2>1, <2>2, ZenonT(60) DEF TabRecord
<1>12. ASSUME NEW c \in calls, PollAnswered(c)
       PROVE  tab'.shown = tab.shown \/ tab'.shown = None
  <2> DEFINE g == [generation |-> tab.challenge.generation]
             t == [tab EXCEPT !.grant = g, !.challenge = None,
                              !.grantTimer = TRUE]
  <2>1. \/ tab' = [tab EXCEPT !.pollTimer = TRUE]
        \/ tab' = clearAccess(tab)
        \/ tab' = [t EXCEPT !.listVersion = @ + 1]
    BY <1>12 DEF PollAnswered, Step, Listing
  <2> HIDE DEF g
  <2>2. t.shown = tab.shown /\ "shown" \in DOMAIN t
    BY <1>1, ZenonT(60) DEF TabRecord
  <2> HIDE DEF t
  <2>3. [t EXCEPT !.listVersion = @ + 1].shown = tab.shown
    BY <2>2
  <2>4. [tab EXCEPT !.pollTimer = TRUE].shown = tab.shown
    BY <1>1 DEF TabRecord
  <2> QED
    BY <1>1, <2>1, <2>3, <2>4
<1>13. ASSUME NEW c \in calls, ChangeFailed(c)
       PROVE  tab'.shown = tab.shown \/ tab'.shown = None
  BY <1>1, <1>13 DEF ChangeFailed, Step, TabRecord
<1>14. ASSUME NEW c \in calls, Created(c) \/ Revoked(c)
       PROVE  tab'.shown = tab.shown
  <2>1. PICK x : tab' = Listing([tab EXCEPT !.revealed = x])
    BY <1>14 DEF Created, Revoked, Step
  <2> DEFINE t == [tab EXCEPT !.revealed = x]
  <2>2. t.shown = tab.shown /\ "shown" \in DOMAIN t
    BY <1>1, ZenonT(60) DEF TabRecord
  <2>3. tab' = [t EXCEPT !.listVersion = @ + 1]
    BY <2>1 DEF Listing
  <2> HIDE DEF t
  <2> QED
    BY <2>2, <2>3
<1>15. CASE UNCHANGED vars
  BY <1>15
<1> QED
  BY <1>3, <1>4, <1>5, <1>6, <1>7, <1>8, <1>9, <1>10, <1>11, <1>12, <1>13,
     <1>14, <1>15
  DEF Next, Read

(* The list on the page is only replaced by one the node gave later, in    *)
(* whatever order lists are answered and however changes, cancellations    *)
(* and other tabs come between.                                            *)
THEOREM ListsMoveForward == Spec => ListNeverGoesBack
<1> DEFINE Forward ==
      tab.shown # None /\ tab'.shown # None =>
        tab'.shown.stamp >= tab.shown.stamp
<1>1. Inv /\ [Next]_vars => [Forward]_vars
  <2> SUFFICES ASSUME Inv, [Next]_vars, tab.shown # None, tab'.shown # None
               PROVE  tab'.shown.stamp >= tab.shown.stamp
    OBVIOUS
  <2>1. tab \in TabRecord /\ tab.shown.stamp \in Nat
    BY DEF Inv, Typed, TabRecord
  <2>2. CASE tab'.shown = tab.shown
    BY <2>1, <2>2
  <2>3. ASSUME NEW c \in calls, ListAnswered(c), tab'.shown # tab.shown
        PROVE  tab'.shown.stamp >= tab.shown.stamp
    <3> DEFINE t == [tab EXCEPT !.busy = IF c.owner \in {"create", "revoke"}
                                         THEN FALSE ELSE @]
               list == [stamp |-> c.reply.stamp, names |-> c.reply.names,
                        generation |-> c.generation]
    <3>1. \/ /\ c.op = "list" /\ Newest(c) /\ c.reply.is = "ok"
             /\ tab' = [t EXCEPT !.shown = list]
          \/ tab' = clearAccess(tab)
          \/ tab' = t
      BY <2>3 DEF ListAnswered, Step
    <3>2. t.shown = tab.shown /\ "shown" \in DOMAIN t
      BY <2>1 DEF TabRecord
    <3>3. clearAccess(tab).shown = None
      BY <2>1, ClearedTab
    <3>4. list.stamp = c.reply.stamp
      OBVIOUS
    <3> HIDE DEF t, list
    <3>5. /\ c.op = "list" /\ Newest(c) /\ c.reply.is = "ok"
          /\ tab'.shown = list
      BY <2>3, <3>1, <3>2, <3>3
    <3>6. tab.shown.stamp <= c.reply.stamp
      BY <3>5 DEF Inv, Ordered, NewestList, Newest
    <3>7. c.reply.stamp \in Nat
      BY <3>5 DEF Inv, Typed, InForm
    <3> QED
      BY <2>1, <3>4, <3>5, <3>6, <3>7
  <2> QED
    BY <2>2, <2>3, OnlyListsShow
<1> QED
  BY <1>1, Invariance, PTL DEF Spec, ListNeverGoesBack
=============================================================================
