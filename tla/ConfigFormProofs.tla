-------------------------- MODULE ConfigFormProofs --------------------------
(***************************************************************************)
(* The settings form of a console tab loses no edit, lets no save replace  *)
(* settings its fields were not loaded from and raises no false alarm, for *)
(* any number of connections, restarts, saves and calls under way.         *)
(*                                                                         *)
(* The argument is about the calls of the present connection (Standing):   *)
(* while a save or reload is under way the fields are closed, a poll is    *)
(* sent only after the last one was read, so what it hears is no older     *)
(* than what the tab knows, and a connection is made before anything else  *)
(* is asked.  At most one call of each sort is under way (Single).         *)
(***************************************************************************)
EXTENDS ConfigForm, TLAPS

\* What the form knows of itself and of the worker.
Formed ==
  /\ revision = base
  /\ dirty <=> draft > 0
  /\ dirty => revision # None
  /\ revision # None => revision <= document
  /\ since <= instanceId /\ instanceId <= instance
  /\ connected => generation > 0

\* No answer is ahead of the worker.
Past(reply) ==
  IsOk(reply) => reply.revision <= document /\ reply.instance <= instance

\* The answer is no older than what the tab last heard.
News(reply) == IsOk(reply) => reply.instance >= instanceId

\* The form waits for the end of this call before it takes edits again.
Closes(c) ==
  \/ c.kind \in {"save", "reload"}
  \/ c.kind = "poll" /\ c.releases = "saving"

Standing(c) ==
  /\ c.kind # "connect" => connected
  /\ c.kind = "connect" =>
       /\ ~connected /\ News(c.status)
       /\ IsOk(c.config) /\ revision # None => c.config.revision >= revision
       /\ IsOk(c.status) /\ revision # None => c.status.revision >= revision
  /\ c.kind = "poll" => refreshing /\ News(c.status)
  /\ Closes(c) => saving
  /\ c.kind \in {"save", "reload"} => c.draft = draft
  /\ c.kind = "save" /\ c.config = Conflict => document # revision

Sound ==
  \A c \in calls :
    /\ c.generation <= generation /\ c.id <= saves
    /\ Past(c.status) /\ Past(c.config)
    /\ Current(c) => Standing(c)

\* Two calls of which only one is ever under way.
Rivals(c, d) ==
  \/ c.kind = d.kind /\ c.kind \in {"connect", "poll"}
  \/ Closes(c) /\ Closes(d)

Single ==
  \A c, d \in calls : Current(c) /\ Current(d) /\ Rivals(c, d) => c = d

\* Saves on their way expect what their fields were loaded from.
Based ==
  \A p \in puts :
    /\ p.expected = p.base /\ p.id <= saves
    /\ \A c \in calls : Current(c) /\ c.kind = "save" /\ c.id = p.id =>
                          p.expected = revision

Inv == TypeOK /\ Formed /\ Sound /\ Single /\ Based /\ NoFalseAlarm

USE DEF worker, flags, form, shown, count, vars

(* The form starts empty and asks nothing.                                 *)
LEMMA InitInv == Init => Inv
<1> SUFFICES ASSUME Init PROVE Inv
  OBVIOUS
<1>1. TypeOK
  <2>1. {active, connected, connecting, refreshing, saving, submitting, dirty,
         stale, operation} \subseteq BOOLEAN
    BY Zenon DEF Init
  <2> QED
    BY <2>1, ConstantsAssumption DEF Init, TypeOK
<1> QED
  BY <1>1, ConstantsAssumption
  DEF Init, Inv, Formed, Sound, Single, Based, NoFalseAlarm

(* The replies that carry nothing.                                         *)
LEMMA ReplyKinds ==
  /\ ~IsOk(Unasked) /\ ~IsOk(Sent) /\ ~IsOk(Failed) /\ ~IsOk(Refused)
  /\ ~IsOk(Conflict)
  /\ {Unasked, Sent, Failed, Refused, Conflict} \subseteq Reply
  /\ Conflict \notin {Unasked, Sent, Failed, Refused}
  /\ \A r \in Reply : IsOk(r) => /\ r.revision \in 1..MaxRevision
                                 /\ r.instance \in 1..MaxInstance
                                 /\ r.active \in BOOLEAN /\ r # Conflict
BY DEF IsOk, Unasked, Sent, Failed, Refused, Conflict, Reply

(* A call that has heard one more thing is else the same.                  *)
LEMMA HeardFacts ==
  ASSUME NEW c \in Call, NEW r \in Reply
  PROVE  /\ [c EXCEPT !.status = r] \in Call
         /\ [c EXCEPT !.status = r].status = r
         /\ [c EXCEPT !.status = r].config = c.config
         /\ [c EXCEPT !.config = r] \in Call
         /\ [c EXCEPT !.config = r].config = r
         /\ [c EXCEPT !.config = r].status = c.status
         /\ \A d \in {[c EXCEPT !.status = r], [c EXCEPT !.config = r]} :
              /\ d.kind = c.kind /\ d.generation = c.generation
              /\ d.draft = c.draft /\ d.id = c.id /\ d.releases = c.releases
BY DEF Call

(* Types, one variable at a time.                                          *)
LEMMA TypeFacts ==
  ASSUME TypeOK
  PROVE  /\ document \in Nat /\ instance \in Nat /\ generation \in Nat
         /\ since \in Nat /\ instanceId \in Nat /\ saves \in Nat
         /\ draft \in Nat /\ document >= 1 /\ document <= MaxRevision
         /\ MaxRevision \in Nat /\ MaxInstance \in Nat /\ MaxGeneration \in Nat
         /\ MaxSaves \in Nat /\ MaxDraft \in Nat
         /\ generation <= MaxGeneration
         /\ revision # None => revision \in Nat
         /\ \A c \in calls : /\ c \in Call /\ c.generation \in Nat
                             /\ c.id \in Nat /\ c.status \in Reply
                             /\ c.config \in Reply
         /\ \A p \in puts : p \in Put /\ p.expected \in Nat /\ p.id \in Nat
<1>1. \A c \in calls : c \in Call
  BY DEF TypeOK
<1>2. \A c \in Call : /\ c.generation \in Nat /\ c.id \in Nat
                      /\ c.status \in Reply /\ c.config \in Reply
  BY ConstantsAssumption DEF Call
<1>3. \A p \in puts : p \in Put
  BY DEF TypeOK
<1>4. \A p \in Put : p.expected \in Nat /\ p.id \in Nat
  BY ConstantsAssumption DEF Put
<1>5. revision \in (1..MaxRevision) \cup {None}
  BY DEF TypeOK
<1> QED
  BY <1>1, <1>2, <1>3, <1>4, <1>5, ConstantsAssumption DEF TypeOK

-----------------------------------------------------------------------------
(* The worker moves on while the tab waits.                                *)

\* The tab and what it has asked stay as they are, the worker only moves on.
MovesOn ==
  /\ UNCHANGED <<flags, generation, form, shown, count>>
  /\ document' \in 1..MaxRevision /\ instance' \in 1..MaxInstance
  /\ active' \in BOOLEAN
  /\ document <= document' /\ instance <= instance'
  /\ puts' \subseteq puts

(* What is known of the worker stays true as it moves on.                  *)
LEMMA GrowthFacts ==
  ASSUME Inv, MovesOn
  PROVE  /\ Formed' /\ NoFalseAlarm'
         /\ \A c \in calls : /\ Past(c.status)' /\ Past(c.config)'
                             /\ Current(c) => Standing(c)'
<1>1. /\ document \in Nat /\ instance \in Nat /\ since \in Nat
      /\ instanceId \in Nat /\ document' \in Nat /\ instance' \in Nat
      /\ revision # None => revision \in Nat
      /\ document <= document' /\ instance <= instance'
  BY TypeFacts, ConstantsAssumption DEF Inv, MovesOn
<1>2. Formed' /\ NoFalseAlarm'
  BY <1>1, ConstantsAssumption DEF Inv, MovesOn, Formed, NoFalseAlarm
<1>3. ASSUME NEW c \in calls
      PROVE  Past(c.status)' /\ Past(c.config)'
  <2>1. ASSUME NEW r \in Reply, Past(r) PROVE Past(r)'
    BY <1>1, <2>1, ReplyKinds, ConstantsAssumption DEF Past, IsOk
  <2> QED
    BY <2>1, TypeFacts DEF Inv, Sound
<1>4. ASSUME NEW c \in calls, Current(c) PROVE Standing(c)'
  <2>1. Standing(c)
    BY <1>4 DEF Inv, Sound
  <2>2. document # revision => document' # revision
    BY <1>1, ConstantsAssumption DEF Inv, Formed
  <2> QED
    BY <2>1, <2>2 DEF MovesOn, Standing, News, Closes, IsOk
<1> QED
  BY <1>2, <1>3, <1>4

(* A step of the worker that answers no call.                              *)
LEMMA WorkerInv ==
  ASSUME Inv, MovesOn, UNCHANGED calls
  PROVE  Inv'
<1>1. TypeOK'
  BY DEF Inv, TypeOK, MovesOn
<1>2. Sound'
  BY GrowthFacts DEF Inv, Sound, MovesOn, Current
<1>3. Single' /\ Based'
  BY DEF Inv, Single, Based, MovesOn, Current, Rivals, Closes
<1> QED
  BY <1>1, <1>2, <1>3, GrowthFacts DEF Inv

(* A step that answers call c, which then is d.                            *)
LEMMA AnswerInv ==
  ASSUME Inv, MovesOn, NEW c \in calls, NEW d \in Call, Replace(c, d),
         d.kind = c.kind, d.generation = c.generation, d.draft = c.draft,
         d.id = c.id, d.releases = c.releases,
         Past(d.status)', Past(d.config)', Current(c) => Standing(d)'
  PROVE  Inv'
<1>1. calls' = (calls \ {c}) \cup {d}
  BY DEF Replace
<1>2. TypeOK'
  BY <1>1 DEF Inv, TypeOK, MovesOn
<1>3. Sound'
  BY <1>1, GrowthFacts DEF Inv, Sound, MovesOn, Current
<1>4. Single' /\ Based'
  BY <1>1 DEF Inv, Single, Based, MovesOn, Current, Rivals, Closes
<1> QED
  BY <1>2, <1>3, <1>4, GrowthFacts DEF Inv

(* What the worker answers now is news, and not ahead of it.               *)
LEMMA AnswerFacts ==
  ASSUME Inv
  PROVE  /\ Answer \in Reply /\ IsOk(Answer)
         /\ Answer.revision = document /\ Answer.instance = instance
         /\ Past(Answer) /\ News(Answer)
<1>1. active \in BOOLEAN
  BY DEF Inv, TypeOK
<1>2. /\ document \in 1..MaxRevision /\ instance \in 1..MaxInstance
      /\ instanceId <= instance
  BY DEF Inv, TypeOK, Formed
<1>3. /\ Answer \in Reply /\ IsOk(Answer)
      /\ Answer.revision = document /\ Answer.instance = instance
  BY <1>1, <1>2 DEF Answer, Reply, IsOk
<1> QED
  BY <1>2, <1>3, TypeFacts DEF Past, News, Inv

(* The worker answers, or fails to answer, what it is asked.               *)
LEMMA ServeInv ==
  ASSUME Inv, NEW c \in calls,
         \/ ServeStatus(c) \/ ServeConfig(c)
         \/ \E r \in {Failed, Refused} : LoseCall(c, r)
  PROVE  Inv'
<1>1. /\ UNCHANGED <<worker, flags, generation, form, shown, count, puts>>
      /\ c \in Call /\ Past(c.status) /\ Past(c.config)
      /\ Current(c) => Standing(c)
  BY TypeFacts DEF Inv, Sound, ServeStatus, ServeConfig, LoseCall
<1>2. MovesOn
  BY <1>1, TypeFacts DEF MovesOn, Inv, TypeOK
<1>3. ASSUME NEW r \in Reply, Replace(c, [c EXCEPT !.status = r]),
             Past(r), News(r),
             IsOk(r) /\ revision # None => r.revision >= revision
      PROVE  Inv'
  <2> DEFINE d == [c EXCEPT !.status = r]
  <2>1. /\ d \in Call /\ d.kind = c.kind /\ d.generation = c.generation
        /\ d.draft = c.draft /\ d.id = c.id /\ d.releases = c.releases
        /\ d.status = r /\ d.config = c.config
    BY <1>1, HeardFacts
  <2> HIDE DEF d
  <2>2. Past(d.status)' /\ Past(d.config)'
    BY <1>1, <1>3, <2>1 DEF Past
  <2>3. Current(c) => Standing(d)'
    BY <1>1, <1>3, <2>1 DEF Standing, News, Closes
  <2>4. Replace(c, d)
    BY <1>3 DEF d
  <2> QED
    BY <1>2, <2>1, <2>2, <2>3, <2>4, AnswerInv
<1>4. ASSUME NEW r \in Reply, Replace(c, [c EXCEPT !.config = r]),
             Past(r), r # Conflict,
             IsOk(r) /\ revision # None => r.revision >= revision
      PROVE  Inv'
  <2> DEFINE d == [c EXCEPT !.config = r]
  <2>1. /\ d \in Call /\ d.kind = c.kind /\ d.generation = c.generation
        /\ d.draft = c.draft /\ d.id = c.id /\ d.releases = c.releases
        /\ d.config = r /\ d.status = c.status
    BY <1>1, HeardFacts
  <2> HIDE DEF d
  <2>2. Past(d.status)' /\ Past(d.config)'
    BY <1>1, <1>4, <2>1 DEF Past
  <2>3. Current(c) => Standing(d)'
    BY <1>1, <1>4, <2>1 DEF Standing, News, Closes
  <2>4. Replace(c, d)
    BY <1>4 DEF d
  <2> QED
    BY <1>2, <2>1, <2>2, <2>3, <2>4, AnswerInv
<1>5. /\ Answer \in Reply /\ Past(Answer) /\ News(Answer) /\ Answer # Conflict
      /\ revision # None => Answer.revision >= revision
  BY AnswerFacts, TypeFacts, ReplyKinds DEF Inv, Formed
<1>6. ASSUME NEW r \in {Failed, Refused}
      PROVE  r \in Reply /\ Past(r) /\ News(r) /\ r # Conflict /\ ~IsOk(r)
  BY ReplyKinds DEF Past, News
<1>7. CASE ServeStatus(c)
  BY <1>3, <1>5, <1>7 DEF ServeStatus
<1>8. CASE ServeConfig(c)
  BY <1>4, <1>5, <1>8 DEF ServeConfig
<1>9. ASSUME NEW r \in {Failed, Refused}, LoseCall(c, r) PROVE Inv'
  BY <1>3, <1>4, <1>6, <1>9 DEF LoseCall
<1> QED
  BY <1>7, <1>8, <1>9

(* A save that arrives is told, if its tab still waits, what became of it: *)
(* a conflict means that the settings are not what the form has.           *)
LEMMA TellInv ==
  ASSUME Inv, MovesOn, NEW p \in puts, NEW r \in Reply, Tell(p, r), Past(r)',
         r = Conflict => document' # p.expected
  PROVE  Inv'
<1>1. CASE UNCHANGED calls
  BY <1>1, WorkerInv
<1>2. ASSUME NEW c \in calls, c.kind = "save", c.id = p.id,
             Replace(c, [c EXCEPT !.config = r])
      PROVE  Inv'
  <2> DEFINE d == [c EXCEPT !.config = r]
  <2>1. /\ d \in Call /\ d.kind = c.kind /\ d.generation = c.generation
        /\ d.draft = c.draft /\ d.id = c.id /\ d.releases = c.releases
        /\ d.config = r /\ d.status = c.status
    BY TypeFacts, HeardFacts DEF Inv
  <2> HIDE DEF d
  <2>2. Past(d.status)' /\ Past(d.config)'
    BY <2>1, GrowthFacts
  <2>3. ASSUME Current(c) PROVE Standing(d)'
    <3>1. p.expected = revision
      BY <1>2, <2>3 DEF Inv, Based
    <3>2. Standing(c)'
      BY <2>3, GrowthFacts
    <3>3. revision' = revision
      BY DEF MovesOn
    <3> QED
      BY <1>2, <2>1, <3>1, <3>2, <3>3 DEF Standing, Closes
  <2>4. Replace(c, d)
    BY <1>2 DEF d
  <2> QED
    BY <2>1, <2>2, <2>3, <2>4, AnswerInv
<1> QED
  BY <1>1, <1>2 DEF Tell

(* Saves that arrive, of this tab and of others, a restart, and operator   *)
(* actions that start and end.                                             *)
LEMMA ProgressInv ==
  ASSUME Inv,
         \/ \E p \in puts : AcceptPut(p) \/ RefusePut(p)
         \/ \E c \in calls : ServeRun(c)
         \/ OperationEnds \/ OtherSave \/ Restart
  PROVE  Inv'
<1>1. /\ UNCHANGED <<flags, generation, form, shown, count>>
      /\ puts' \subseteq puts
  BY DEF AcceptPut, RefusePut, ServeRun, OperationEnds, OtherSave, Restart
<1>2. /\ document \in 1..MaxRevision /\ instance \in 1..MaxInstance
      /\ document \in Nat /\ instance \in Nat
      /\ MaxRevision \in Nat /\ MaxInstance \in Nat
  BY TypeFacts DEF Inv, TypeOK
<1>3. active \in BOOLEAN
  BY DEF Inv, TypeOK
<1>4. ASSUME NEW p \in puts, AcceptPut(p) PROVE Inv'
  <2>1. MovesOn
    BY <1>1, <1>2, <1>3, <1>4 DEF AcceptPut, MovesOn
  <2>2. PICK r : /\ r = [Answer EXCEPT !.revision = document + 1]
                 /\ Tell(p, r)
    BY <1>4 DEF AcceptPut
  <2>3. /\ document' = document + 1 /\ document + 1 \in 1..MaxRevision
        /\ instance' = instance
    BY <1>2, <1>4 DEF AcceptPut
  <2>4. /\ Answer \in [is : {"ok"}, revision : 1..MaxRevision,
                       instance : 1..MaxInstance, active : BOOLEAN]
        /\ Answer.instance = instance
    BY <1>2, <1>3 DEF Answer
  <2>5. /\ r \in [is : {"ok"}, revision : 1..MaxRevision,
                  instance : 1..MaxInstance, active : BOOLEAN]
        /\ r.revision = document + 1 /\ r.instance = instance
    BY <2>2, <2>3, <2>4
  <2>6. r \in Reply /\ r # Conflict
    BY <2>5, ReplyKinds DEF Reply, IsOk
  <2>7. Past(r)'
    BY <1>2, <2>3, <2>5 DEF Past
  <2> QED
    BY <2>1, <2>2, <2>6, <2>7, TellInv
<1>5. ASSUME NEW p \in puts, RefusePut(p) PROVE Inv'
  <2>1. MovesOn
    BY <1>1, <1>2, <1>3, <1>5 DEF RefusePut, MovesOn
  <2>2. PICK r \in {Conflict, Failed} :
          Tell(p, r) /\ (r = Conflict => document' # p.expected)
    BY <1>5, ReplyKinds DEF RefusePut
  <2>3. r \in Reply /\ Past(r)'
    BY ReplyKinds DEF Past, IsOk
  <2> QED
    BY <2>1, <2>2, <2>3, TellInv
<1>6. ASSUME NEW c \in calls, ServeRun(c) PROVE Inv'
  <2>0. active' \in BOOLEAN
    BY <1>3, <1>6, Zenon DEF ServeRun
  <2>1. MovesOn /\ c \in Call
    BY <1>1, <1>2, <1>6, <2>0, TypeFacts DEF ServeRun, MovesOn, Inv
  <2>2. PICK r : /\ r = [Answer EXCEPT !.active = TRUE] \/ r = Failed
                 /\ Replace(c, [c EXCEPT !.status = r])
    BY <1>6 DEF ServeRun
  <2>3. r \in Reply /\ Past(r)'
    <3>1. CASE r = Failed
      BY <3>1, ReplyKinds DEF Past, IsOk
    <3>2. CASE r = [Answer EXCEPT !.active = TRUE]
      <4>1. r = [is |-> "ok", revision |-> document, instance |-> instance,
                 active |-> TRUE]
        BY <3>2 DEF Answer
      <4>2. r \in Reply /\ r.revision = document /\ r.instance = instance
        BY <1>2, <4>1 DEF Reply
      <4>3. document' = document /\ instance' = instance
        BY <1>6 DEF ServeRun
      <4> QED
        BY <1>2, <4>2, <4>3 DEF Past
    <3> QED
      BY <2>2, <3>1, <3>2
  <2> DEFINE d == [c EXCEPT !.status = r]
  <2>4. /\ d \in Call /\ d.kind = c.kind /\ d.generation = c.generation
        /\ d.draft = c.draft /\ d.id = c.id /\ d.releases = c.releases
        /\ d.status = r /\ d.config = c.config
    BY <2>1, <2>3, HeardFacts
  <2>5. Replace(c, d)
    BY <2>2
  <2> HIDE DEF d
  <2>6. Past(d.status)' /\ Past(d.config)'
    BY <2>1, <2>3, <2>4, GrowthFacts
  <2>7. Current(c) => Standing(d)'
    BY <1>6, <2>1, <2>4, GrowthFacts DEF ServeRun, Standing, Closes
  <2> QED
    BY <2>1, <2>4, <2>5, <2>6, <2>7, AnswerInv
<1>7. CASE OperationEnds \/ OtherSave \/ Restart
  <2>0. active' \in BOOLEAN
    BY <1>3, <1>7, Zenon DEF OperationEnds, OtherSave, Restart
  <2>1. MovesOn /\ UNCHANGED calls
    BY <1>1, <1>2, <1>7, <2>0 DEF OperationEnds, OtherSave, Restart, MovesOn
  <2> QED
    BY <2>1, WorkerInv
<1> QED
  BY <1>4, <1>5, <1>6, <1>7

-----------------------------------------------------------------------------
(* The tab.                                                                *)

(* What a call of the tab is made of.                                      *)
LEMMA SentFacts ==
  ASSUME Inv, generation > 0
  PROVE  /\ generation \in 1..MaxGeneration /\ draft \in 0..MaxDraft
         /\ 0 \in 0..MaxSaves
         /\ {Unasked, Sent} \subseteq Reply /\ Conflict \notin {Unasked, Sent}
BY TypeFacts, ReplyKinds DEF Inv, TypeOK

(* A step of the tab within its connection: calls end, and one more may be *)
(* sent which has no rival under way.                                      *)
LEMMA TabInv ==
  ASSUME Inv, UNCHANGED <<worker, generation>>, NEW old, old \subseteq calls,
         NEW sent,
         \/ calls' = old
         \/ /\ calls' = old \cup {sent}
            /\ sent \in Call /\ sent.generation = generation
            /\ sent.id <= saves'
            /\ ~IsOk(sent.status) /\ ~IsOk(sent.config)
            /\ \A c \in old : Current(c) => ~Rivals(c, sent),
         TypeOK', Formed', Based', NoFalseAlarm', saves <= saves',
         \A c \in calls' : Current(c) => Standing(c)'
  PROVE  Inv'
<1>1. /\ \A c \in calls : c.generation \in Nat /\ c.id \in Nat
      /\ saves \in Nat /\ saves' \in Nat /\ generation \in Nat
  BY TypeFacts DEF Inv, TypeOK
<1>2. \A c \in calls' :
        /\ c.generation <= generation /\ c.id <= saves'
        /\ Past(c.status)' /\ Past(c.config)'
  BY <1>1 DEF Inv, Sound, Past
<1>3. Sound'
  BY <1>2 DEF Sound, Current
<1>4. Single'
  <2> SUFFICES ASSUME NEW c \in calls', NEW d \in calls', Current(c),
                      Current(d), Rivals(c, d)
               PROVE  c = d
    BY DEF Single, Current, Rivals, Closes
  <2>1. Rivals(d, c)
    BY DEF Rivals
  <2> QED
    BY <2>1 DEF Inv, Single
<1> QED
  BY <1>3, <1>4 DEF Inv

\* The two halves of the types, for provers that are good at one of them.
Booleans ==
  {active, connected, connecting, refreshing, saving, submitting, dirty,
   stale, operation} \subseteq BOOLEAN
Others ==
  /\ document \in 1..MaxRevision /\ instance \in 1..MaxInstance
  /\ generation \in 0..MaxGeneration
  /\ {revision, base} \subseteq (1..MaxRevision) \cup {None}
  /\ instanceId \in 0..MaxInstance /\ since \in 0..MaxInstance
  /\ draft \in 0..MaxDraft /\ saves \in 0..MaxSaves /\ runs \in 0..MaxRuns
  /\ calls \subseteq Call /\ puts \subseteq Put

(* Together they are the types.                                            *)
LEMMA TypeHalves == TypeOK <=> Booleans /\ Others
BY DEF TypeOK, Booleans, Others

(* A new generation, by a disconnect or a new connection, starts with no   *)
(* call but that of the connection.                                        *)
LEMMA NewGenerationInv ==
  ASSUME Inv, UNCHANGED <<worker, saves, puts>>, generation' = generation + 1,
         ~connected', NEW old, old \subseteq calls, NEW sent,
         \/ calls' = old
         \/ /\ calls' = old \cup {sent}
            /\ sent.kind = "connect" /\ sent.id = 0
            /\ sent.generation = generation'
            /\ ~IsOk(sent.status) /\ ~IsOk(sent.config),
         TypeOK', Formed', NoFalseAlarm'
  PROVE  Inv'
<1>1. /\ \A c \in calls : c.generation \in Nat /\ c.id \in Nat
      /\ saves \in Nat /\ generation \in Nat
  BY TypeFacts DEF Inv
<1>2. \A c \in old : c.generation <= generation
  BY DEF Inv, Sound
<1>3. \A c \in calls' : Current(c)' => c = sent /\ c \notin old
                                     /\ sent.kind = "connect"
  BY <1>1, <1>2 DEF Current
<1>4. \A c \in calls' : /\ c.generation <= generation' /\ c.id <= saves'
                        /\ Past(c.status)' /\ Past(c.config)'
  BY <1>1, <1>2 DEF Inv, Sound, Past
<1>5. \A c \in calls' : Current(c)' => Standing(c)'
  <2> SUFFICES ASSUME NEW c \in calls', Current(c)' PROVE Standing(c)'
    OBVIOUS
  <2>1. /\ c.kind = "connect" /\ ~IsOk(c.status) /\ ~IsOk(c.config)
    BY <1>3
  <2> QED
    BY <2>1 DEF Standing, News, Closes, IsOk
<1>6. Sound' /\ Single'
  BY <1>3, <1>4, <1>5 DEF Sound, Single
<1>7. Based'
  BY <1>3 DEF Inv, Based
<1> QED
  BY <1>6, <1>7 DEF Inv

(* The tab connects.                                                       *)
LEMMA ConnectInv ==
  ASSUME Inv, Connect
  PROVE  Inv'
<1>1. /\ ~connected /\ generation < MaxGeneration
      /\ connecting' = TRUE /\ generation' = generation + 1
      /\ UNCHANGED <<worker, connected, refreshing, saving, submitting, form,
                     shown, count, puts>>
  BY DEF Connect
<1>2. PICK c : /\ calls' = calls \cup {c}
               /\ c = [NewCall("connect") EXCEPT !.generation = generation + 1,
                                          !.status = Sent, !.config = Sent]
  BY DEF Connect
<1>3. generation + 1 \in 1..MaxGeneration /\ draft \in 0..MaxDraft
      /\ 0 \in 0..MaxSaves
  BY <1>1, TypeFacts DEF Inv, TypeOK
<1>4. c = [kind |-> "connect", generation |-> generation + 1, draft |-> draft,
           id |-> 0, releases |-> "none", status |-> Sent, config |-> Sent]
  BY <1>2 DEF NewCall
<1>5. /\ c \in Call /\ c.kind = "connect" /\ c.id = 0
      /\ c.generation = generation + 1 /\ c.status = Sent /\ c.config = Sent
  BY <1>3, <1>4, ReplyKinds DEF Call, Kinds, Flags
<1>6. Booleans'
  BY <1>1, TypeHalves, Zenon DEF Inv, Booleans
<1>7. Others'
  BY <1>1, <1>2, <1>3, <1>5, TypeHalves DEF Inv, Others
<1>8. TypeOK'
  BY <1>6, <1>7, TypeHalves DEF TypeOK, Booleans, Others
<1>9. Formed' /\ NoFalseAlarm'
  BY <1>1 DEF Inv, Formed, NoFalseAlarm
<1>10. ~IsOk(c.status) /\ ~IsOk(c.config)
  BY <1>5, ReplyKinds
<1> QED
  BY <1>1, <1>2, <1>5, <1>8, <1>9, <1>10, NewGenerationInv

(* The tab disconnects: the operator does, or a call is refused.           *)
LEMMA DisconnectInv ==
  ASSUME Inv,
         \/ Disconnect
         \/ \E c \in calls : Refusal(c)
  PROVE  Inv'
<1>1. /\ generation < MaxGeneration
      /\ generation' = generation + 1
      /\ connected' = FALSE /\ connecting' = FALSE /\ refreshing' = FALSE
      /\ saving' = FALSE /\ submitting' = FALSE
      /\ UNCHANGED <<worker, form, shown, count, puts>>
      /\ calls' \subseteq calls
  BY DEF Disconnect, Refusal, disconnect
<1>2. Booleans'
  BY <1>1, TypeHalves, Zenon DEF Inv, Booleans
<1>3. Others'
  BY <1>1, TypeHalves, TypeFacts DEF Inv, Others
<1>4. TypeOK'
  BY <1>2, <1>3, TypeHalves DEF TypeOK, Booleans, Others
<1>5. Formed' /\ NoFalseAlarm'
  BY <1>1 DEF Inv, Formed, NoFalseAlarm
<1> QED
  BY <1>1, <1>4, <1>5, NewGenerationInv

(* What a poll shows is never older than what the tab has heard, so it     *)
(* calls the draft stale for a reason.                                     *)
LEMMA ShownFacts ==
  ASSUME Inv, NEW c \in calls, c.kind = "poll", Current(c), IsOk(c.status),
         UNCHANGED <<worker, revision, dirty, draft, base, since>>,
         connected' => generation' > 0,
         stale' = StaleAfter(c.status, revision, stale, instanceId),
         operation' = OperationAfter(c.status, revision, instanceId),
         instanceId' = c.status.instance
  PROVE  /\ stale' \in BOOLEAN /\ operation' \in BOOLEAN
         /\ instanceId' \in 0..MaxInstance
         /\ Formed' /\ NoFalseAlarm'
<1>1. stale \in BOOLEAN /\ operation \in BOOLEAN /\ c.status \in Reply
  BY TypeFacts DEF Inv, TypeOK
<1>2. /\ c.status.revision \in 1..MaxRevision
      /\ c.status.instance \in 1..MaxInstance /\ c.status.active \in BOOLEAN
  BY <1>1, ReplyKinds
<1>3. operation' \in BOOLEAN
  BY <1>1, <1>2, Zenon DEF OperationAfter
<1>4. stale' \in BOOLEAN
  BY DEF StaleAfter
<1>5. /\ c.status.revision \in Nat /\ c.status.instance \in Nat
      /\ instanceId \in Nat /\ since \in Nat /\ instance \in Nat
      /\ document \in Nat /\ (revision # None => revision \in Nat)
  BY <1>2, TypeFacts DEF Inv
<1>6. /\ c.status.revision <= document /\ c.status.instance <= instance
      /\ c.status.instance >= instanceId
  BY DEF Inv, Sound, Standing, Past, News
<1>7. since <= instanceId /\ instanceId <= instance
  BY DEF Inv, Formed
<1>8. Formed'
  BY <1>5, <1>6, <1>7 DEF Inv, Formed
<1>9. NoFalseAlarm'
  <2>1. CASE stale
    BY <2>1 DEF Inv, NoFalseAlarm
  <2>2. CASE Restarted(c.status, instanceId)
    BY <1>5, <1>6, <1>7, <2>2 DEF Restarted, NoFalseAlarm
  <2>3. CASE /\ ~Restarted(c.status, instanceId)
             /\ ~Older(c.status, revision, instanceId)
             /\ revision # None /\ c.status.revision # revision
    BY <1>5, <1>6, <2>3 DEF Older, NoFalseAlarm
  <2> QED
    BY <2>1, <2>2, <2>3 DEF StaleAfter, NoFalseAlarm
<1> QED
  BY <1>2, <1>3, <1>4, <1>8, <1>9

(* Another request of a poll is refused.                                   *)
LEMMA PollRefusedInv ==
  ASSUME Inv, NEW c \in calls, PollRefused(c)
  PROVE  Inv'
<1>1. /\ generation < MaxGeneration
      /\ generation' = generation + 1
      /\ connected' = FALSE /\ connecting' = FALSE /\ refreshing' = FALSE
      /\ saving' = FALSE /\ submitting' = FALSE
      /\ UNCHANGED <<worker, revision, dirty, draft, base, since, count, puts>>
      /\ calls' = calls \ {c}
      /\ c.kind = "poll" /\ Current(c) /\ IsOk(c.status)
  BY DEF PollRefused, disconnect
<1>2. /\ stale' \in BOOLEAN /\ operation' \in BOOLEAN
      /\ instanceId' \in 0..MaxInstance
      /\ Formed' /\ NoFalseAlarm'
  BY <1>1, ShownFacts DEF PollRefused
<1>3. Booleans'
  BY <1>1, <1>2, TypeHalves, Zenon DEF Inv, Booleans
<1>4. Others'
  BY <1>1, <1>2, TypeHalves, TypeFacts DEF Inv, Others
<1>5. TypeOK'
  BY <1>3, <1>4, TypeHalves DEF TypeOK, Booleans, Others
<1>6. ~connected' /\ calls' \subseteq calls
  BY <1>1
<1> QED
  BY <1>1, <1>2, <1>5, <1>6, NewGenerationInv

(* While the form, the connection and the process heard of stay as they    *)
(* are, and no flag is released, what is under way stands as before.       *)
LEMMA StillFacts ==
  ASSUME Inv, UNCHANGED <<worker, generation, form, instanceId, connected>>,
         refreshing => refreshing', saving => saving'
  PROVE  /\ Formed' /\ NoFalseAlarm'
         /\ \A c \in calls : Current(c) => Standing(c)'
<1>1. Formed' /\ NoFalseAlarm'
  BY DEF Inv, Formed, NoFalseAlarm
<1>2. ASSUME NEW c \in calls, Current(c) PROVE Standing(c)'
  <2>1. Standing(c)
    BY <1>2 DEF Inv, Sound
  <2> QED
    BY <2>1 DEF Standing, News, Closes
<1> QED
  BY <1>1, <1>2

(* A late answer is let go.                                                *)
LEMMA LateInv ==
  ASSUME Inv, NEW c \in calls, Late(c)
  PROVE  Inv'
<1>1. /\ calls' \subseteq calls
      /\ UNCHANGED <<worker, flags, generation, form, shown, count, puts>>
  BY DEF Late
<1>2. TypeOK'
  BY <1>1 DEF Inv, TypeOK
<1>3. Based'
  BY <1>1 DEF Inv, Based, Current
<1>4. saves <= saves'
  BY <1>1, TypeFacts DEF Inv
<1>5. /\ Formed' /\ NoFalseAlarm'
      /\ \A d \in calls' : Current(d) => Standing(d)'
  BY <1>1, StillFacts
<1> QED
  BY <1>1, <1>2, <1>3, <1>4, <1>5, TabInv

(* The fields are edited only while no save or reload is under way.        *)
LEMMA EditInv ==
  ASSUME Inv, Edit
  PROVE  Inv'
<1>1. /\ connected /\ ~saving /\ revision # None /\ draft < MaxDraft
      /\ draft' = draft + 1 /\ dirty' = TRUE
      /\ UNCHANGED <<worker, flags, generation, revision, stale, base, since,
                     shown, count, calls, puts>>
  BY DEF Edit
<1>2. draft + 1 \in 0..MaxDraft /\ draft + 1 > 0
  BY <1>1, TypeFacts DEF Inv
<1>3. Booleans'
  BY <1>1, TypeHalves, Zenon DEF Inv, Booleans
<1>4. Others'
  BY <1>1, <1>2, TypeHalves DEF Inv, Others
<1>5. TypeOK'
  BY <1>3, <1>4, TypeHalves DEF TypeOK, Booleans, Others
<1>6. Formed' /\ NoFalseAlarm'
  BY <1>1, <1>2 DEF Inv, Formed, NoFalseAlarm
<1>7. Based'
  BY <1>1 DEF Inv, Based, Current
<1>8. ASSUME NEW c \in calls, Current(c) PROVE Standing(c)'
  <2>1. Standing(c) /\ ~Closes(c)
    BY <1>1, <1>8 DEF Inv, Sound, Standing
  <2> QED
    BY <1>1, <2>1 DEF Standing, News, Closes
<1>9. saves <= saves'
  BY <1>1, TypeFacts DEF Inv
<1> QED
  BY <1>1, <1>5, <1>6, <1>7, <1>8, <1>9, TabInv

(* The tab asks for one more thing, and nothing else of it changes but     *)
(* flags that are raised.                                                  *)
LEMMA RequestInv ==
  ASSUME Inv, connected, NEW c \in Call, calls' = calls \cup {c},
         UNCHANGED <<worker, generation, form, shown, connected>>,
         saves <= saves',
         c.kind # "connect", c.generation = generation, c.id <= saves',
         c.draft = draft, ~IsOk(c.status), ~IsOk(c.config),
         c.config # Conflict,
         c.kind = "poll" => ~refreshing /\ refreshing',
         Closes(c) => ~saving /\ saving',
         refreshing => refreshing', saving => saving',
         TypeOK', Based'
  PROVE  Inv'
<1>1. /\ Formed' /\ NoFalseAlarm'
      /\ \A d \in calls : Current(d) => Standing(d)'
  BY StillFacts
<1>2. Standing(c)'
  BY DEF Standing, News, Closes
<1>3. \A d \in calls : Current(d) => ~Rivals(d, c)
  BY DEF Inv, Sound, Standing, Rivals
<1> QED
  BY <1>1, <1>2, <1>3, TabInv

(* The operator reloads the settings, starts an action, or the tab polls.  *)
LEMMA AskInv ==
  ASSUME Inv, Reload \/ Run \/ Refresh
  PROVE  Inv'
<1>1. /\ connected /\ generation > 0 /\ saves \in Nat /\ 0 <= saves
      /\ 0 \in 0..MaxSaves
      /\ UNCHANGED <<worker, connected, connecting, generation, form, shown,
                     saves, puts>>
      /\ saves <= saves'
  BY TypeFacts DEF Inv, Formed, Reload, Run, Refresh
<1>2. ASSUME NEW c \in Call, calls' = calls \cup {c}, c.kind # "save" PROVE Based'
  BY <1>1, <1>2 DEF Inv, Based, Current
<1>3. CASE Reload
  <2>1. /\ ~saving /\ saving' = TRUE
        /\ UNCHANGED <<refreshing, submitting, runs>>
    BY <1>3 DEF Reload
  <2>2. PICK c : /\ calls' = calls \cup {c}
                 /\ c = [NewCall("reload") EXCEPT !.config = Sent]
    BY <1>3 DEF Reload
  <2>3. c = [kind |-> "reload", generation |-> generation, draft |-> draft,
             id |-> 0, releases |-> "none", status |-> Unasked,
             config |-> Sent]
    BY <2>2 DEF NewCall
  <2>4. /\ c \in Call /\ c.kind = "reload" /\ c.generation = generation
        /\ c.draft = draft /\ c.id = 0
        /\ ~IsOk(c.status) /\ ~IsOk(c.config) /\ c.config # Conflict
    <3>1. /\ c \in Call /\ c.kind = "reload" /\ c.generation = generation
          /\ c.draft = draft /\ c.id = 0 /\ c.releases = "none"
          /\ {c.status, c.config} = {Unasked, Sent}
      BY <1>1, <2>3, SentFacts DEF Call, Kinds, Flags
    <3> QED
      BY <3>1, ReplyKinds
  <2>5. Booleans'
    BY <1>1, <2>1, TypeHalves, Zenon DEF Inv, Booleans
  <2>6. Others'
    BY <1>1, <2>1, <2>2, <2>4, TypeHalves DEF Inv, Others
  <2>7. TypeOK'
    BY <2>5, <2>6, TypeHalves DEF TypeOK, Booleans, Others
  <2>8. Based'
    BY <1>2, <2>2, <2>4
  <2> QED
    BY <1>1, <2>1, <2>2, <2>4, <2>7, <2>8, RequestInv
<1>4. CASE Run
  <2>1. /\ submitting' = TRUE /\ runs < MaxRuns /\ runs' = runs + 1
        /\ UNCHANGED <<refreshing, saving>>
    BY <1>4 DEF Run
  <2>2. PICK c : /\ calls' = calls \cup {c}
                 /\ c = [NewCall("run") EXCEPT !.status = Sent]
    BY <1>4 DEF Run
  <2>3. c = [kind |-> "run", generation |-> generation, draft |-> draft,
             id |-> 0, releases |-> "none", status |-> Sent,
             config |-> Unasked]
    BY <2>2 DEF NewCall
  <2>4. /\ c \in Call /\ c.kind = "run" /\ c.generation = generation
        /\ c.draft = draft /\ c.id = 0
        /\ ~IsOk(c.status) /\ ~IsOk(c.config) /\ c.config # Conflict
    <3>1. /\ c \in Call /\ c.kind = "run" /\ c.generation = generation
          /\ c.draft = draft /\ c.id = 0 /\ c.releases = "none"
          /\ {c.status, c.config} = {Unasked, Sent}
      BY <1>1, <2>3, SentFacts DEF Call, Kinds, Flags
    <3> QED
      BY <3>1, ReplyKinds
  <2>5. Booleans'
    BY <1>1, <2>1, TypeHalves, Zenon DEF Inv, Booleans
  <2>6. runs' \in 0..MaxRuns
    BY <2>1, ConstantsAssumption DEF Inv, TypeOK
  <2>7. Others'
    BY <1>1, <2>2, <2>4, <2>6, TypeHalves DEF Inv, Others
  <2>8. TypeOK'
    BY <2>5, <2>7, TypeHalves DEF TypeOK, Booleans, Others
  <2>9. Based' /\ ~Closes(c)
    BY <1>2, <2>2, <2>4 DEF Closes
  <2> QED
    BY <1>1, <2>1, <2>2, <2>4, <2>8, <2>9, RequestInv
<1>5. CASE Refresh
  <2>1. /\ ~refreshing /\ refreshing' = TRUE
        /\ UNCHANGED <<saving, submitting, runs>>
    BY <1>5 DEF Refresh
  <2>2. PICK c : /\ calls' = calls \cup {c}
                 /\ c = [NewCall("poll") EXCEPT !.status = Sent]
    BY <1>5 DEF Refresh
  <2>3. c = [kind |-> "poll", generation |-> generation, draft |-> draft,
             id |-> 0, releases |-> "none", status |-> Sent,
             config |-> Unasked]
    BY <2>2 DEF NewCall
  <2>4. /\ c \in Call /\ c.kind = "poll" /\ c.generation = generation
        /\ c.draft = draft /\ c.id = 0 /\ c.releases = "none"
        /\ ~IsOk(c.status) /\ ~IsOk(c.config) /\ c.config # Conflict
    <3>1. /\ c \in Call /\ c.kind = "poll" /\ c.generation = generation
          /\ c.draft = draft /\ c.id = 0 /\ c.releases = "none"
          /\ {c.status, c.config} = {Unasked, Sent}
      BY <1>1, <2>3, SentFacts DEF Call, Kinds, Flags
    <3> QED
      BY <3>1, ReplyKinds
  <2>5. Booleans'
    BY <1>1, <2>1, TypeHalves, Zenon DEF Inv, Booleans
  <2>6. Others'
    BY <1>1, <2>1, <2>2, <2>4, TypeHalves DEF Inv, Others
  <2>7. TypeOK'
    BY <2>5, <2>6, TypeHalves DEF TypeOK, Booleans, Others
  <2>8. Based' /\ ~Closes(c)
    BY <1>2, <2>2, <2>4 DEF Closes
  <2> QED
    BY <1>1, <2>1, <2>2, <2>4, <2>7, <2>8, RequestInv
<1> QED
  BY <1>3, <1>4, <1>5

(* A save expects the revision its fields were loaded from.                *)
LEMMA SaveInv ==
  ASSUME Inv, Save
  PROVE  Inv'
<1>1. /\ connected /\ ~saving /\ dirty /\ saves < MaxSaves
      /\ saves' = saves + 1 /\ saving' = TRUE
      /\ UNCHANGED <<worker, connected, connecting, refreshing, submitting,
                     generation, form, shown, runs>>
  BY DEF Save
<1>2. /\ generation > 0 /\ saves \in Nat /\ saves + 1 \in 1..MaxSaves
      /\ saves + 1 \in 0..MaxSaves /\ saves <= saves + 1
      /\ revision = base /\ revision \in 1..MaxRevision
  BY <1>1, TypeFacts DEF Inv, Formed, TypeOK
<1>3. PICK c, p : /\ calls' = calls \cup {c} /\ puts' = puts \cup {p}
                  /\ c = [NewCall("save") EXCEPT !.id = saves + 1,
                                                 !.config = Sent]
                  /\ p = [id |-> saves + 1, expected |-> revision,
                          base |-> base]
  BY DEF Save
<1>4. c = [kind |-> "save", generation |-> generation, draft |-> draft,
           id |-> saves + 1, releases |-> "none", status |-> Unasked,
           config |-> Sent]
  BY <1>3 DEF NewCall
<1>5. /\ c \in Call /\ c.kind = "save" /\ c.generation = generation
      /\ c.draft = draft /\ c.id = saves + 1
      /\ ~IsOk(c.status) /\ ~IsOk(c.config) /\ c.config # Conflict
  <2>1. /\ c \in Call /\ c.kind = "save" /\ c.generation = generation
        /\ c.draft = draft /\ c.id = saves + 1
        /\ c.status = Unasked /\ c.config = Sent
    BY <1>2, <1>4, SentFacts DEF Call, Kinds, Flags
  <2> QED
    BY <2>1, ReplyKinds
<1>6. /\ p \in Put /\ p.id = saves + 1 /\ p.expected = revision
      /\ p.base = revision
  BY <1>2, <1>3 DEF Put
<1>7. TypeOK'
  <2>1. Booleans'
    BY <1>1, TypeHalves, Zenon DEF Inv, Booleans
  <2>2. Others'
    BY <1>1, <1>2, <1>3, <1>5, <1>6, TypeHalves DEF Inv, Others
  <2> QED
    BY <2>1, <2>2, TypeHalves DEF TypeOK, Booleans, Others
<1>8. Based'
  <2>1. \A q \in puts : q.id \in Nat /\ q.id <= saves
    BY TypeFacts DEF Inv, Based
  <2>2. \A d \in calls : d.id \in Nat /\ d.id <= saves
    BY TypeFacts DEF Inv, Sound
  <2>3. ASSUME NEW q \in puts'
        PROVE  /\ q.expected = q.base /\ q.id <= saves + 1
               /\ \A d \in calls' :
                    Current(d) /\ d.kind = "save" /\ d.id = q.id =>
                      q.expected = revision
    <3>1. CASE q = p
      BY <1>2, <1>6, <3>1
    <3>2. CASE q \in puts
      <4>1. /\ q.expected = q.base /\ q.id <= saves + 1 /\ c.id # q.id
        BY <1>2, <1>5, <2>1, <3>2 DEF Inv, Based
      <4>2. \A d \in calls : Current(d) /\ d.kind = "save" /\ d.id = q.id =>
                              q.expected = revision
        BY <3>2 DEF Inv, Based
      <4> QED
        BY <1>3, <4>1, <4>2
    <3> QED
      BY <1>3, <3>1, <3>2
  <2> QED
    BY <1>1, <2>3 DEF Based, Current
<1>9. saves <= saves' /\ c.id <= saves' /\ c.kind \notin {"connect", "poll"}
  BY <1>1, <1>2, <1>5
<1> QED
  BY <1>1, <1>3, <1>5, <1>7, <1>8, <1>9, RequestInv

-----------------------------------------------------------------------------
(* What the tab makes of the answers.                                      *)

\* A poll that a handler waits for, as it is sent.
Awaited(s, flag) ==
  /\ s \in Call /\ s.kind = "poll" /\ s.generation = generation /\ s.id = 0
  /\ s.releases = flag /\ ~IsOk(s.status) /\ ~IsOk(s.config)

(* A handler that awaits a refresh sends a poll unless there is one.       *)
LEMMA AwaitFacts ==
  ASSUME Inv, generation > 0, NEW c, NEW flag \in Flags,
         AwaitRefresh(c, flag)
  PROVE  /\ refreshing' = TRUE
         /\ \E s : \/ refreshing /\ calls' = calls \ {c}
                   \/ /\ ~refreshing /\ Awaited(s, flag)
                      /\ calls' = (calls \ {c}) \cup {s}
<1>1. PICK s : s = [NewCall("poll") EXCEPT !.status = Sent, !.releases = flag]
  OBVIOUS
<1>2. s = [kind |-> "poll", generation |-> generation, draft |-> draft,
           id |-> 0, releases |-> flag, status |-> Sent, config |-> Unasked]
  BY <1>1 DEF NewCall
<1>3. /\ s \in Call /\ s.kind = "poll" /\ s.generation = generation
      /\ s.id = 0 /\ s.releases = flag /\ s.status = Sent
      /\ s.config = Unasked
  BY <1>2, SentFacts DEF Call, Kinds
<1>4. Awaited(s, flag)
  BY <1>3, ReplyKinds DEF Awaited
<1>5. /\ refreshing' = TRUE
      /\ calls' = IF refreshing THEN calls \ {c} ELSE (calls \ {c}) \cup {s}
  BY <1>1 DEF AwaitRefresh
<1> QED
  BY <1>4, <1>5

(* An answer is taken, and a poll may follow it.                           *)
LEMMA DoneInv ==
  ASSUME Inv, UNCHANGED <<worker, generation, saves, puts>>,
         NEW c \in calls, Current(c), NEW s, NEW flag,
         \/ calls' = calls \ {c}
         \/ /\ ~refreshing /\ refreshing' /\ connected' /\ Awaited(s, flag)
            /\ calls' = (calls \ {c}) \cup {s}
            /\ flag = "saving" => Closes(c) /\ saving',
         TypeOK', Formed', Based', NoFalseAlarm',
         \A d \in calls \ {c} : Current(d) => Standing(d)'
  PROVE  Inv'
<1>1. saves <= saves' /\ 0 <= saves'
  BY TypeFacts DEF Inv
<1>2. CASE calls' = calls \ {c}
  <2>1. calls \ {c} \subseteq calls
    OBVIOUS
  <2> QED
    BY <1>1, <1>2, <2>1, TabInv
<1>3. CASE /\ ~refreshing /\ refreshing' /\ connected' /\ Awaited(s, flag)
           /\ calls' = (calls \ {c}) \cup {s}
           /\ flag = "saving" => Closes(c) /\ saving'
  <2>1. Standing(s)'
    BY <1>3 DEF Awaited, Standing, News, Closes
  <2>2. ASSUME NEW d \in calls \ {c}, Current(d) PROVE ~Rivals(d, s)
    <3>1. d.kind # "poll"
      BY <1>3, <2>2 DEF Inv, Sound, Standing
    <3>2. ~(Closes(d) /\ Closes(s))
      BY <1>3, <2>2 DEF Inv, Single, Rivals, Awaited, Closes
    <3> QED
      BY <1>3, <3>1, <3>2 DEF Rivals, Awaited
  <2>3. /\ s \in Call /\ s.generation = generation /\ s.id <= saves'
        /\ ~IsOk(s.status) /\ ~IsOk(s.config)
    BY <1>1, <1>3 DEF Awaited
  <2>4. \A d \in calls' : Current(d) => Standing(d)'
    BY <1>3, <2>1
  <2> DEFINE old == calls \ {c}
  <2>5. /\ old \subseteq calls /\ calls' = old \cup {s}
        /\ \A d \in old : Current(d) => ~Rivals(d, s)
    BY <1>3, <2>2
  <2> QED
    BY <1>1, <2>3, <2>4, <2>5, TabInv
<1> QED
  BY <1>2, <1>3

(* A poll is shown and the handler that waits for it goes on.              *)
LEMMA PollDoneInv ==
  ASSUME Inv, NEW c \in calls, PollDone(c)
  PROVE  Inv'
<1>1. /\ c.kind = "poll" /\ Current(c) /\ refreshing' = FALSE
      /\ connecting' = (connecting /\ c.releases # "connecting")
      /\ saving' = (saving /\ c.releases # "saving")
      /\ submitting' = (submitting /\ c.releases # "submitting")
      /\ calls' = calls \ {c}
      /\ UNCHANGED <<worker, connected, generation, revision, dirty, draft,
                     base, since, count, puts>>
  BY DEF PollDone, Release
<1>2. connected /\ connected' /\ generation > 0 /\ generation' > 0
  BY <1>1 DEF Inv, Sound, Standing, Formed
<1>3. /\ stale' \in BOOLEAN /\ operation' \in BOOLEAN
      /\ instanceId' \in 0..MaxInstance
      /\ Formed' /\ NoFalseAlarm'
  <2>1. CASE c.status = Failed /\ UNCHANGED <<stale, shown>>
    <3>1. stale \in BOOLEAN /\ operation \in BOOLEAN
      BY DEF Inv, TypeOK
    <3>2. stale' \in BOOLEAN /\ operation' \in BOOLEAN
      BY <2>1, <3>1, Zenon
    <3>3. instanceId' \in 0..MaxInstance
      BY <2>1 DEF Inv, TypeOK
    <3>4. Formed' /\ NoFalseAlarm'
      BY <1>1, <2>1 DEF Inv, Formed, NoFalseAlarm
    <3> QED
      BY <3>2, <3>3, <3>4
  <2>2. CASE /\ IsOk(c.status)
             /\ stale' = StaleAfter(c.status, revision, stale, instanceId)
             /\ operation' = OperationAfter(c.status, revision, instanceId)
             /\ instanceId' = c.status.instance
    BY <1>1, <1>2, <2>2, ShownFacts
  <2> QED
    BY <2>1, <2>2 DEF PollDone
<1>4. TypeOK'
  <2>1. Booleans'
    BY <1>1, <1>3, TypeHalves, Zenon DEF Inv, Booleans
  <2>2. Others'
    BY <1>1, <1>3, TypeHalves DEF Inv, Others
  <2> QED
    BY <2>1, <2>2, TypeHalves DEF TypeOK, Booleans, Others
<1>5. Based'
  BY <1>1 DEF Inv, Based, Current
<1>6. ASSUME NEW d \in calls \ {c}, Current(d) PROVE Standing(d)'
  <2>1. Standing(d) /\ d.kind \notin {"poll", "connect"}
    BY <1>1, <1>2, <1>6 DEF Inv, Sound, Standing, Single, Rivals
  <2>2. Closes(d) => saving'
    <3>1. Closes(d) => ~Closes(c)
      BY <1>1, <1>6 DEF Inv, Single, Rivals
    <3> QED
      BY <1>1, <2>1, <3>1 DEF Standing, Closes
  <2> QED
    BY <1>1, <2>1, <2>2 DEF Standing, Closes
<1> QED
  BY <1>1, <1>3, <1>4, <1>5, <1>6, DoneInv

(* The fields are filled from an answer of the present connection.         *)
LEMMA LoadedFacts ==
  ASSUME Inv, NEW c \in calls, Current(c), Closes(c), c.kind # "connect",
         IsOk(c.config), LoadFields(c), stale' = FALSE,
         UNCHANGED <<worker, generation, shown, connected, puts, saves>>
  PROVE  /\ revision' \in 1..MaxRevision /\ base' \in 1..MaxRevision
         /\ dirty' = FALSE /\ draft' = 0 /\ since' \in 0..MaxInstance
         /\ Formed' /\ NoFalseAlarm'
<1>1. /\ c.config.revision \in 1..MaxRevision
      /\ c.config.revision <= document
      /\ instanceId \in 0..MaxInstance /\ instanceId \in Nat
  BY TypeFacts, ReplyKinds DEF Inv, Sound, Past, TypeOK
<1>2. /\ revision' = c.config.revision /\ base' = c.config.revision
      /\ dirty' = FALSE /\ draft' = 0 /\ since' = instanceId
  BY DEF LoadFields
<1>3. Formed' /\ NoFalseAlarm'
  BY <1>1, <1>2 DEF Inv, Formed, NoFalseAlarm
<1> QED
  BY <1>1, <1>2, <1>3

(* Once a save or reload is over no call of the connection keeps the form  *)
(* closed, and no save of it is under way: the rest stands whatever the    *)
(* fields become.                                                          *)
LEMMA ReleasedFacts ==
  ASSUME Inv, NEW c \in calls, Current(c), Closes(c), c.kind # "connect",
         UNCHANGED <<worker, generation, shown, connected, puts, saves>>,
         refreshing => refreshing'
  PROVE  /\ \A d \in calls \ {c} : Current(d) => Standing(d)'
         /\ \A d \in calls \ {c} : Current(d) => d.kind # "save"
<1>1. connected
  BY DEF Inv, Sound, Standing
<1>2. ASSUME NEW d \in calls \ {c}, Current(d)
      PROVE  Standing(d) /\ d.kind # "connect" /\ ~Closes(d)
  BY <1>1, <1>2 DEF Inv, Sound, Standing, Single, Rivals
<1>3. \A d \in calls \ {c} : Current(d) => d.kind # "save"
  BY <1>2 DEF Closes
<1>4. ASSUME NEW d \in calls \ {c}, Current(d) PROVE Standing(d)'
  <2>1. Standing(d) /\ d.kind # "connect" /\ ~Closes(d)
    BY <1>2, <1>4
  <2> QED
    BY <2>1 DEF Standing, News, Closes
<1> QED
  BY <1>3, <1>4

(* A reload ends.                                                          *)
LEMMA ReloadDoneInv ==
  ASSUME Inv, NEW c \in calls, ReloadDone(c)
  PROVE  Inv'
<1>1. /\ c.kind = "reload" /\ Closes(c) /\ Current(c)
      /\ saving' = FALSE /\ calls' = calls \ {c}
      /\ UNCHANGED <<worker, connected, connecting, refreshing, submitting,
                     generation, shown, count, puts>>
  BY DEF ReloadDone, Closes
<1>2. /\ \A d \in calls \ {c} : Current(d) => Standing(d)'
      /\ \A d \in calls \ {c} : Current(d) => d.kind # "save"
  BY <1>1, ReleasedFacts
<1>3. Based'
  BY <1>1, <1>2 DEF Inv, Based, Current
<1>4. CASE IsOk(c.config) /\ LoadFields(c) /\ stale' = FALSE
  <2>1. /\ revision' \in 1..MaxRevision /\ base' \in 1..MaxRevision
        /\ dirty' = FALSE /\ draft' = 0 /\ since' \in 0..MaxInstance
        /\ Formed' /\ NoFalseAlarm'
    BY <1>1, <1>4, LoadedFacts
  <2>2. Booleans'
    BY <1>1, <1>4, <2>1, TypeHalves, Zenon DEF Inv, Booleans
  <2>3. 0 \in 0..MaxDraft
    BY TypeFacts DEF Inv
  <2>4. Others'
    BY <1>1, <2>1, <2>3, TypeHalves DEF Inv, Others
  <2>5. TypeOK'
    BY <2>2, <2>4, TypeHalves DEF TypeOK, Booleans, Others
  <2> QED
    BY <1>1, <1>2, <1>3, <2>1, <2>5, DoneInv
<1>5. CASE UNCHANGED form
  <2>1. Formed' /\ NoFalseAlarm'
    BY <1>1, <1>5 DEF Inv, Formed, NoFalseAlarm
  <2>2. Booleans'
    BY <1>1, <1>5, TypeHalves, Zenon DEF Inv, Booleans
  <2>3. Others'
    BY <1>1, <1>5, TypeHalves DEF Inv, Others
  <2>4. TypeOK'
    BY <2>2, <2>3, TypeHalves DEF TypeOK, Booleans, Others
  <2> QED
    BY <1>1, <1>2, <1>3, <2>1, <2>4, DoneInv
<1> QED
  BY <1>4, <1>5 DEF ReloadDone

(* A save ends: accepted, refused, or in conflict with settings that are   *)
(* not what the form has.                                                  *)
LEMMA SaveDoneInv ==
  ASSUME Inv, NEW c \in calls, SaveDone(c)
  PROVE  Inv'
<1>1. /\ c.kind = "save" /\ Closes(c) /\ Current(c)
      /\ UNCHANGED <<worker, connected, connecting, submitting, generation,
                     shown, count, puts>>
  BY DEF SaveDone, Closes
<1>2. connected /\ generation > 0
  BY <1>1 DEF Inv, Sound, Standing, Formed
<1>3. CASE /\ IsOk(c.config) /\ LoadFields(c) /\ stale' = FALSE
           /\ saving' = ~refreshing /\ AwaitRefresh(c, "saving")
  <2>1. /\ revision' \in 1..MaxRevision /\ base' \in 1..MaxRevision
        /\ dirty' = FALSE /\ draft' = 0 /\ since' \in 0..MaxInstance
        /\ Formed' /\ NoFalseAlarm'
    BY <1>1, <1>3, LoadedFacts
  <2>2. "saving" \in Flags
    BY DEF Flags
  <2>3. PICK s : \/ refreshing /\ calls' = calls \ {c}
                 \/ /\ ~refreshing /\ Awaited(s, "saving")
                    /\ calls' = (calls \ {c}) \cup {s}
    BY <1>2, <1>3, <2>2, AwaitFacts
  <2>4. refreshing' = TRUE
    BY <1>3 DEF AwaitRefresh
  <2>5. /\ \A d \in calls \ {c} : Current(d) => Standing(d)'
        /\ \A d \in calls \ {c} : Current(d) => d.kind # "save"
    BY <1>1, <2>4, ReleasedFacts
  <2>6. Based'
    <3>1. \A d \in calls' : Current(d) => d.kind # "save"
      BY <2>3, <2>5 DEF Awaited
    <3> QED
      BY <1>1, <3>1 DEF Inv, Based, Current
  <2>7. Booleans'
    BY <1>1, <1>3, <2>1, <2>4, TypeHalves, Zenon DEF Inv, Booleans
  <2>8. 0 \in 0..MaxDraft /\ calls' \subseteq Call
    BY <2>3, TypeFacts DEF Inv, Awaited
  <2>9. Others'
    BY <1>1, <2>1, <2>8, TypeHalves DEF Inv, Others
  <2>10. TypeOK'
    BY <2>7, <2>9, TypeHalves DEF TypeOK, Booleans, Others
  <2>11. CASE calls' = calls \ {c}
    BY <1>1, <2>1, <2>5, <2>6, <2>10, <2>11, DoneInv
  <2>12. CASE /\ ~refreshing /\ Awaited(s, "saving")
              /\ calls' = (calls \ {c}) \cup {s}
    BY <1>1, <1>2, <1>3, <2>1, <2>4, <2>5, <2>6, <2>10, <2>12, DoneInv
  <2> QED
    BY <2>3, <2>11, <2>12
<1>4. CASE /\ c.config \in {Failed, Conflict}
           /\ stale' = (stale \/ c.config = Conflict)
           /\ saving' = FALSE
           /\ calls' = calls \ {c}
           /\ UNCHANGED <<refreshing, revision, dirty, draft, base, since>>
  <2>1. /\ \A d \in calls \ {c} : Current(d) => Standing(d)'
        /\ \A d \in calls \ {c} : Current(d) => d.kind # "save"
    BY <1>1, <1>4, ReleasedFacts
  <2>2. Based'
    BY <1>1, <1>4, <2>1 DEF Inv, Based, Current
  <2>3. c.config = Conflict => document # revision
    BY <1>1 DEF Inv, Sound, Standing
  <2>4. Formed' /\ NoFalseAlarm'
    BY <1>1, <1>4, <2>3 DEF Inv, Formed, NoFalseAlarm
  <2>5. Booleans'
    BY <1>1, <1>4, TypeHalves, Zenon DEF Inv, Booleans
  <2>6. Others'
    BY <1>1, <1>4, TypeHalves DEF Inv, Others
  <2>7. TypeOK'
    BY <2>5, <2>6, TypeHalves DEF TypeOK, Booleans, Others
  <2> QED
    BY <1>1, <1>4, <2>1, <2>2, <2>4, <2>7, DoneInv
<1> QED
  BY <1>3, <1>4 DEF SaveDone

(* An operator action was started, or was not.                             *)
LEMMA RunDoneInv ==
  ASSUME Inv, NEW c \in calls, RunDone(c)
  PROVE  Inv'
<1>1. /\ c.kind = "run" /\ Current(c)
      /\ operation' = TRUE \/ operation' = operation
      /\ submitting' = ~refreshing
      /\ AwaitRefresh(c, "submitting")
      /\ UNCHANGED <<worker, connected, connecting, saving, generation, form,
                     instanceId, count, puts>>
  BY DEF RunDone
<1>2. connected /\ generation > 0 /\ "submitting" \in Flags
  BY <1>1 DEF Inv, Sound, Standing, Formed, Flags
<1>3. PICK s : \/ refreshing /\ calls' = calls \ {c}
               \/ /\ ~refreshing /\ Awaited(s, "submitting")
                  /\ calls' = (calls \ {c}) \cup {s}
  BY <1>1, <1>2, AwaitFacts
<1>4. refreshing' = TRUE
  BY <1>1 DEF AwaitRefresh
<1>5. /\ Formed' /\ NoFalseAlarm'
      /\ \A d \in calls : Current(d) => Standing(d)'
  BY <1>1, <1>4, StillFacts
<1>6. Based'
  <2>1. \A d \in calls' : d \in calls \/ d.kind # "save"
    BY <1>3 DEF Awaited
  <2> QED
    BY <1>1, <2>1 DEF Inv, Based, Current
<1>7. TypeOK'
  <2>1. Booleans'
    BY <1>1, <1>4, TypeHalves, Zenon DEF Inv, Booleans
  <2>2. calls' \subseteq Call
    BY <1>3, TypeFacts DEF Inv, Awaited
  <2>3. Others'
    BY <1>1, <2>2, TypeHalves DEF Inv, Others
  <2> QED
    BY <2>1, <2>3, TypeHalves DEF TypeOK, Booleans, Others
<1>8. CASE calls' = calls \ {c}
  BY <1>1, <1>5, <1>6, <1>7, <1>8, DoneInv
<1>9. CASE /\ ~refreshing /\ Awaited(s, "submitting")
           /\ calls' = (calls \ {c}) \cup {s}
  BY <1>1, <1>2, <1>4, <1>5, <1>6, <1>7, <1>9, DoneInv
<1> QED
  BY <1>3, <1>8, <1>9

(* A connection is made.  What it heard is no older than what the tab knew *)
(* before, so a draft that was kept is called stale for a reason.          *)
LEMMA ConnectDoneInv ==
  ASSUME Inv, NEW c \in calls, ConnectDone(c)
  PROVE  Inv'
<1> DEFINE rev == IF dirty THEN revision ELSE c.config.revision
<1>1. /\ c.kind = "connect" /\ Current(c)
      /\ IsOk(c.status) /\ IsOk(c.config)
      /\ connected' = TRUE
      /\ stale' = StaleAfter(c.status, rev, c.config.revision # rev, 0)
      /\ operation' = OperationAfter(c.status, rev, 0)
      /\ instanceId' = c.status.instance
      /\ AwaitRefresh(c, "connecting")
      /\ UNCHANGED <<worker, connecting, saving, submitting, generation,
                     count, puts>>
  BY DEF ConnectDone, DraftRevision
<1>2. /\ dirty => UNCHANGED <<revision, dirty, draft, base, since>>
      /\ ~dirty => /\ revision' = c.config.revision
                   /\ base' = c.config.revision
                   /\ dirty' = FALSE /\ draft' = 0
                   /\ since' = c.status.instance
  BY <1>1 DEF ConnectDone, KeepDraft, DraftRevision, LoadFields
<1>3. /\ c.status \in Reply /\ c.config \in Reply /\ c \in Call
      /\ ~connected /\ News(c.status) /\ Past(c.status) /\ Past(c.config)
      /\ revision # None => /\ c.config.revision >= revision
                            /\ c.status.revision >= revision
  BY <1>1, TypeFacts DEF Inv, Sound, Standing
<1>4. /\ c.status.revision \in 1..MaxRevision
      /\ c.config.revision \in 1..MaxRevision
      /\ c.status.instance \in 1..MaxInstance
      /\ c.status.active \in BOOLEAN
  BY <1>1, <1>3, ReplyKinds
<1>5. /\ c.status.revision \in Nat /\ c.config.revision \in Nat
      /\ c.status.instance \in Nat /\ document \in Nat /\ instance \in Nat
      /\ since \in Nat /\ instanceId \in Nat /\ generation \in Nat
      /\ revision # None => revision \in Nat
  BY <1>4, TypeFacts DEF Inv
<1>6. /\ c.status.revision <= document /\ c.config.revision <= document
      /\ c.status.instance <= instance /\ c.status.instance >= instanceId
  BY <1>1, <1>3 DEF Past, News
<1>7. generation > 0 /\ "connecting" \in Flags
  BY <1>1, <1>3, ConstantsAssumption DEF Call, Current, Flags
<1>8. PICK s : \/ refreshing /\ calls' = calls \ {c}
               \/ /\ ~refreshing /\ Awaited(s, "connecting")
                  /\ calls' = (calls \ {c}) \cup {s}
  BY <1>1, <1>7, AwaitFacts
<1>9. refreshing' = TRUE
  BY <1>1 DEF AwaitRefresh
<1>10. \A d \in calls \ {c} : ~Current(d)
  BY <1>1, <1>3 DEF Inv, Sound, Standing, Single, Rivals
<1>11. Based'
  <2>1. \A d \in calls' : Current(d) => d.kind # "save"
    BY <1>8, <1>10 DEF Awaited
  <2> QED
    BY <1>1, <2>1 DEF Inv, Based, Current
<1>12. Formed'
  <2>1. CASE dirty
    BY <1>1, <1>2, <1>5, <1>6, <1>7, <2>1 DEF Inv, Formed
  <2>2. CASE ~dirty
    BY <1>1, <1>2, <1>5, <1>6, <1>7, <2>2 DEF Inv, Formed
  <2> QED
    BY <2>1, <2>2
<1>13. NoFalseAlarm'
  <2>1. CASE dirty
    <3>1. /\ revision # None /\ rev = revision /\ revision' = revision
          /\ document' = document
      BY <1>1, <1>2, <2>1 DEF Inv, Formed
    <3>2. stale' => \/ c.config.revision # revision
                    \/ c.status.revision # revision
      BY <1>1, <3>1 DEF StaleAfter, Restarted
    <3> QED
      BY <1>3, <1>5, <1>6, <3>1, <3>2 DEF NoFalseAlarm
  <2>2. CASE ~dirty
    <3>1. /\ rev = c.config.revision /\ revision' = c.config.revision
          /\ document' = document
      BY <1>1, <1>2, <2>2
    <3>2. stale' => c.status.revision > c.config.revision
      <4>1. stale' => /\ ~Older(c.status, c.config.revision, 0)
                      /\ c.status.revision # c.config.revision
        BY <1>1, <3>1 DEF StaleAfter, Restarted
      <4>2. ~Older(c.status, c.config.revision, 0) =>
              ~(c.status.revision < c.config.revision)
        BY <1>5, ConstantsAssumption DEF Older, Restarted
      <4> QED
        BY <1>5, <4>1, <4>2
    <3> QED
      BY <1>5, <1>6, <3>1, <3>2 DEF NoFalseAlarm
  <2> QED
    BY <2>1, <2>2
<1>14. TypeOK'
  <2>1. stale' \in BOOLEAN
    BY <1>1 DEF StaleAfter
  <2>2. operation' \in BOOLEAN
    <3>1. operation \in BOOLEAN
      BY DEF Inv, TypeOK
    <3> QED
      BY <1>1, <1>4, <3>1, Zenon DEF OperationAfter
  <2>3. dirty' \in BOOLEAN
    <3>1. dirty \in BOOLEAN
      BY DEF Inv, TypeOK
    <3> QED
      BY <1>2, <3>1, Zenon
  <2>4. Booleans'
    BY <1>1, <1>9, <2>1, <2>2, <2>3, TypeHalves, Zenon DEF Inv, Booleans
  <2>5. /\ 0 \in 0..MaxDraft /\ calls' \subseteq Call
        /\ c.status.instance \in 0..MaxInstance
    BY <1>4, <1>8, TypeFacts DEF Inv, Awaited
  <2>6. CASE dirty
    <3>1. Others'
      BY <1>1, <1>2, <2>5, <2>6, TypeHalves DEF Inv, Others
    <3> QED
      BY <2>4, <3>1, TypeHalves DEF TypeOK, Booleans, Others
  <2>7. CASE ~dirty
    <3>1. Others'
      BY <1>1, <1>2, <1>4, <2>5, <2>7, TypeHalves DEF Inv, Others
    <3> QED
      BY <2>4, <3>1, TypeHalves DEF TypeOK, Booleans, Others
  <2> QED
    BY <2>6, <2>7
<1> HIDE DEF rev
<1>15. CASE calls' = calls \ {c}
  BY <1>1, <1>10, <1>11, <1>12, <1>13, <1>14, <1>15, DoneInv
<1>16. CASE /\ ~refreshing /\ Awaited(s, "connecting")
            /\ calls' = (calls \ {c}) \cup {s}
  BY <1>1, <1>9, <1>10, <1>11, <1>12, <1>13, <1>14, <1>16, DoneInv
<1> QED
  BY <1>8, <1>15, <1>16

-----------------------------------------------------------------------------
(* Every step keeps the invariant.                                         *)
LEMMA NextInv == Inv /\ [Next]_vars => Inv'
<1> SUFFICES ASSUME Inv, [Next]_vars PROVE Inv'
  OBVIOUS
<1>1. CASE \E c \in calls : ServeStatus(c) \/ ServeConfig(c) \/ ServeRun(c)
  BY <1>1, ServeInv, ProgressInv
<1>2. CASE \E c \in calls, r \in {Failed, Refused} : LoseCall(c, r)
  BY <1>2, ServeInv
<1>3. CASE \E p \in puts : AcceptPut(p) \/ RefusePut(p)
  BY <1>3, ProgressInv
<1>4. CASE OperationEnds \/ OtherSave \/ Restart
  BY <1>4, ProgressInv
<1>5. CASE Connect \/ Disconnect \/ Edit \/ Reload \/ Save \/ Run \/ Refresh
  BY <1>5, ConnectInv, DisconnectInv, EditInv, AskInv, SaveInv
<1>6. CASE \E c \in calls : Late(c) \/ Refusal(c) \/ PollRefused(c)
  BY <1>6, LateInv, DisconnectInv, PollRefusedInv
<1>7. CASE \E c \in calls : Done(c)
  BY <1>7, ConnectDoneInv, PollDoneInv, ReloadDoneInv, SaveDoneInv, RunDoneInv
  DEF Done
<1>8. CASE UNCHANGED vars
  <2>1. TypeOK'
    BY <1>8 DEF Inv, TypeOK
  <2>2. Formed' /\ NoFalseAlarm' /\ Single' /\ Based'
    BY <1>8 DEF Inv, Formed, NoFalseAlarm, Single, Based, Current, Rivals,
                Closes
  <2>3. Sound'
    BY <1>8 DEF Inv, Sound, Past, Current, Standing, News, Closes
  <2> QED
    BY <2>1, <2>2, <2>3 DEF Inv
<1> QED
  BY <1>1, <1>2, <1>3, <1>4, <1>5, <1>6, <1>7, <1>8 DEF Next

(* The inductive invariant holds throughout.                               *)
THEOREM Invariance == Spec => []Inv
BY InitInv, NextInv, PTL DEF Spec

(* Every variable of the form, the worker and their calls has its type.    *)
THEOREM TypeCorrect == Spec => []TypeOK
<1>1. Inv => TypeOK
  BY DEF Inv
<1> QED
  BY <1>1, Invariance, PTL

(* The warning that a draft is stale is never false, whatever answers were *)
(* late or lost, for any number of restarts and saves of others.           *)
THEOREM AlarmsAreEarned == Spec => []NoFalseAlarm
<1>1. Inv => NoFalseAlarm
  BY DEF Inv
<1> QED
  BY <1>1, Invariance, PTL

(* Edits leave the form only with the answer to the save that carried them *)
(* or to the reload agreed to when they were made.                         *)
THEOREM NoEditIsLost == Spec => EditsSurvive
<1>1. Inv /\ [Next]_vars =>
        [draft > 0 /\ draft' < draft =>
           \E c \in calls \ calls' :
             /\ c.kind \in {"save", "reload"} /\ c.generation = generation
             /\ IsOk(c.config) /\ c.draft = draft]_vars
  <2> SUFFICES ASSUME Inv, Next, draft > 0, draft' < draft
               PROVE  \E c \in calls \ calls' :
                        /\ c.kind \in {"save", "reload"}
                        /\ c.generation = generation
                        /\ IsOk(c.config) /\ c.draft = draft
    OBVIOUS
  <2>1. draft \in Nat /\ draft' # draft /\ dirty /\ ~(draft + 1 < draft)
    BY TypeFacts DEF Inv, Formed
  <2>2. PICK c \in calls : (ReloadDone(c) \/ SaveDone(c)) /\ IsOk(c.config)
    BY <2>1
    DEF Next, Done, ServeStatus, ServeConfig, ServeRun, LoseCall, AcceptPut,
        RefusePut, OperationEnds, OtherSave, Restart, Connect, Disconnect,
        Edit, Reload, Save, Run, Refresh, Late, Refusal, PollRefused,
        ConnectDone, KeepDraft, PollDone, RunDone, ReloadDone, SaveDone
  <2>3. /\ c.kind \in {"save", "reload"} /\ Current(c)
    BY <2>2 DEF ReloadDone, SaveDone
  <2>4. c.draft = draft
    BY <2>3 DEF Inv, Sound, Standing
  <2>5. c \notin calls'
    <3>1. CASE calls' = calls \ {c}
      BY <3>1
    <3>2. CASE AwaitRefresh(c, "saving")
      <4>1. generation > 0 /\ "saving" \in Flags
        BY <2>3 DEF Inv, Sound, Standing, Formed, Flags
      <4>2. PICK s : \/ calls' = calls \ {c}
                     \/ /\ Awaited(s, "saving")
                        /\ calls' = (calls \ {c}) \cup {s}
        BY <3>2, <4>1, AwaitFacts
      <4> QED
        BY <2>3, <4>2 DEF Awaited
    <3> QED
      BY <2>2, <3>1, <3>2 DEF ReloadDone, SaveDone
  <2> QED
    BY <2>2, <2>3, <2>4, <2>5 DEF Current
<1> QED
  BY <1>1, Invariance, PTL DEF Spec, EditsSurvive

(* A save that is accepted replaces the very settings its fields were      *)
(* loaded from, however often the tab was reconnected in between.          *)
THEOREM AcceptedSavesAreBased == Spec => SavesReplaceTheirBase
<1>1. Inv /\ [Next]_vars =>
        [\A p \in puts : p \notin puts' /\ document' # document =>
                          p.base = document]_vars
  <2> SUFFICES ASSUME Inv, Next, NEW p \in puts, p \notin puts',
                      document' # document
               PROVE  p.base = document
    OBVIOUS
  <2>1. AcceptPut(p)
    BY DEF Next, Done, ServeStatus, ServeConfig, ServeRun, LoseCall, AcceptPut,
        RefusePut, OperationEnds, OtherSave, Restart, Connect, Disconnect,
        Edit, Reload, Save, Run, Refresh, Late, Refusal, PollRefused,
        ConnectDone, PollDone, RunDone, ReloadDone, SaveDone
  <2> QED
    BY <2>1 DEF Inv, Based, AcceptPut
<1> QED
  BY <1>1, Invariance, PTL DEF Spec, SavesReplaceTheirBase
=============================================================================
