---------------------------- MODULE ConsoleProofs ---------------------------
(***************************************************************************)
(* The management console keeps settings, login policy, binding and peer   *)
(* report together, for any number of tabs, policies, listeners and        *)
(* revisions.                                                              *)
(*                                                                         *)
(* What the proof needs beside types: an update excludes operator actions  *)
(* (Exclusive), a running action was started under the present settings    *)
(* (Pinned), and as long as no power failure has taken back a document     *)
(* that was in use, the file is the one in use or the next one, left by a  *)
(* save that was killed; both admit the binding, and no two documents seen *)
(* by tabs share a revision (Durable).                                     *)
(***************************************************************************)
EXTENDS Console, TLAPS

\* An update holds the lock with a document to replace and a policy to save,
\* and no action runs beside it.
Exclusive ==
  /\ control # None => /\ node = "up" /\ active = None
                       /\ known[control] # None /\ wanted # None
  /\ node # "up" => active = None /\ preflight = None

\* A running action is about the present settings.
Pinned == active # None => active.config_revision = document.revision

\* A document some tab has seen is older than the one in use, or is it.
NotAhead(d) ==
  /\ d.revision <= document.revision
  /\ d.revision = document.revision => d = document

\* The file is the one in use, or a killed save has left its successor.
InPlace ==
  \/ disk = document
  \/ node # "up" /\ document.revision < disk.revision

Admitted == bound # None => disk.policy = bound /\ document.policy = bound

Durable ==
  ~undone => /\ InPlace
             /\ Admitted
             /\ \A t \in Tabs : known[t] # None => NotAhead(known[t])

Inv == /\ TypeOK /\ Exclusive /\ Pinned /\ Durable
       /\ LoginPolicyIsTheSavedOne /\ ReportsAreCurrent /\ NeverRefusesToStart

(* The first start is a good one.                                          *)
LEMMA InitInv == Init => Inv
<1> SUFFICES ASSUME Init PROVE Inv
  OBVIOUS
<1>1. PICK p \in Policies : disk = [revision |-> 1, policy |-> p]
  BY DEF Init
<1>2. disk \in Document
  BY <1>1, ConstantsAssumption DEF Document
<1> QED
  BY <1>1, <1>2, ConstantsAssumption
  DEF Init, Inv, TypeOK, Exclusive, Pinned, Durable, InPlace, Admitted,
      LoginPolicyIsTheSavedOne, ReportsAreCurrent, NeverRefusesToStart

(* What a save that passed its checks publishes.                           *)
LEMMA NextDocumentFacts ==
  ASSUME Inv, control # None, Savable
  PROVE  /\ NextDocument \in Document
         /\ NextDocument.revision = document.revision + 1
         /\ NextDocument.policy = wanted
         /\ wanted \in Policies
         /\ document = disk /\ control \in Tabs
         /\ bound # None => wanted = bound
         /\ known[control] \in Document
         /\ known[control].revision = document.revision
BY ConstantsAssumption
DEF Inv, TypeOK, Exclusive, Savable, NextDocument, Document

(* A save keeps the invariant, whether its directory sync succeeds or not. *)
LEMMA SaveInv ==
  ASSUME Inv, NEW synced \in BOOLEAN, UpdateSave(synced)
  PROVE  Inv'
<1>1. /\ node = "up" /\ control # None /\ Savable
      /\ disk' = NextDocument /\ document' = NextDocument
      /\ survivors' = {NextDocument} \cup (IF synced THEN {} ELSE survivors)
      /\ undone' = undone
      /\ applied' = wanted /\ preflight' = None
      /\ known' = [known EXCEPT ![control] = IF synced THEN NextDocument ELSE @]
      /\ control' = None /\ wanted' = None
      /\ UNCHANGED <<node, bound, core, active, shutting_down, drain>>
  BY DEF UpdateSave, Publish, stopping
<1>2. /\ NextDocument \in Document
      /\ NextDocument.revision = document.revision + 1
      /\ NextDocument.policy = wanted /\ wanted \in Policies
      /\ document = disk /\ control \in Tabs
      /\ bound # None => wanted = bound
  BY <1>1, NextDocumentFacts
<1>3. TypeOK'
  BY <1>1, <1>2 DEF Inv, TypeOK
<1>4. Exclusive' /\ Pinned'
  BY <1>1 DEF Inv, Exclusive, Pinned
<1>5. Durable'
  <2> SUFFICES ASSUME ~undone' PROVE
        /\ InPlace' /\ Admitted'
        /\ \A t \in Tabs : known'[t] # None => NotAhead(known[t])'
    BY DEF Durable
  <2>1. ~undone
    BY <1>1
  <2>2. ASSUME NEW t \in Tabs, known'[t] # None PROVE NotAhead(known[t])'
    <3>1. CASE known'[t] = NextDocument
      BY <1>1, <1>2, <3>1 DEF NotAhead, Document
    <3>2. CASE known'[t] # NextDocument
      <4>1. known'[t] = known[t] /\ known[t] \in Document
        BY <1>1, <1>2, <2>2, <3>2 DEF Inv, TypeOK
      <4>2. known[t].revision <= document.revision
        BY <2>1, <2>2, <4>1 DEF Inv, Durable, NotAhead
      <4> QED
        BY <1>1, <1>2, <4>1, <4>2 DEF NotAhead, Inv, TypeOK, Document
    <3> QED
      BY <3>1, <3>2
  <2>3. InPlace' /\ Admitted'
    BY <1>1, <1>2 DEF InPlace, Admitted
  <2> QED
    BY <2>2, <2>3
<1>6. LoginPolicyIsTheSavedOne' /\ ReportsAreCurrent' /\ NeverRefusesToStart'
  BY <1>1, <1>2
  DEF LoginPolicyIsTheSavedOne, ReportsAreCurrent, NeverRefusesToStart
<1> QED
  BY <1>3, <1>4, <1>5, <1>6 DEF Inv

(* The end of the process keeps the invariant, if the file it leaves is    *)
(* the one there was or the one in use, or is the successor of a save that *)
(* was killed.                                                             *)
LEMMA DownInv ==
  ASSUME Inv, Down, disk' \in survivors', survivors' \subseteq Document,
         undone' \in BOOLEAN, undone => undone',
         ~undone' => \/ disk' \in {disk, document}
                     \/ /\ disk'.revision > document.revision
                        /\ bound # None => disk'.policy = bound
  PROVE  Inv'
<1>1. TypeOK'
  BY DEF Inv, TypeOK, Down
<1>2. Durable'
  <2> SUFFICES ASSUME ~undone'
               PROVE  /\ InPlace' /\ Admitted'
                      /\ \A t \in Tabs : known'[t] # None => NotAhead(known[t])'
    BY DEF Durable
  <2>1. InPlace /\ Admitted
        /\ \A t \in Tabs : known[t] # None => NotAhead(known[t])
    BY DEF Inv, Durable
  <2>2. /\ document' = document /\ known' = known /\ bound' = bound
        /\ node' = "down"
    BY DEF Down
  <2>3. InPlace'
    BY <2>1, <2>2 DEF InPlace
  <2>4. Admitted'
    BY <2>1, <2>2 DEF Admitted
  <2> QED
    BY <2>1, <2>2, <2>3, <2>4 DEF NotAhead
<1> QED
  BY <1>1, <1>2
  DEF Inv, Down, Exclusive, Pinned, LoginPolicyIsTheSavedOne,
      ReportsAreCurrent, NeverRefusesToStart

(* Every step keeps the invariant.                                         *)
LEMMA NextInv == Inv /\ [Next]_vars => Inv'
<1> SUFFICES ASSUME Inv, [Next]_vars PROVE Inv'
  OBVIOUS
<1> USE DEF files, locks, action, stopping
<1>1. CASE AccountBegin
  BY <1>1
  DEF AccountBegin, Inv, TypeOK, Exclusive, Pinned, Durable, InPlace,
      Admitted, NotAhead, LoginPolicyIsTheSavedOne, ReportsAreCurrent,
      NeverRefusesToStart
<1>2. CASE AccountEnd
  BY <1>2
  DEF AccountEnd, Inv, TypeOK, Exclusive, Pinned, Durable, InPlace,
      Admitted, NotAhead, LoginPolicyIsTheSavedOne, ReportsAreCurrent,
      NeverRefusesToStart
<1>3. ASSUME NEW t \in Tabs, ReadConfig(t) PROVE Inv'
  BY <1>3
  DEF ReadConfig, Readable, Inv, TypeOK, Exclusive, Pinned, Durable, InPlace,
      Admitted, NotAhead, Document, LoginPolicyIsTheSavedOne, ReportsAreCurrent,
      NeverRefusesToStart
<1>4. ASSUME NEW t \in Tabs, NEW policy \in Policies, UpdateBegin(t, policy)
      PROVE  Inv'
  BY <1>4, ConstantsAssumption
  DEF UpdateBegin, Readable, unavailable, Inv, TypeOK, Exclusive, Pinned,
      Durable, InPlace, Admitted, NotAhead, LoginPolicyIsTheSavedOne,
      ReportsAreCurrent, NeverRefusesToStart
<1>5. CASE UpdateCancel \/ UpdateReject
  BY <1>5
  DEF UpdateCancel, UpdateReject, Inv, TypeOK, Exclusive, Pinned, Durable,
      InPlace, Admitted, NotAhead, LoginPolicyIsTheSavedOne, ReportsAreCurrent,
      NeverRefusesToStart
<1>6. ASSUME NEW synced \in BOOLEAN, UpdateSave(synced) PROVE Inv'
  BY <1>6, SaveInv
<1>7. ASSUME NEW kind \in OperationKind, start(kind) PROVE Inv'
  <2>1. [kind |-> kind, config_revision |-> document.revision] \in Operation
    BY DEF Operation, Inv, TypeOK, Document
  <2> QED
    BY <1>7, <2>1, ConstantsAssumption
    DEF start, Readable, Inv, TypeOK, Exclusive, Pinned, Durable, InPlace,
        Admitted, NotAhead, LoginPolicyIsTheSavedOne, ReportsAreCurrent,
        NeverRefusesToStart
<1>8. CASE finish
  <2>1. drain' \in [Listeners -> {"serving", "signalled", "waiting", "done"}]
    BY <1>8 DEF finish, Notified, Inv, TypeOK
  <2>2. preflight' \in {document.revision, None, preflight}
        /\ (preflight' = preflight \/ preflight' \in {document.revision, None})
    BY <1>8 DEF finish, Inv, Pinned
  <2>3. TypeOK'
    BY <1>8, <2>1, <2>2 DEF finish, Inv, TypeOK, Document
  <2> QED
    BY <1>8, <2>2, <2>3
    DEF finish, Readable, Inv, Exclusive, Pinned, Durable, InPlace,
        Admitted, NotAhead, LoginPolicyIsTheSavedOne, ReportsAreCurrent,
        NeverRefusesToStart
<1>9. CASE Signal
  BY <1>9
  DEF Signal, Inv, TypeOK, Exclusive, Pinned, Durable, InPlace,
      Admitted, NotAhead, LoginPolicyIsTheSavedOne, ReportsAreCurrent,
      NeverRefusesToStart
<1>10. ASSUME NEW l \in Listeners, Drain(l) PROVE Inv'
  BY <1>10
  DEF Drain, Readable, Inv, TypeOK, Exclusive, Pinned, Durable, InPlace,
      Admitted, NotAhead, LoginPolicyIsTheSavedOne, ReportsAreCurrent,
      NeverRefusesToStart
<1>11. CASE Crash
  BY <1>11, DownInv DEF Crash, Inv, TypeOK
<1>12. CASE PowerLoss
  <2>1. /\ disk' \in survivors /\ survivors \subseteq Document
        /\ survivors' = {disk'} /\ undone \in BOOLEAN
        /\ undone' = (undone \/ disk' \notin {disk, document})
    BY <1>12 DEF PowerLoss, Inv, TypeOK
  <2>2. undone' \in BOOLEAN /\ (undone => undone')
        /\ (~undone' => disk' \in {disk, document})
    BY <2>1
  <2> QED
    BY <1>12, <2>1, <2>2, DownInv DEF PowerLoss
<1>13. ASSUME NEW synced \in BOOLEAN, CrashDuringSave(synced) PROVE Inv'
  <2>1. /\ NextDocument \in Document
        /\ NextDocument.revision > document.revision
        /\ bound # None => NextDocument.policy = bound
    BY <1>13, NextDocumentFacts
    DEF CrashDuringSave, Publish, Inv, TypeOK, Document
  <2>2. /\ Down /\ disk' = NextDocument /\ undone' = undone
        /\ disk' \in survivors' /\ survivors' \subseteq Document
    BY <1>13, <2>1 DEF CrashDuringSave, Publish, Inv, TypeOK
  <2> QED
    BY <2>1, <2>2, DownInv DEF Inv, TypeOK
<1>14. CASE Restart
  BY <1>14
  DEF Restart, Inv, TypeOK, Document, Exclusive, Pinned, Durable, InPlace,
      Admitted, NotAhead, LoginPolicyIsTheSavedOne, ReportsAreCurrent,
      NeverRefusesToStart
<1>15. CASE UNCHANGED vars
  BY <1>15
  DEF vars, Inv, TypeOK, Exclusive, Pinned, Durable, InPlace,
      Admitted, NotAhead, LoginPolicyIsTheSavedOne, ReportsAreCurrent,
      NeverRefusesToStart
<1> QED
  BY <1>1, <1>2, <1>3, <1>4, <1>5, <1>6, <1>7, <1>8, <1>9, <1>10, <1>11,
     <1>12, <1>13, <1>14, <1>15 DEF Next

(* The invariant holds of every behaviour.                                 *)
LEMMA Invariance == Spec => []Inv
BY InitInv, NextInv, PTL DEF Spec

-----------------------------------------------------------------------------
(* Every variable of the console keeps its type, through saves, failed     *)
(* syncs and restarts.                                                     *)
THEOREM TypeCorrect == Spec => []TypeOK
<1>1. Inv => TypeOK
  BY DEF Inv
<1> QED
  BY <1>1, Invariance, PTL

(* update_config swaps file, copy and policy together: whenever the node   *)
(* runs, the policy in force is the one in settings.json.                  *)
THEOREM PolicyFollowsSettings == Spec => []LoginPolicyIsTheSavedOne
<1>1. Inv => LoginPolicyIsTheSavedOne
  BY DEF Inv
<1> QED
  BY <1>1, Invariance, PTL

(* A peer report on display is about the present settings, although checks *)
(* run beside everything but a save.                                       *)
THEOREM ReportsFollowSettings == Spec => []ReportsAreCurrent
<1>1. Inv => ReportsAreCurrent
  BY DEF Inv
<1> QED
  BY <1>1, Invariance, PTL

(* Settings and binding survive in agreement every crash, kills in the     *)
(* middle of a save included, and every power failure that takes back no   *)
(* document a process had gone on with, and the node starts again.         *)
THEOREM StartsAgain == Spec => []NeverRefusesToStart
<1>1. Inv => NeverRefusesToStart
  BY DEF Inv
<1> QED
  BY <1>1, Invariance, PTL

(* Comparing revisions is enough to keep tabs from overwriting each other, *)
(* under the same condition: as long as no document in use was taken back, *)
(* no two documents have shared a revision.                                *)
THEOREM NoTabOverwritesAnother == Spec => NoSilentOverwrite
<1> DEFINE Kept == node = "up" /\ node' = "up" /\ document' # document
                     /\ ~undone =>
                   control # None /\ known[control] = document
<1>1. Inv /\ [Next]_vars => [Kept]_vars
  <2> SUFFICES ASSUME Inv, Next, node = "up", node' = "up",
                      document' # document, ~undone
               PROVE  control # None /\ known[control] = document
    BY DEF Kept
  <2> USE DEF files, locks, action, stopping
  <2>1. PICK synced \in BOOLEAN : UpdateSave(synced)
    BY DEF Next, AccountBegin, AccountEnd, ReadConfig, UpdateBegin,
           UpdateCancel, UpdateReject, start, finish, Signal, Drain, Crash,
           PowerLoss, CrashDuringSave, Down, Restart
  <2>2. control # None /\ Savable
    BY <2>1 DEF UpdateSave, Publish
  <2>3. /\ document = disk /\ control \in Tabs /\ known[control] \in Document
        /\ known[control].revision = document.revision
    BY <2>2, NextDocumentFacts
  <2>4. known[control] # None
    BY <2>2 DEF Inv, Exclusive
  <2> QED
    BY <2>2, <2>3, <2>4 DEF Inv, Durable, NotAhead
<1> QED
  BY <1>1, Invariance, PTL DEF Spec, NoSilentOverwrite
=============================================================================
