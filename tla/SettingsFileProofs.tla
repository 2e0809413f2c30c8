------------------------- MODULE SettingsFileProofs -------------------------
(***************************************************************************)
(* settings.json survives power failures whole, keeps what was reported as *)
(* saved, and gives way only to checked saves, for any number of           *)
(* processes and all sets of settings.                                     *)
(*                                                                         *)
(* What the proof needs beside types: a file has its name only after its   *)
(* bytes are synchronized (Whole, Prepared), one process at most is        *)
(* running and the file cannot change between its check and its rename     *)
(* (Owned), and the file about to be reported is the newest one (Newest).  *)
(***************************************************************************)
EXTENDS SettingsFile, TLAPS

\* Named files have their bytes.
Whole ==
  /\ file \in survivors
  /\ \A f \in survivors : f # None => f.synced /\ f.serial <= serial

\* So has a temporary file about to be named, which holds a document.
Prepared ==
  \A p \in Processes :
    /\ pc[p] \in Creating \cup Saving => temporary[p] # None
    /\ pc[p] \in {"link", "rename"} => temporary[p].synced
    /\ temporary[p] # None => temporary[p].doc \in Document

\* The process that serves is the only one, and its checked save still holds.
Owned ==
  /\ \A p, q \in Processes : pc[p] \in Running /\ pc[q] \in Running => p = q
  /\ \A p \in Processes :
       pc[p] \in Saving => file # None /\ file.doc = base[p]
  /\ \A p \in Processes :
       pc[p] \in Running \cup {"opened", "create", "link", "linked"} =>
         document[p] # None

Newest ==
  /\ acked <= serial
  /\ \A p \in Processes :
       pc[p] \in Published => file # None /\ file.serial = serial

Inv == TypeOK /\ Whole /\ Prepared /\ Owned /\ Newest /\ AckedSurvives

USE DEF Creating, Saving, Published, Running, Pc

(* The empty directory is a good start.                                    *)
LEMMA InitInv == Init => Inv
BY FileAssumption
DEF Init, Inv, TypeOK, Whole, Prepared, Owned, Newest, AckedSurvives

(* Publishing a synchronized file.                                         *)
LEMMA PublishInv ==
  ASSUME Inv, NEW p \in Processes, pc[p] \in {"link", "rename"}, Publish(p)
  PROVE  /\ file' \in File /\ file'.synced /\ file'.serial = serial + 1
         /\ file'.doc = temporary[p].doc /\ file' # None
         /\ serial' = serial + 1 /\ serial' \in 0..MaxSerial
         /\ survivors' = survivors \cup {file'}
         /\ survivors' \subseteq File \cup {None}
         /\ temporary' \in [Processes -> File \cup {None}]
<1>1. temporary[p] \in File /\ temporary[p].synced
  BY DEF Inv, TypeOK, Prepared
<1>2. serial \in Nat /\ serial + 1 \in 0..MaxSerial
  BY FileAssumption DEF Publish, Inv, TypeOK
<1>3. file' \in File /\ file'.synced /\ file'.serial = serial + 1
      /\ file'.doc = temporary[p].doc
  BY <1>1, <1>2 DEF Publish, File
<1>4. file' # None
  BY <1>3, FileAssumption DEF File, Document
<1> QED
  BY <1>2, <1>3, <1>4 DEF Publish, Inv, TypeOK

(* Every step keeps the invariant.                                         *)
LEMMA NextInv == Inv /\ [Next]_vars => Inv'
<1> SUFFICES ASSUME Inv, [Next]_vars PROVE Inv'
  OBVIOUS
<1> USE FileAssumption
<1>1. ASSUME NEW p \in Processes, OpenFound(p) PROVE Inv'
  BY <1>1
  DEF OpenFound, Goto, Readable, Inv, TypeOK, Whole, Prepared, Owned, Newest,
              AckedSurvives, Document
<1>2. ASSUME NEW p \in Processes, NEW v \in Values, OpenMissing(p, v)
      PROVE  Inv'
  <2>1. [revision |-> 1, value |-> v] \in Document
    BY DEF Document
  <2>2. Temporary([revision |-> 1, value |-> v]) \in File
    BY <2>1 DEF Temporary, File
  <2>3. /\ document' = [document EXCEPT ![p] = [revision |-> 1, value |-> v]]
        /\ temporary' = [temporary EXCEPT
             ![p] = Temporary([revision |-> 1, value |-> v])]
        /\ pc' = [pc EXCEPT ![p] = "create"]
        /\ UNCHANGED <<file, survivors, base, serial, acked>>
    BY <1>2 DEF OpenMissing, Goto, Inv, TypeOK
  <2>4. TypeOK'
    BY <2>1, <2>2, <2>3 DEF Inv, TypeOK
  <2>5. Prepared'
    <3>1. /\ temporary'[p] # None /\ temporary'[p].doc \in Document
          /\ pc'[p] = "create"
      BY <2>1, <2>2, <2>3 DEF Inv, TypeOK, Temporary, File, Document
    <3>2. \A q \in Processes \ {p} : temporary'[q] = temporary[q]
                                    /\ pc'[q] = pc[q]
      BY <2>3 DEF Inv, TypeOK
    <3> QED
      BY <3>1, <3>2 DEF Inv, Prepared
  <2>6. Owned'
    BY <2>1, <2>3 DEF Inv, TypeOK, Owned, Document
  <2> QED
    BY <2>3, <2>4, <2>5, <2>6 DEF Inv, TypeOK, Whole, Newest, AckedSurvives
<1>3. ASSUME NEW p \in Processes, Serve(p) PROVE Inv'
  BY <1>3
  DEF Serve, Goto, Inv, TypeOK, Whole, Prepared, Owned, Newest, AckedSurvives
<1>4. ASSUME NEW p \in Processes, Fail(p) PROVE Inv'
  BY <1>4
  DEF Fail, Goto, Inv, TypeOK, Whole, Prepared, Owned, Newest, AckedSurvives
<1>5. ASSUME NEW p \in Processes, SyncTemporary(p) PROVE Inv'
  <2>1. temporary[p] \in File
    BY <1>5 DEF SyncTemporary, Inv, TypeOK, Prepared
  <2>2. [temporary[p] EXCEPT !.synced = TRUE] \in File \ {None}
    BY <2>1 DEF File, Document
  <2> QED
    BY <1>5, <2>1, <2>2
    DEF SyncTemporary, Goto, Inv, TypeOK, Whole, Prepared, Owned, Newest,
        AckedSurvives,
        File
<1>6. ASSUME NEW p \in Processes, Link(p) PROVE Inv'
  <2> USE DEF Link, Goto
  <2>1. file = None /\ pc[p] = "link" /\ Publish(p)
        /\ UNCHANGED <<document, base, acked>>
    BY <1>6
  <2>2. \A q \in Processes : pc[q] \notin Saving
    BY <2>1 DEF Inv, Owned
  <2>3. acked = 0
    BY <2>1 DEF Inv, Whole, AckedSurvives, TypeOK
  <2>4. pc' = [pc EXCEPT ![p] = "linked"]
        /\ temporary' = [temporary EXCEPT ![p] = None]
    BY <1>6 DEF Publish
  <2> HIDE DEF Link, Goto
  <2>5. /\ file' \in File /\ file'.synced /\ file'.serial = serial + 1
        /\ file' # None /\ serial' = serial + 1 /\ serial' \in 0..MaxSerial
        /\ survivors' = survivors \cup {file'}
        /\ survivors' \subseteq File \cup {None}
        /\ temporary' \in [Processes -> File \cup {None}]
    BY <2>1, PublishInv
  <2>6. TypeOK'
    BY <2>1, <2>4, <2>5 DEF Inv, TypeOK
  <2>7. Whole' /\ Prepared'
    <3>1. Whole'
      BY <2>5 DEF Inv, TypeOK, Whole, File
    <3>2. Prepared'
      BY <2>4 DEF Inv, TypeOK, Prepared
    <3> QED
      BY <3>1, <3>2
  <2>8. Owned'
    BY <2>1, <2>2, <2>4 DEF Inv, TypeOK, Owned
  <2>9. Newest'
    BY <2>1, <2>2, <2>3, <2>4, <2>5 DEF Inv, TypeOK, Newest
  <2>10. AckedSurvives'
    BY <2>1, <2>3 DEF AckedSurvives
  <2> QED
    BY <2>6, <2>7, <2>8, <2>9, <2>10 DEF Inv
<1>7. ASSUME NEW p \in Processes, Rename(p) PROVE Inv'
  <2>1. pc[p] = "rename" /\ Publish(p) /\ UNCHANGED <<base, acked>>
        /\ pc' = [pc EXCEPT ![p] = "renamed"]
        /\ document' = [document EXCEPT ![p] = temporary[p].doc]
    BY <1>7 DEF Rename, Goto
  <2>2. temporary' = [temporary EXCEPT ![p] = None]
    BY <2>1 DEF Publish
  <2>3. /\ file' \in File /\ file'.synced /\ file'.serial = serial + 1
        /\ file' # None /\ serial' = serial + 1 /\ serial' \in 0..MaxSerial
        /\ survivors' = survivors \cup {file'}
        /\ survivors' \subseteq File \cup {None}
        /\ temporary' \in [Processes -> File \cup {None}]
    BY <2>1, PublishInv
  <2>4. temporary[p].doc \in Document
    BY <2>1 DEF Inv, Prepared
  <2>5. TypeOK'
    BY <2>1, <2>3, <2>4 DEF Inv, TypeOK
  <2>6. Whole' /\ Prepared'
    <3>1. Whole'
      BY <2>3 DEF Inv, TypeOK, Whole, File
    <3>2. Prepared'
      BY <2>1, <2>2 DEF Inv, TypeOK, Prepared
    <3> QED
      BY <3>1, <3>2
  <2>7. Owned'
    BY <2>1, <2>4 DEF Inv, TypeOK, Owned, Document
  <2>8. Newest'
    BY <2>1, <2>3 DEF Inv, TypeOK, Newest
  <2>9. AckedSurvives'
    BY <2>1, <2>3 DEF Inv, TypeOK, Newest, AckedSurvives
  <2> QED
    BY <2>5, <2>6, <2>7, <2>8, <2>9 DEF Inv
<1>8. ASSUME NEW p \in Processes, SyncDirectory(p) PROVE Inv'
  BY <1>8
  DEF SyncDirectory, Report, Goto, Inv, TypeOK, Whole, Prepared, Owned, Newest,
              AckedSurvives
<1>9. ASSUME NEW p \in Processes, SyncFail(p) PROVE Inv'
  BY <1>9
  DEF SyncFail, Goto, Inv, TypeOK, Whole, Prepared, Owned, Newest,
      AckedSurvives
<1>10. ASSUME NEW p \in Processes, Stop(p) PROVE Inv'
  BY <1>10
  DEF Stop, Goto, Inv, TypeOK, Whole, Prepared, Owned, Newest, AckedSurvives
<1>11. ASSUME NEW p \in Processes, NEW v \in Values, NEW r \in 1..MaxRevision,
              Replace(p, r, v)
       PROVE  Inv'
  <2>1. [revision |-> r + 1, value |-> v] \in Document
    BY <1>11 DEF Replace, Document
  <2>2. Temporary([revision |-> r + 1, value |-> v]) \in File
    BY <2>1 DEF Temporary, File
  <2>3. TypeOK'
    BY <1>11, <2>2 DEF Replace, Goto, Inv, TypeOK
  <2>4. Prepared'
    <3>1. /\ temporary'[p] # None /\ temporary'[p].doc \in Document
          /\ pc'[p] = "replace"
      BY <1>11, <2>1, <2>2
      DEF Replace, Goto, Inv, TypeOK, Temporary, File, Document
    <3>2. \A q \in Processes \ {p} : temporary'[q] = temporary[q]
                                    /\ pc'[q] = pc[q]
      BY <1>11 DEF Replace, Goto, Inv, TypeOK
    <3> QED
      BY <3>1, <3>2 DEF Inv, Prepared
  <2>5. Owned'
    BY <1>11 DEF Replace, Matches, Readable, Goto, Inv, TypeOK, Owned
  <2> QED
    BY <1>11, <2>3, <2>4, <2>5
    DEF Replace, Goto, Inv, TypeOK, Whole, Newest, AckedSurvives
<1>12. CASE PowerFail
  <2>1. PICK f \in survivors : file' = AfterPowerFailure(f)
    BY <1>12 DEF PowerFail
  <2>2. file' = f
    BY <2>1 DEF AfterPowerFailure, Inv, Whole
  <2> QED
    BY <1>12, <2>2
    DEF PowerFail, Inv, TypeOK, Whole, Prepared, Owned, Newest, AckedSurvives
<1>13. CASE Operator
  <2>1. PICK d \in Document \cup {Malformed, None} :
          file' = IF d = None THEN None
                  ELSE [doc |-> d, synced |-> TRUE, serial |-> serial + 1]
    BY <1>13 DEF Operator
  <2>2. serial' = serial + 1 /\ serial' \in 0..MaxSerial /\ serial \in Nat
    BY <1>13 DEF Operator, Inv, TypeOK
  <2>3. \/ file' = None
        \/ file' \in File /\ file'.synced /\ file'.serial = serial'
    BY <2>1, <2>2 DEF File
  <2> QED
    BY <1>13, <2>2, <2>3
    DEF Operator, Inv, TypeOK, Whole, Prepared, Owned, Newest, AckedSurvives
<1>14. CASE UNCHANGED vars
  BY <1>14 DEF vars, Inv, TypeOK, Whole, Prepared, Owned, Newest, AckedSurvives
<1> QED
  BY <1>1, <1>2, <1>3, <1>4, <1>5, <1>6, <1>7, <1>8, <1>9, <1>10, <1>11,
     <1>12, <1>13, <1>14 DEF Next

(* The strengthened invariant holds throughout.                            *)
THEOREM Invariance == Spec => []Inv
<1> QED
  BY InitInv, NextInv, PTL DEF Spec

(* Every variable has its type.                                            *)
THEOREM TypeCorrect == Spec => []TypeOK
<1>1. Inv => TypeOK
  BY DEF Inv
<1> QED
  BY <1>1, Invariance, PTL

(* publish: every file a power failure can bring back is whole.            *)
THEOREM NothingIsTorn == Spec => []ReadableAfterPowerFailure
<1>1. Inv => ReadableAfterPowerFailure
  BY DEF Inv, Whole, ReadableAfterPowerFailure, AfterPowerFailure
<1> QED
  BY <1>1, Invariance, PTL

(* open, replace: what was reported as saved survives power failures.      *)
THEOREM ReportsAreDurable == Spec => []AckedSurvives
<1>1. Inv => AckedSurvives
  BY DEF Inv
<1> QED
  BY <1>1, Invariance, PTL

(* open, replace: only a save checked against the document in the file     *)
(* replaces it.                                                            *)
THEOREM ReplacementIsChecked == Spec => OnlyCheckedSavesReplace
<1> DEFINE Checked ==
      \A p \in Processes :
        file # None /\ pc[p] \in {"link", "rename"} /\ pc'[p] \in Published =>
          pc[p] = "rename" /\ base[p] = file.doc
<1>1. Inv /\ [Next]_vars => [Checked]_vars
  <2> SUFFICES ASSUME Inv, Next, NEW p \in Processes, file # None,
                      pc[p] \in {"link", "rename"}, pc'[p] \in Published
               PROVE  pc[p] = "rename" /\ base[p] = file.doc
    BY DEF vars
  <2>1. pc[p] = "rename" => base[p] = file.doc
    BY DEF Inv, Owned
  <2>2. pc[p] # "link"
    BY DEF Next, OpenFound, Serve, Fail, SyncTemporary, Link, Rename,
           SyncDirectory, SyncFail, Stop, OpenMissing, Replace, PowerFail,
           Operator, Goto, Report, Inv, TypeOK
  <2> QED
    BY <2>1, <2>2
<1> QED
  BY <1>1, Invariance, PTL DEF Spec, OnlyCheckedSavesReplace
=============================================================================
