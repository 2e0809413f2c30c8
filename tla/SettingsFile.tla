---------------------------- MODULE SettingsFile ----------------------------
(***************************************************************************)
(* settings.json on its file system (ConfigStore in                        *)
(* crates/psky/src/settings.rs): how the first document is created by      *)
(* processes that start at the same time, how a running one replaces it,   *)
(* and what a crash or a power failure between two system calls leaves.    *)
(* Module Console takes a save as one step and follows the settings in     *)
(* memory.                                                                 *)
(*                                                                         *)
(* A file is a document, whether its bytes are synchronized, and when it   *)
(* was published (0 while it has only its temporary name, which is random  *)
(* and read by nobody).  `survivors' are the files settings.json may name  *)
(* after a power failure: the directory is not synchronized at once.       *)
(*                                                                         *)
(* "A durable settings store owned by one running node": of the processes  *)
(* that have opened the store only one gets the listeners it is to serve.  *)
(***************************************************************************)
EXTENDS Integers

CONSTANTS
  Processes,
  Values,          \* the settings proper, all valid
  None,
  Malformed,       \* a file no process accepts
  MaxRevision,     \* the largest revision (2^64 - 1)
  MaxSerial        \* bound on publications

ASSUME FileAssumption ==
  /\ MaxRevision \in Nat \ {0} /\ MaxSerial \in Nat
  /\ None \notin [revision : 1..MaxRevision, value : Values]
  /\ Malformed \notin [revision : 1..MaxRevision, value : Values]
  /\ None \notin [doc : [revision : 1..MaxRevision, value : Values]
                          \cup {Malformed},
                  synced : BOOLEAN, serial : 0..MaxSerial]

VARIABLES
  file,            \* what settings.json names, or None
  survivors,       \* what it may name after a power failure
  pc,              \* where each process is
  document,        \* ConfigStore.document of a process, or what it will be
  temporary,       \* the temporary file of a process
  base,            \* history: the document a save was checked against
  serial,          \* history: publications so far
  acked            \* history: the last publication reported as durable

vars == <<file, survivors, pc, document, temporary, base, serial, acked>>

Document == [revision : 1..MaxRevision, value : Values]
File == [doc : Document \cup {Malformed}, synced : BOOLEAN,
         serial : 0..MaxSerial]

\* Where a process is before and after it publishes a document: the first
\* one, which is linked, or that of a save, which is renamed.
Creating == {"create", "link"}
Saving == {"replace", "rename"}
Published == {"linked", "renamed"}
Running == Saving \cup {"running", "renamed"}
Pc == {"down", "opened", "running"} \cup Creating \cup Saving \cup Published

Temporary(d) == [doc |-> d, synced |-> FALSE, serial |-> 0]

(* Every variable has its type.                                            *)
TypeOK ==
  /\ file \in File \cup {None}
  /\ survivors \subseteq File \cup {None}
  /\ pc \in [Processes -> Pc]
  /\ document \in [Processes -> Document \cup {None}]
  /\ temporary \in [Processes -> File \cup {None}]
  /\ base \in [Processes -> Document \cup {None}]
  /\ serial \in 0..MaxSerial /\ acked \in 0..MaxSerial

Init ==
  /\ file = None /\ survivors = {None}
  /\ pc = [p \in Processes |-> "down"]
  /\ document = [p \in Processes |-> None]
  /\ temporary = [p \in Processes |-> None]
  /\ base = [p \in Processes |-> None]
  /\ serial = 0 /\ acked = 0

-----------------------------------------------------------------------------
(* open.                                                                   *)

Goto(p, label) == pc' = [pc EXCEPT ![p] = label]

\* read_document finds a whole and valid document.
Readable == file # None /\ file.doc \in Document

OpenFound(p) ==
  /\ pc[p] = "down" /\ Readable
  /\ document' = [document EXCEPT ![p] = file.doc]
  /\ Goto(p, "opened")
  /\ UNCHANGED <<file, survivors, temporary, base, serial, acked>>

OpenMissing(p, v) ==
  /\ pc[p] = "down" /\ file = None
  /\ document' = [document EXCEPT ![p] = [revision |-> 1, value |-> v]]
  /\ temporary' = [temporary EXCEPT ![p] = Temporary(document'[p])]
  /\ Goto(p, "create")
  /\ UNCHANGED <<file, survivors, base, serial, acked>>

\* serve binds both listeners, which one process at a time can have, and
\* builds its state; a process that fails in this ends.
Serve(p) ==
  /\ pc[p] = "opened"
  /\ \A q \in Processes : pc[q] \notin Running
  /\ Goto(p, "running")
  /\ UNCHANGED <<file, survivors, document, temporary, base, serial, acked>>

-----------------------------------------------------------------------------
(* replace, up to the publication.                                         *)

\* Mutated form: only the revision in memory is compared.
InMemory(p, expected) == expected = document[p].revision

\* The revision the caller expects, the document in memory and the one in
\* the file are the same.
Matches(p, expected) ==
  /\ expected = document[p].revision
  /\ Readable /\ file.doc = document[p]

\* A save that passes the checks; the others return an error.
Replace(p, expected, v) ==
  /\ pc[p] = "running"
  /\ Matches(p, expected)
  /\ expected < MaxRevision
  /\ base' = [base EXCEPT ![p] = document[p]]
  /\ temporary' = [temporary EXCEPT
       ![p] = Temporary([revision |-> expected + 1, value |-> v])]
  /\ Goto(p, "replace")
  /\ UNCHANGED <<file, survivors, document, serial, acked>>

\* Any step up to the publication fails: open's error ends the process,
\* replace's leaves it running.  The temporary file is removed.
Fail(p) ==
  /\ \/ pc[p] \in Creating /\ Goto(p, "down")
     \/ pc[p] \in Saving /\ Goto(p, "running")
  /\ temporary' = [temporary EXCEPT ![p] = None]
  /\ UNCHANGED <<file, survivors, document, base, serial, acked>>

-----------------------------------------------------------------------------
(* publish.                                                                *)

\* Mutated form: the bytes are left to the operating system.
LazySync(p) ==
  /\ \/ pc[p] = "create" /\ Goto(p, "link")
     \/ pc[p] = "replace" /\ Goto(p, "rename")
  /\ UNCHANGED <<file, survivors, document, temporary, base, serial, acked>>

\* The bytes are written to the temporary file, and sync_all.
SyncTemporary(p) ==
  /\ \/ pc[p] = "create" /\ Goto(p, "link")
     \/ pc[p] = "replace" /\ Goto(p, "rename")
  /\ temporary' = [temporary EXCEPT ![p].synced = TRUE]
  /\ UNCHANGED <<file, survivors, document, base, serial, acked>>

\* The temporary file gets its name.
Publish(p) ==
  /\ serial < MaxSerial
  /\ serial' = serial + 1
  /\ file' = [temporary[p] EXCEPT !.serial = serial + 1]
  /\ survivors' = survivors \cup {file'}
  /\ temporary' = [temporary EXCEPT ![p] = None]

\* hard_link fails when there is a file (Fail).
Link(p) ==
  /\ pc[p] = "link"
  /\ file = None
  /\ Publish(p)
  /\ Goto(p, "linked")
  /\ UNCHANGED <<document, base, acked>>

Rename(p) ==
  /\ pc[p] = "rename"
  /\ document' = [document EXCEPT ![p] = temporary[p].doc]
  /\ Publish(p)
  /\ Goto(p, "renamed")
  /\ UNCHANGED <<base, acked>>

Report(p) == \/ pc[p] = "linked" /\ Goto(p, "opened")
             \/ pc[p] = "renamed" /\ Goto(p, "running")

\* Mutated form: success is reported without it.
SkipSync(p) ==
  /\ Report(p)
  /\ acked' = serial
  /\ UNCHANGED <<file, survivors, document, temporary, base, serial>>

\* sync_directory, and the success it lets open or replace report.
SyncDirectory(p) ==
  /\ Report(p)
  /\ survivors' = {file}
  /\ acked' = serial
  /\ UNCHANGED <<file, document, temporary, base, serial>>

\* It fails: open gives up, replace reports the error but keeps the new
\* document.
SyncFail(p) ==
  /\ \/ pc[p] = "linked" /\ Goto(p, "down")
     \/ pc[p] = "renamed" /\ Goto(p, "running")
  /\ UNCHANGED <<file, survivors, document, temporary, base, serial, acked>>

-----------------------------------------------------------------------------
(* Crashes and the operator.                                               *)

\* A process ends, wherever it is.
Stop(p) ==
  /\ pc[p] # "down"
  /\ Goto(p, "down")
  /\ temporary' = [temporary EXCEPT ![p] = None]
  /\ UNCHANGED <<file, survivors, document, base, serial, acked>>

\* Bytes that were not synchronized are lost.
AfterPowerFailure(f) ==
  IF f = None \/ f.synced THEN f ELSE [f EXCEPT !.doc = Malformed]

PowerFail ==
  /\ \E f \in survivors : file' = AfterPowerFailure(f)
  /\ survivors' = {file'}
  /\ pc' = [p \in Processes |-> "down"]
  /\ temporary' = [p \in Processes |-> None]
  /\ UNCHANGED <<document, base, serial, acked>>

\* The operator writes or removes the file by hand, while no process is about
\* to publish one, and what was reported before counts no more.
Operator ==
  /\ serial < MaxSerial
  /\ \A p \in Processes : pc[p] \in {"down", "opened", "running"}
  /\ serial' = serial + 1
  /\ \E d \in Document \cup {Malformed, None} :
       file' = IF d = None THEN None
               ELSE [doc |-> d, synced |-> TRUE, serial |-> serial + 1]
  /\ survivors' = {file'} /\ acked' = 0
  /\ UNCHANGED <<pc, document, temporary, base>>

Next ==
  \/ \E p \in Processes :
       \/ OpenFound(p) \/ Serve(p) \/ Fail(p)
       \/ SyncTemporary(p) \/ Link(p) \/ Rename(p)
       \/ SyncDirectory(p) \/ SyncFail(p) \/ Stop(p)
  \/ \E p \in Processes, v \in Values : OpenMissing(p, v)
  \/ \E p \in Processes, v \in Values, r \in 1..MaxRevision : Replace(p, r, v)
  \/ PowerFail \/ Operator

Spec == Init /\ [][Next]_vars

-----------------------------------------------------------------------------
(* Properties.                                                             *)

(* publish: whichever file comes back after a power failure, it is as it   *)
(* was published, never empty or torn.                                     *)
ReadableAfterPowerFailure ==
  \A f \in survivors : AfterPowerFailure(f) = f

(* open and replace: what was reported as saved is not lost in a power     *)
(* failure, except to a later publication or the operator's own hand.      *)
AckedSurvives ==
  acked > 0 => \A f \in survivors : f # None /\ f.serial >= acked

(* A document in the file gives way only to the save that was checked      *)
(* against that very document: not to the first document of a process that *)
(* found no file when it started, nor to the save of one that had read the *)
(* file before another changed it.                                         *)
OnlyCheckedSavesReplace ==
  [][\A p \in Processes :
       file # None /\ pc[p] \in {"link", "rename"} /\ pc'[p] \in Published =>
         pc[p] = "rename" /\ base[p] = file.doc]_vars
=============================================================================
