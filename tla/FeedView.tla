------------------------------ MODULE FeedView ------------------------------
(***************************************************************************)
(* What an operator sees of a worker's event journal in a console tab      *)
(* (console.js), and what may be relied on.  Module LogFeed has how it     *)
(* comes about.                                                            *)
(***************************************************************************)
EXTENDS Integers

VARIABLES
  instance,        \* instance_id of the worker: random, here numbered
  \* the tab
  connected,
  logs, cursor,
  instanceId,      \* the process the tab last heard of, 0 for none
  truncated        \* whether the tab says that events are missing

(* While the process the tab last heard of still runs, the list shows only *)
(* its events, in order, and every event up to the tab's cursor is listed  *)
(* unless the tab says that some are missing: no interleaving of lost or   *)
(* late answers, reconnections and restarts leaves a silent gap or mixes   *)
(* the events of two processes.                                            *)
FeedIsFaithful ==
  connected /\ instanceId = instance =>
    /\ \A i \in DOMAIN logs : logs[i].instance = instance
    /\ \A i, j \in DOMAIN logs : i < j => logs[i].sequence < logs[j].sequence
    /\ \A n \in 1..cursor :
         truncated \/ \E i \in DOMAIN logs : logs[i].sequence = n
=============================================================================
