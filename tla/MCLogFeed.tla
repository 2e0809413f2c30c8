---- MODULE MCLogFeed ----
(* The journal and one tab on a small instance.                            *)
EXTENDS LogFeed
====
