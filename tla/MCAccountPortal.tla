---- MODULE MCAccountPortal ----
(* One tab, another one that changes the passwords, and one name.          *)
EXTENDS AccountPortal
====
