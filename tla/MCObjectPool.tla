---- MODULE MCObjectPool ----
(* Object pools on a small instance.                                       *)
EXTENDS ObjectPool
====
