-------------------------- MODULE MCSystemRestart --------------------------
(* Small instances of SystemRestart: two modules, each of which creates a   *)
(* thread.                                                                  *)
EXTENDS SystemRestart

MCOwner == <<1, 2>>
=============================================================================
