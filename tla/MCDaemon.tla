----------------------------- MODULE MCDaemon ------------------------------
(* A small instance of Daemon for TLC: the invoker daemon, asked for two    *)
(* threads, after a daemon of two threads and before a daemon of one.       *)
EXTENDS Daemon

MCSize == <<2, 2, 1>>
=============================================================================
