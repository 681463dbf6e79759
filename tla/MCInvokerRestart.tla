-------------------------- MODULE MCInvokerRestart -------------------------
(* Small instances of InvokerRestart for TLC.                               *)
EXTENDS InvokerRestart, TLC

Symmetry == Permutations(Invokers) \cup Permutations(Contexts) \cup Permutations(Msgs)
=============================================================================
