--------------------------- MODULE MCInvokerPool ---------------------------
(* Small instances of InvokerPool for TLC.                                  *)
EXTENDS InvokerPool, TLC

Symmetry == Permutations(Invokers) \cup Permutations(Contexts) \cup Permutations(Msgs)
=============================================================================
