----------------------------- MODULE MCPotsCall -----------------------------
EXTENDS PotsCall, TLC

CONSTANTS u1, u2

Offhooks == (u1 :> 1) @@ (u2 :> 2)
Dialling == (u1 :> 1) @@ (u2 :> 0)
Rejected == (u1 :> 0) @@ (u2 :> 1)
=============================================================================
