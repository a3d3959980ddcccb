------------------------------ MODULE MCNetwork ------------------------------
EXTENDS Network, TLC

CONSTANTS r1, r2, e1, e2

MCEndOf == (r1 :> e1) @@ (r2 :> e2)
=============================================================================
