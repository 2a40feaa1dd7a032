----------------------------- MODULE MCVtManager -----------------------------
\* Values for the constants of VtManager that a configuration cannot spell.
EXTENDS VtManager, TLC

CONSTANTS b1, b2, b3, t1, t2, t3

ThreeBoards == (t1 :> b1) @@ (t2 :> b2) @@ (t3 :> b3)
OneEach == (t1 :> b1) @@ (t2 :> b2)
=============================================================================
