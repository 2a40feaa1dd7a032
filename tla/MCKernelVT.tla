----------------------------- MODULE MCKernelVT -----------------------------
\* Values for the constants of KernelVT that a configuration cannot spell.
EXTENDS KernelVT

EnterOnly == {1000}
EnterLeave == {0, 1000}
TwoFactors == {1000, 2000}
Refused == {-1, 0, 1000}
All == {0, 1000, 2000, 200000}

\* The history only serves the properties of orderly use; a run that checks none
\* of them need not tell states apart by it.
WithoutHistory == <<wall, vt, parent, copy, run, call>>
=============================================================================
