----------------------------- MODULE MCRuntime -----------------------------
\* Instances of Runtime for TLC.
EXTENDS Runtime

CONSTANTS p1, p2

OldAndNew == {p1, p2}
\* What two processes and Core hold, and one more.
Ids == 1..12
=============================================================================
