------------------------------ MODULE MCReader ------------------------------
EXTENDS Reader, TLC
\* Three parts: the last is no longer than the threshold, the others are.
ThreeParts == (0 :> 2) @@ (1 :> 2) @@ (2 :> 1)
=============================================================================
