----------------------------- MODULE MCLogRing -----------------------------
(* A ring of 4 slots, each of which is overwritten.                        *)
EXTENDS LogRing

\* "max": -1, 0.5, 1 and 3, in halves.
MCHalfMaxes == {-2, 1, 2, 6}

=============================================================================
