--------------------------- MODULE MCBackpressure ---------------------------
\* Small instances of Backpressure for TLC.
EXTENDS Backpressure

CONSTANTS c1, c2, p1

OneCli == {c1}
TwoClis == {c1, c2}
OnePhone == {p1}
=============================================================================
