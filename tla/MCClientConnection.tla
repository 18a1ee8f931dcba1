------------------------- MODULE MCClientConnection -------------------------
\* Small instances of ClientConnection for TLC.
EXTENDS ClientConnection, TLC

CONSTANTS w1, w2

TwoSlots == {w1, w2}
SlotSymmetry == Permutations(TwoSlots)
Pairing == {"pair"}
EitherStart == {"pair", "restore"}
=============================================================================
