--------------------------- MODULE MCRelaySession ---------------------------
\* Small instances of RelaySession for TLC.
EXTENDS RelaySession, TLC

CONSTANTS
  s1, s2,      \* sessions
  k1,          \* a code
  c1, c2,      \* the CLI's sockets
  p1, p2       \* the phone's

OneSession == {s1}
TwoSessions == {s1, s2}
OneCode == {k1}
OneCli == {c1}
TwoClis == {c1, c2}
OnePhone == {p1}
TwoPhones == {p1, p2}

\* Sockets of one kind are interchangeable.
SocketSymmetry == Permutations(TwoClis) \cup Permutations(TwoPhones)
=============================================================================
