--------------------------- MODULE MCSavedSession ---------------------------
\* Small instances of SavedSession for TLC.
EXTENDS SavedSession

CONSTANTS s1, s2

OneSession == {s1}
BothSessions == {s1, s2}
=============================================================================
