------------------------------ MODULE MCWebApp -------------------------------
\* Small instances of WebApp for TLC: a page that is updated, one that scans, and one
\* that is pasted into.
EXTENDS WebApp

CONSTANTS a1, a2, p1

TwoScans == {a1, a2}
OnePaste == {p1}

\* A text of pairs, of which the second is astride the first two writes of three units.
AllPairs == [p \in OnePaste |-> {1, 3, 5}]

Idle == [scans |-> {}, pastes |-> {}, clients |-> 1, keys |-> 0, faults |-> 0, builds |-> 1]

Updating == [Idle EXCEPT !.scans = {a1}, !.builds = 2, !.faults = 1]
Scanning == [Idle EXCEPT !.scans = {a1, a2}, !.clients = 2]
Pasting == [Idle EXCEPT !.pastes = {p1}, !.keys = 1, !.faults = 1]

AnyVisit == {Updating, Scanning, Pasting}

\* A second update while the first is taken.
TwoUpdates == {[Updating EXCEPT !.builds = 3]}
=============================================================================
