---------------------------- MODULE Backpressure ----------------------------
(***************************************************************************)
(* How the relay keeps a flood from filling its memory (server.js): a peer *)
(* that falls behind makes the relay stop reading the other side of the    *)
(* session, until a poll finds the backlog drained or stuck.  The same     *)
(* sockets carry the heartbeat, whose pongs wait behind whatever is not    *)
(* read.                                                                   *)
(*                                                                         *)
(* One session, its peers already told apart (RelaySession models how).    *)
(* What waits for a peer is counted in chunks; small frames, pings among   *)
(* them, weigh nothing.  Ceiling only bounds the model: a backlog that     *)
(* reaches it stops being fed.                                             *)
(***************************************************************************)
EXTENDS Naturals

CONSTANTS
  CliSockets, PhoneSockets, None,
  HighWater,       \* MAX_BUFFERED, in chunks
  StallPolls,      \* MAX_BUFFERED_MS, in polls
  HeartbeatGrace,  \* pings that may go unanswered
  Ceiling

Sockets == CliSockets \cup PhoneSockets
Sides == {"cli", "mobile"}
Side(x) == IF x \in CliSockets THEN "cli" ELSE "mobile"
Opposite(side) == IF side = "cli" THEN "mobile" ELSE "cli"
LowWater == HighWater \div 2

ASSUME SocketAssumption == None \notin Sockets /\ CliSockets \cap PhoneSockets = {}
ASSUME WaterAssumption == HighWater \in Nat \ {0} /\ Ceiling \in Nat /\ HighWater < Ceiling
ASSUME TimeAssumption == StallPolls \in Nat \ {0} /\ HeartbeatGrace \in Nat

VARIABLES
  seat,          \* side -> the socket seated there, or None
  readyState,
  paused,        \* the relay does not read this socket
  buffered,      \* chunks queued for a peer, not yet taken by it
  backlogTimer,  \* the peer is being watched
  behindLow,     \* the lowest its backlog has been since
  stalled,       \* polls since it last was lower (behindSince)
  quiet          \* heartbeats since the last pong

vars == <<seat, readyState, paused, buffered, backlogTimer, behindLow, stalled, quiet>>
watch == <<backlogTimer, behindLow, stalled>>

TypeOK ==
  /\ seat \in [Sides -> Sockets \cup {None}]
  /\ readyState \in [Sockets -> {"new", "open", "closing", "closed"}]
  /\ paused \in [Sockets -> BOOLEAN]
  /\ buffered \in [Sockets -> 0 .. Ceiling]
  /\ backlogTimer \in [Sockets -> BOOLEAN]
  /\ behindLow \in [Sockets -> 0 .. Ceiling]
  /\ stalled \in [Sockets -> 0 .. StallPolls]
  /\ quiet \in 0 .. HeartbeatGrace

Init ==
  /\ seat = [side \in Sides |-> None]
  /\ readyState = [x \in Sockets |-> "new"]
  /\ paused = [x \in Sockets |-> FALSE]
  /\ buffered = [x \in Sockets |-> 0]
  /\ backlogTimer = [x \in Sockets |-> FALSE]
  /\ behindLow = [x \in Sockets |-> 0]
  /\ stalled = [x \in Sockets |-> 0]
  /\ quiet = 0

IsOpen(x) == x \in Sockets /\ readyState[x] = "open"

\* The socket whose output fills this one's queue, looked up when it is needed.
SourceFor(target) == seat[Opposite(Side(target))]

-----------------------------------------------------------------------------
\* A peer arrives and takes its seat from the one before it.
Arrive(x) ==
  /\ readyState[x] = "new"
  /\ readyState' = [y \in Sockets |-> IF y = x THEN "open"
                                      ELSE IF y = seat[Side(x)] /\ IsOpen(y) THEN "closing"
                                      ELSE readyState[y]]
  /\ seat' = [seat EXCEPT ![Side(x)] = x]
  /\ quiet' = IF Side(x) = "cli" THEN 0 ELSE quiet
  /\ UNCHANGED <<paused, buffered, watch>>

\* throttleSource, with level chunks queued for target.
MustThrottle(target, level) ==
  ~backlogTimer[target] /\ level > HighWater /\ SourceFor(target) # None

SlipThrottleSource(target, level) ==
  IF MustThrottle(target, level)
  THEN /\ backlogTimer' = [backlogTimer EXCEPT ![target] = TRUE]
       /\ behindLow' = [behindLow EXCEPT ![target] = level]
       /\ stalled' = [stalled EXCEPT ![target] = 0]
       /\ UNCHANGED paused
  ELSE UNCHANGED <<paused, watch>>

ThrottleSource(target, level) ==
  IF MustThrottle(target, level)
  THEN /\ paused' = [paused EXCEPT ![SourceFor(target)] = TRUE]
       /\ backlogTimer' = [backlogTimer EXCEPT ![target] = TRUE]
       /\ behindLow' = [behindLow EXCEPT ![target] = level]
       /\ stalled' = [stalled EXCEPT ![target] = 0]
  ELSE UNCHANGED <<paused, watch>>

\* A chunk from x is read and forwarded to the other seat.  What a peer that is
\* closing had sent before is still read.
Reads(x) == readyState[x] \in {"open", "closing"} /\ ~paused[x]

Forward(x) ==
  LET target == seat[Opposite(Side(x))]
  IN /\ Reads(x)
     /\ IsOpen(target)
     /\ buffered[target] < Ceiling
     /\ buffered' = [buffered EXCEPT ![target] = @ + 1]
     /\ ThrottleSource(target, buffered[target] + 1)
     /\ UNCHANGED <<seat, readyState, quiet>>

\* The peer takes a chunk off its queue.
Drain(x) ==
  /\ IsOpen(x)
  /\ buffered[x] > 0
  /\ buffered' = [buffered EXCEPT ![x] = @ - 1]
  /\ UNCHANGED <<seat, readyState, paused, watch, quiet>>

-----------------------------------------------------------------------------
\* releaseSource: the watch ends and whoever is the source now is read again.
SlipReleaseSource(target) ==
  /\ backlogTimer' = [backlogTimer EXCEPT ![target] = FALSE]
  /\ behindLow' = [behindLow EXCEPT ![target] = 0]
  /\ stalled' = [stalled EXCEPT ![target] = 0]
  /\ paused' = [x \in Sockets |-> paused[x] /\ ~(x = SourceFor(target) /\ IsOpen(target))]

ReleaseSource(target) ==
  /\ backlogTimer' = [backlogTimer EXCEPT ![target] = FALSE]
  /\ behindLow' = [behindLow EXCEPT ![target] = 0]
  /\ stalled' = [stalled EXCEPT ![target] = 0]
  /\ paused' = [x \in Sockets |-> paused[x] /\ x # SourceFor(target)]

\* watchBacklog: drained or closed; lower than ever; or stuck, for long enough or
\* not yet.
Drained(t) == ~IsOpen(t) \/ buffered[t] <= LowWater
Lower(t) == buffered[t] < behindLow[t]

PollReleases(t) ==
  /\ Drained(t)
  /\ ReleaseSource(t)
  /\ UNCHANGED readyState

PollSeesProgress(t) ==
  /\ ~Drained(t)
  /\ Lower(t)
  /\ behindLow' = [behindLow EXCEPT ![t] = buffered[t]]
  /\ stalled' = [stalled EXCEPT ![t] = 0]
  /\ UNCHANGED <<readyState, paused, backlogTimer>>

PollWaits(t) ==
  /\ ~Drained(t) /\ ~Lower(t)
  /\ stalled[t] + 1 < StallPolls
  /\ stalled' = [stalled EXCEPT ![t] = @ + 1]
  /\ UNCHANGED <<readyState, paused, backlogTimer, behindLow>>

SlipPollCutsOff(t) == ~Drained(t) /\ ~Lower(t) /\ UNCHANGED <<readyState, paused, watch>>

PollCutsOff(t) ==
  /\ ~Drained(t) /\ ~Lower(t)
  /\ stalled[t] + 1 >= StallPolls
  /\ readyState' = [readyState EXCEPT ![t] = "closing"]
  /\ ReleaseSource(t)

WatchBacklog(t) ==
  /\ backlogTimer[t]
  /\ PollReleases(t) \/ PollSeesProgress(t) \/ PollWaits(t) \/ PollCutsOff(t)
  /\ UNCHANGED <<seat, buffered, quiet>>

-----------------------------------------------------------------------------
\* The peer goes (its close is read, or writing to it fails); the close event
\* vacates its seat and frees what it had queued.  A watch on it goes on until its
\* next poll.
PeerCloses(x) ==
  /\ readyState[x] = "open"
  /\ readyState' = [readyState EXCEPT ![x] = "closing"]
  /\ UNCHANGED <<seat, paused, buffered, watch, quiet>>

CloseEvent(x) ==
  /\ readyState[x] = "closing"
  /\ readyState' = [readyState EXCEPT ![x] = "closed"]
  /\ seat' = [seat EXCEPT ![Side(x)] = IF @ = x THEN None ELSE @]
  /\ buffered' = [buffered EXCEPT ![x] = 0]
  /\ paused' = [paused EXCEPT ![x] = FALSE]
  /\ UNCHANGED <<watch, quiet>>

\* The heartbeat of an open CLI: a ping, or the end of its patience.
HeartbeatPings ==
  /\ IsOpen(seat["cli"])
  /\ quiet < HeartbeatGrace
  /\ quiet' = quiet + 1
  /\ UNCHANGED <<seat, readyState, paused, buffered, watch>>

HeartbeatCutsOff ==
  /\ IsOpen(seat["cli"])
  /\ quiet = HeartbeatGrace
  /\ readyState' = [readyState EXCEPT ![seat["cli"]] = "closing"]
  /\ UNCHANGED <<seat, paused, buffered, watch, quiet>>

\* A pong reaches the relay only while it reads the CLI's socket.
Pong(x) ==
  /\ Side(x) = "cli"
  /\ Reads(x)
  /\ quiet > 0
  /\ quiet' = 0
  /\ UNCHANGED <<seat, readyState, paused, buffered, watch>>

Next ==
  \/ HeartbeatPings \/ HeartbeatCutsOff
  \/ \E x \in Sockets : \/ Arrive(x) \/ Forward(x) \/ Drain(x) \/ WatchBacklog(x)
                        \/ PeerCloses(x) \/ CloseEvent(x) \/ Pong(x)

\* The poll runs while it is armed, and a closing socket reports it.
Fairness == \A x \in Sockets : WF_vars(WatchBacklog(x)) /\ WF_vars(CloseEvent(x))

SafeSpec == Init /\ [][Next]_vars
Spec == SafeSpec /\ Fairness

-----------------------------------------------------------------------------
\* A seated peer the relay has stopped reading is going to be read again: some
\* peer across from it is still watched, and the end of that watch is what
\* resumes it, whoever was replaced or dropped meanwhile (server.js:286, 331).
PausedIsWatched ==
  \A side \in Sides :
    seat[side] # None /\ paused[seat[side]] =>
      \E t \in Sockets : backlogTimer[t] /\ Side(t) = Opposite(side)

\* Until a connection is replaced by another of its kind, what waits for a peer stops
\* within a chunk of the high-water mark: "cross it and the relay stops reading from the
\* other side of the session" (server.js:69).  (A replaced peer is not paused with its
\* successor, and what it had sent is still read.)
BacklogIsCapped ==
  (\A x, y \in Sockets : Side(x) = Side(y) /\ x # y => "new" \in {readyState[x], readyState[y]})
    => \A t \in Sockets : buffered[t] <= HighWater + 1

\* No peer is kept from being read forever: the one it waits for drains, or is
\* dropped (server.js:308).
ThrottleEnds ==
  \A x \in Sockets : []<>(~paused[x] \/ seat[Side(x)] # x)

\* What its liveness rests on: nothing but its end prolongs a watch, and each poll shortens
\* it, in progress seen or in patience lost (server.js:299-328).
PollsLeft(t) == behindLow[t] * StallPolls + StallPolls - stalled[t]
WatchRunsOut ==
  [][\A t \in Sockets : backlogTimer[t] /\ backlogTimer'[t] =>
       /\ 0 < PollsLeft(t)' /\ PollsLeft(t)' <= PollsLeft(t)
       /\ WatchBacklog(t) => PollsLeft(t)' < PollsLeft(t)]_vars

\* "Slow is forgiven indefinitely; absent is not" (README.md:352): the heartbeat
\* does not cut off a CLI whose pongs the relay itself has stopped reading.
SlowIsForgiven == [][HeartbeatCutsOff => ~paused[seat["cli"]]]_vars

\* "Backlog a peer may carry before it is watched for a stall; eight times this
\* is dropped on sight" (README.md:65).
DroppedOnSight ==
  \A t \in Sockets : buffered[t] > 8 * HighWater => ~IsOpen(t)
=============================================================================
