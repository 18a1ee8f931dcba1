-------------------------- MODULE BackpressureProofs --------------------------
(***************************************************************************)
(* Theorems about Backpressure, for any sockets, marks and patience.  The  *)
(* first invariant, WatchInv, says that whoever is paused is watched from  *)
(* across; the second, CapInv, that as long as nobody has been replaced a  *)
(* backlog above the mark is watched and its source paused.  The last part *)
(* is why a watch, and with it a pause, does not go on for ever.           *)
(***************************************************************************)
EXTENDS Backpressure, TLAPS

USE SocketAssumption, WaterAssumption, TimeAssumption
    DEF SocketAssumption, WaterAssumption, TimeAssumption

\* What is new is not yet paused, and a seat holds a socket of its side that arrived.
SeatInv ==
  /\ \A x \in Sockets : paused[x] => readyState[x] # "new"
  /\ \A side \in Sides : seat[side] # None =>
       /\ Side(seat[side]) = side
       /\ readyState[seat[side]] # "new"

WatchInv == TypeOK /\ SeatInv /\ PausedIsWatched

-----------------------------------------------------------------------------
(* Sides and queues *)

LEMMA SideTypes ==
  /\ \A x : Side(x) \in Sides /\ Opposite(Side(x)) \in Sides
  /\ \A side \in Sides : Opposite(side) \in Sides /\ Opposite(Opposite(side)) = side
                         /\ Opposite(side) # side
BY DEF Side, Sides, Opposite

WatchTyped ==
  /\ paused \in [Sockets -> BOOLEAN]
  /\ backlogTimer \in [Sockets -> BOOLEAN]
  /\ behindLow \in [Sockets -> 0 .. Ceiling]
  /\ stalled \in [Sockets -> 0 .. StallPolls]

\* A watch begun, and one ended, keep their types.
LEMMA WatchBegunTyped ==
  ASSUME WatchTyped
  PROVE  \A t \in Sockets, level \in 0 .. Ceiling : ThrottleSource(t, level) => WatchTyped'
<1> TAKE t \in Sockets, level \in 0 .. Ceiling
<1>1. ASSUME ThrottleSource(t, level), MustThrottle(t, level) PROVE WatchTyped'
  <2>1. /\ paused' = [paused EXCEPT ![SourceFor(t)] = TRUE]
        /\ backlogTimer' = [backlogTimer EXCEPT ![t] = TRUE]
        /\ behindLow' = [behindLow EXCEPT ![t] = level]
        /\ stalled' = [stalled EXCEPT ![t] = 0]
    BY <1>1 DEF ThrottleSource
  <2>2. paused' \in [Sockets -> BOOLEAN]
    BY <2>1 DEF WatchTyped
  <2>3. backlogTimer' \in [Sockets -> BOOLEAN]
    BY <2>1 DEF WatchTyped
  <2>4. behindLow' \in [Sockets -> 0 .. Ceiling]
    BY <2>1 DEF WatchTyped
  <2>5. stalled' \in [Sockets -> 0 .. StallPolls]
    BY <2>1 DEF WatchTyped
  <2> QED BY <2>2, <2>3, <2>4, <2>5 DEF WatchTyped
<1>2. ASSUME ThrottleSource(t, level), ~MustThrottle(t, level) PROVE WatchTyped'
  BY <1>2 DEF WatchTyped, ThrottleSource, watch
<1> QED BY <1>1, <1>2

LEMMA WatchEndedTyped ==
  ASSUME WatchTyped
  PROVE  \A t \in Sockets : ReleaseSource(t) => WatchTyped'
BY DEF WatchTyped, ReleaseSource

-----------------------------------------------------------------------------
LEMMA InitWatch == Init => WatchInv
<1> SUFFICES ASSUME Init PROVE WatchInv
  OBVIOUS
<1>1. TypeOK
  BY DEF Init, TypeOK
<1>2. SeatInv /\ PausedIsWatched
  BY DEF Init, SeatInv, PausedIsWatched
<1> QED BY <1>1, <1>2 DEF WatchInv

LEMMA TypeStep == TypeOK /\ [Next]_vars => TypeOK'
<1> SUFFICES ASSUME TypeOK, [Next]_vars PROVE TypeOK'
  OBVIOUS
<1>1. CASE UNCHANGED vars
  BY <1>1 DEF TypeOK, vars
<1>2. CASE HeartbeatPings
  BY <1>2 DEF TypeOK, HeartbeatPings, watch
<1>3. CASE HeartbeatCutsOff
  BY <1>3 DEF TypeOK, HeartbeatCutsOff, watch
<1>4. ASSUME NEW x \in Sockets, Arrive(x) PROVE TypeOK'
  BY <1>4, SideTypes DEF TypeOK, Arrive, watch
<1>5. ASSUME NEW x \in Sockets, Forward(x) PROVE TypeOK'
  <2> DEFINE t == seat[Opposite(Side(x))]
  <2>1. t \in Sockets /\ buffered[t] + 1 \in 0 .. Ceiling
    BY <1>5, SideTypes DEF TypeOK, Forward, IsOpen
  <2>2. WatchTyped'
    BY <1>5, <2>1, WatchBegunTyped DEF TypeOK, Forward, WatchTyped
  <2> QED BY <1>5, <2>1, <2>2 DEF TypeOK, Forward, WatchTyped
<1>6. ASSUME NEW x \in Sockets, Drain(x) PROVE TypeOK'
  BY <1>6 DEF TypeOK, Drain, watch
<1>7. ASSUME NEW x \in Sockets, WatchBacklog(x) PROVE TypeOK'
  <2>1. CASE PollReleases(x)
    <3>1. WatchTyped'
      BY <2>1, WatchEndedTyped DEF TypeOK, PollReleases, WatchTyped
    <3> QED BY <1>7, <2>1, <3>1 DEF TypeOK, WatchBacklog, PollReleases, WatchTyped
  <2>2. CASE PollSeesProgress(x)
    BY <1>7, <2>2 DEF TypeOK, WatchBacklog, PollSeesProgress
  <2>3. CASE PollWaits(x)
    BY <1>7, <2>3 DEF TypeOK, WatchBacklog, PollWaits
  <2>4. CASE PollCutsOff(x)
    <3>1. WatchTyped'
      BY <2>4, WatchEndedTyped DEF TypeOK, PollCutsOff, WatchTyped
    <3> QED BY <1>7, <2>4, <3>1 DEF TypeOK, WatchBacklog, PollCutsOff, WatchTyped
  <2> QED BY <1>7, <2>1, <2>2, <2>3, <2>4 DEF WatchBacklog
<1>8. ASSUME NEW x \in Sockets, PeerCloses(x) PROVE TypeOK'
  BY <1>8 DEF TypeOK, PeerCloses, watch
<1>9. ASSUME NEW x \in Sockets, CloseEvent(x) PROVE TypeOK'
  BY <1>9, SideTypes DEF TypeOK, CloseEvent, watch
<1>10. ASSUME NEW x \in Sockets, Pong(x) PROVE TypeOK'
  BY <1>10 DEF TypeOK, Pong, watch
<1> QED BY <1>1, <1>2, <1>3, <1>4, <1>5, <1>6, <1>7, <1>8, <1>9, <1>10 DEF Next

\* A socket that has arrived never becomes new again.
LEMMA NeverNewAgain ==
  ASSUME TypeOK, [Next]_vars, NEW y \in Sockets, readyState[y] # "new"
  PROVE  readyState'[y] # "new"
BY DEF TypeOK, Next, vars, Arrive, Forward, Drain, WatchBacklog, PollReleases,
       PollSeesProgress, PollWaits, PollCutsOff, PeerCloses, CloseEvent, Pong,
       HeartbeatPings, HeartbeatCutsOff

LEMMA SeatStep == TypeOK /\ SeatInv /\ [Next]_vars => SeatInv'
<1> SUFFICES ASSUME TypeOK, SeatInv, [Next]_vars PROVE SeatInv'
  OBVIOUS
<1>1. \A y \in Sockets : readyState[y] # "new" => readyState'[y] # "new"
  BY NeverNewAgain
<1>2. CASE UNCHANGED <<seat, paused>>
  BY <1>1, <1>2 DEF SeatInv, TypeOK
<1>3. ASSUME NEW x \in Sockets, Arrive(x) PROVE SeatInv'
  BY <1>1, <1>3, SideTypes DEF SeatInv, TypeOK, Arrive
<1>4. ASSUME NEW x \in Sockets, Forward(x) PROVE SeatInv'
  BY <1>1, <1>4, SideTypes DEF SeatInv, TypeOK, Forward, ThrottleSource, MustThrottle,
     SourceFor, IsOpen, watch
<1>5. ASSUME NEW x \in Sockets, WatchBacklog(x) PROVE SeatInv'
  BY <1>1, <1>5 DEF SeatInv, TypeOK, WatchBacklog, PollReleases, PollSeesProgress,
     PollWaits, PollCutsOff, ReleaseSource
<1>6. ASSUME NEW x \in Sockets, CloseEvent(x) PROVE SeatInv'
  BY <1>1, <1>6, SideTypes DEF SeatInv, TypeOK, CloseEvent
<1> QED BY <1>2, <1>3, <1>4, <1>5, <1>6 DEF Next, vars, HeartbeatPings,
           HeartbeatCutsOff, Drain, PeerCloses, Pong

LEMMA PausedStep == WatchInv /\ [Next]_vars => PausedIsWatched'
<1> SUFFICES ASSUME WatchInv, [Next]_vars,
                    NEW side \in Sides, seat'[side] # None, paused'[seat'[side]]
             PROVE  \E t \in Sockets : backlogTimer'[t] /\ Side(t) = Opposite(side)
  BY DEF PausedIsWatched
<1> USE DEF WatchInv, TypeOK, SeatInv
<1>1. CASE UNCHANGED <<seat, paused, backlogTimer>>
  BY <1>1 DEF PausedIsWatched
<1>2. ASSUME NEW x \in Sockets, Arrive(x)
      PROVE  \E t \in Sockets : backlogTimer'[t] /\ Side(t) = Opposite(side)
  BY <1>2, SideTypes DEF PausedIsWatched, Arrive, watch
<1>3. ASSUME NEW x \in Sockets, Forward(x)
      PROVE  \E t \in Sockets : backlogTimer'[t] /\ Side(t) = Opposite(side)
  <2> DEFINE target == seat[Opposite(Side(x))]
  <2>1. target \in Sockets /\ Side(target) = Opposite(Side(x)) /\ UNCHANGED seat
    BY <1>3, SideTypes DEF Forward, IsOpen
  <2>2. CASE side = Side(x) /\ MustThrottle(target, buffered[target] + 1)
    BY <1>3, <2>1, <2>2, SideTypes DEF Forward, ThrottleSource
  <2>3. CASE side # Side(x) \/ ~MustThrottle(target, buffered[target] + 1)
    <3>1. paused[seat[side]] /\ \A t \in Sockets : backlogTimer[t] => backlogTimer'[t]
      BY <1>3, <2>1, <2>3, SideTypes DEF Forward, ThrottleSource, SourceFor, watch, Sides
    <3> QED BY <2>1, <3>1 DEF PausedIsWatched
  <2> QED BY <2>2, <2>3
<1>4. ASSUME NEW x \in Sockets, WatchBacklog(x)
      PROVE  \E t \in Sockets : backlogTimer'[t] /\ Side(t) = Opposite(side)
  <2>1. CASE ReleaseSource(x)
    <3>1. seat'[side] = seat[side] /\ paused[seat[side]] /\ seat[side] # SourceFor(x)
      BY <1>4, <2>1 DEF WatchBacklog, ReleaseSource
    <3>2. PICK t \in Sockets : backlogTimer[t] /\ Side(t) = Opposite(side)
      BY <1>4, <3>1 DEF PausedIsWatched, WatchBacklog
    <3>3. t # x
      BY <3>1, <3>2, SideTypes DEF SourceFor
    <3> QED BY <2>1, <3>2, <3>3 DEF ReleaseSource
  <2>2. CASE UNCHANGED <<paused, backlogTimer>>
    BY <1>4, <2>2 DEF PausedIsWatched, WatchBacklog
  <2> QED BY <1>4, <2>1, <2>2 DEF WatchBacklog, PollReleases, PollSeesProgress, PollWaits,
             PollCutsOff
<1>5. ASSUME NEW x \in Sockets, CloseEvent(x)
      PROVE  \E t \in Sockets : backlogTimer'[t] /\ Side(t) = Opposite(side)
  BY <1>5, SideTypes DEF PausedIsWatched, CloseEvent, watch
<1> QED BY <1>1, <1>2, <1>3, <1>4, <1>5 DEF Next, vars, watch, HeartbeatPings,
           HeartbeatCutsOff, Drain, PeerCloses, Pong

LEMMA WatchStep == WatchInv /\ [Next]_vars => WatchInv'
BY TypeStep, SeatStep, PausedStep DEF WatchInv

LEMMA WatchHolds == SafeSpec => []WatchInv
BY InitWatch, WatchStep, PTL DEF SafeSpec

\* The variables keep their types; no backlog passes Ceiling, and no stall its patience.
THEOREM TypeSafety == SafeSpec => []TypeOK
<1>1. WatchInv => TypeOK
  BY DEF WatchInv
<1> QED BY <1>1, WatchHolds, PTL

\* A seated peer that is not read is watched from across, and so will be read again,
\* whoever was replaced or dropped meanwhile (server.js:286, 331).
THEOREM PausedIsAlwaysWatched == SafeSpec => []PausedIsWatched
<1>1. WatchInv => PausedIsWatched
  BY DEF WatchInv
<1> QED BY <1>1, WatchHolds, PTL

-----------------------------------------------------------------------------
(* The cap *)

OnePeerASide ==
  \A x, y \in Sockets : Side(x) = Side(y) /\ x # y => "new" \in {readyState[x], readyState[y]}

\* A watch has begun for a socket that arrived, on the output of another that had.
WatchedArrived ==
  \A t \in Sockets : backlogTimer[t] =>
    /\ readyState[t] # "new"
    /\ \E x \in Sockets : Side(x) = Opposite(Side(t)) /\ readyState[x] # "new"

\* While nobody has been replaced: who can be read is seated, a watched peer's source
\* is paused, a backlog above the mark is watched, and goes no higher.
Unreplaced ==
  /\ \A x \in Sockets : readyState[x] \in {"open", "closing"} => seat[Side(x)] = x
  /\ \A t, x \in Sockets :
       backlogTimer[t] /\ Side(x) = Opposite(Side(t)) /\ readyState[x] \in {"open", "closing"}
         => paused[x]
  /\ \A t \in Sockets : IsOpen(t) /\ buffered[t] > HighWater => backlogTimer[t]
  /\ \A t \in Sockets : readyState[t] = "new" => buffered[t] = 0
  /\ \A t \in Sockets : buffered[t] <= HighWater + 1

CapInv == WatchInv /\ WatchedArrived /\ (OnePeerASide => Unreplaced)

LEMMA InitCap == Init => CapInv
<1> SUFFICES ASSUME Init PROVE WatchedArrived /\ Unreplaced
  BY InitWatch DEF CapInv
<1> QED BY DEF Init, WatchedArrived, Unreplaced, IsOpen

\* Once a peer has been replaced it always has.
LEMMA ReplacedForGood == TypeOK /\ [Next]_vars /\ OnePeerASide' => OnePeerASide
BY NeverNewAgain DEF OnePeerASide

LEMMA ArrivedStep == TypeOK /\ SeatInv /\ WatchedArrived /\ [Next]_vars => WatchedArrived'
<1> SUFFICES ASSUME TypeOK, SeatInv, WatchedArrived, [Next]_vars PROVE WatchedArrived'
  OBVIOUS
<1>1. \A y \in Sockets : readyState[y] # "new" => readyState'[y] # "new"
  BY NeverNewAgain
<1>2. CASE \A t \in Sockets : backlogTimer'[t] => backlogTimer[t]
  BY <1>1, <1>2 DEF WatchedArrived
<1>3. ASSUME NEW x \in Sockets, Forward(x) PROVE WatchedArrived'
  <2> DEFINE target == seat[Opposite(Side(x))]
  <2>1. /\ target \in Sockets /\ readyState[target] # "new" /\ readyState[x] # "new"
        /\ Side(x) = Opposite(Side(target))
    BY <1>3, SideTypes DEF Forward, IsOpen, Reads, SeatInv
  <2>2. \A t \in Sockets : backlogTimer'[t] => backlogTimer[t] \/ t = target
    BY <1>3, <2>1 DEF Forward, ThrottleSource, watch, TypeOK
  <2> QED BY <1>1, <2>1, <2>2 DEF WatchedArrived
<1>4. ASSUME NEW x \in Sockets, WatchBacklog(x)
      PROVE  \A t \in Sockets : backlogTimer'[t] => backlogTimer[t]
  BY <1>4 DEF TypeOK, WatchBacklog, PollReleases, PollSeesProgress, PollWaits, PollCutsOff,
     ReleaseSource
<1> QED BY <1>2, <1>3, <1>4 DEF Next, vars, watch, HeartbeatPings, HeartbeatCutsOff,
           Arrive, Drain, PeerCloses, CloseEvent, Pong

LEMMA UnreplacedStep == CapInv /\ [Next]_vars /\ OnePeerASide' => Unreplaced'
<1> SUFFICES ASSUME CapInv, [Next]_vars, OnePeerASide' PROVE Unreplaced'
  OBVIOUS
<1>1. WatchInv /\ WatchInv' /\ OnePeerASide /\ Unreplaced
  BY WatchStep, ReplacedForGood DEF CapInv, WatchInv
<1>2. \A x, y \in Sockets :
        readyState[x] # "new" /\ readyState[y] # "new" /\ Side(x) = Side(y) => x = y
  BY <1>1 DEF OnePeerASide
<1> USE DEF WatchInv, TypeOK, Unreplaced, IsOpen
<1>3. CASE UNCHANGED vars
  BY <1>1, <1>3 DEF vars
<1>4. CASE HeartbeatPings
  BY <1>1, <1>4 DEF HeartbeatPings, watch
<1>5. CASE HeartbeatCutsOff
  BY <1>1, <1>5 DEF HeartbeatCutsOff, watch
<1>6. ASSUME NEW x \in Sockets, Arrive(x) PROVE Unreplaced'
  <2>1. \A y \in Sockets : Side(y) = Side(x) => y = x \/ readyState[y] = "new"
    <3> SUFFICES ASSUME NEW y \in Sockets, Side(y) = Side(x), y # x, readyState[y] # "new"
                 PROVE  FALSE
      OBVIOUS
    <3>1. readyState'[x] # "new" /\ readyState'[y] # "new"
      BY <1>1, <1>6, NeverNewAgain DEF Arrive
    <3> QED BY <3>1 DEF OnePeerASide
  <2>2. readyState' = [readyState EXCEPT ![x] = "open"]
    <3>1. \A y \in Sockets : y # x => y # seat[Side(x)]
      BY <1>1, <1>6, <2>1, SideTypes DEF Arrive, SeatInv
    <3> QED BY <1>1, <1>6, <3>1 DEF Arrive
  <2>3. \A t \in Sockets : backlogTimer[t] => Side(x) # Opposite(Side(t)) /\ t # x
    BY <1>6, <2>1 DEF CapInv, WatchedArrived, Arrive
  <2> QED BY <1>1, <1>6, <2>1, <2>2, <2>3, SideTypes DEF Arrive, watch
<1>7. ASSUME NEW x \in Sockets, Forward(x) PROVE Unreplaced'
  <2> DEFINE target == seat[Opposite(Side(x))]
  <2>1. /\ target \in Sockets /\ Side(target) = Opposite(Side(x))
        /\ readyState[target] = "open"
        /\ SourceFor(target) = x /\ readyState[x] \in {"open", "closing"} /\ ~paused[x]
        /\ buffered' = [buffered EXCEPT ![target] = @ + 1]
        /\ UNCHANGED <<seat, readyState>>
    BY <1>1, <1>7, SideTypes DEF Forward, Reads, SourceFor, SeatInv
  <2>2. ~backlogTimer[target] /\ buffered[target] <= HighWater
    BY <1>1, <2>1, SideTypes
  <2>3. CASE MustThrottle(target, buffered[target] + 1)
    <3>1. /\ paused' = [paused EXCEPT ![x] = TRUE]
          /\ backlogTimer' = [backlogTimer EXCEPT ![target] = TRUE]
      BY <1>7, <2>1, <2>3 DEF Forward, ThrottleSource
    <3>2. \A y \in Sockets : Side(y) = Opposite(Side(target)) /\ readyState[y] # "new" => y = x
      BY <1>2, <2>1, SideTypes
    <3> QED BY <1>1, <2>1, <2>2, <3>1, <3>2
  <2>4. CASE ~MustThrottle(target, buffered[target] + 1)
    <3>1. UNCHANGED <<paused, backlogTimer>>
      BY <1>7, <2>4 DEF Forward, ThrottleSource, watch
    <3>2. buffered[target] + 1 <= HighWater
      BY <2>1, <2>2, <2>4, <1>1 DEF MustThrottle
    <3> QED BY <1>1, <2>1, <3>1, <3>2
  <2> QED BY <2>3, <2>4
<1>8. ASSUME NEW x \in Sockets, Drain(x) PROVE Unreplaced'
  BY <1>1, <1>8 DEF Drain, watch
<1>9. ASSUME NEW x \in Sockets, WatchBacklog(x) PROVE Unreplaced'
  <2>1. CASE PollReleases(x) \/ PollCutsOff(x)
    <3>1. /\ backlogTimer' = [backlogTimer EXCEPT ![x] = FALSE]
          /\ paused' = [y \in Sockets |-> paused[y] /\ y # SourceFor(x)]
          /\ UNCHANGED <<seat, buffered>>
      BY <1>9, <2>1 DEF WatchBacklog, PollReleases, PollCutsOff, ReleaseSource
    <3>2. \A y \in Sockets :
            /\ readyState'[y] = "open" => readyState[y] = "open"
            /\ readyState'[y] = "new" => readyState[y] = "new"
            /\ readyState'[y] = "closing" => readyState[y] \in {"open", "closing"}
      <4>1. CASE PollReleases(x)
        BY <4>1 DEF PollReleases
      <4>2. CASE PollCutsOff(x)
        BY <1>1, <4>2 DEF PollCutsOff, Drained
      <4> QED BY <2>1, <4>1, <4>2
    <3>3. readyState'[x] = "open" => buffered[x] <= HighWater
      BY <1>1, <2>1 DEF PollReleases, PollCutsOff, Drained, LowWater
    <3>4. \A t, y \in Sockets :
            backlogTimer'[t] /\ Side(y) = Opposite(Side(t))
            /\ readyState[y] \in {"open", "closing"} => y # SourceFor(x)
      <4> SUFFICES ASSUME NEW t \in Sockets, backlogTimer'[t], NEW y \in Sockets,
                          Side(y) = Opposite(Side(t)), y = SourceFor(x)
                   PROVE  FALSE
        OBVIOUS
      <4>1. t # x /\ backlogTimer[t]
        BY <1>1, <3>1
      <4>2. readyState[t] # "new" /\ readyState[x] # "new"
        BY <1>9, <4>1 DEF CapInv, WatchedArrived, WatchBacklog
      <4>3. Side(y) = Opposite(Side(x))
        BY <1>1, SideTypes DEF SeatInv, SourceFor
      <4> QED BY <1>2, <4>1, <4>2, <4>3, SideTypes
    <3> QED BY <1>1, <3>1, <3>2, <3>3, <3>4
  <2>2. CASE PollSeesProgress(x)
    BY <1>1, <1>9, <2>2 DEF WatchBacklog, PollSeesProgress
  <2>3. CASE PollWaits(x)
    BY <1>1, <1>9, <2>3 DEF WatchBacklog, PollWaits
  <2> QED BY <1>9, <2>1, <2>2, <2>3 DEF WatchBacklog
<1>10. ASSUME NEW x \in Sockets, PeerCloses(x) PROVE Unreplaced'
  BY <1>1, <1>10 DEF PeerCloses, watch
<1>11. ASSUME NEW x \in Sockets, CloseEvent(x) PROVE Unreplaced'
  BY <1>1, <1>2, <1>11, SideTypes DEF CloseEvent, watch
<1>12. ASSUME NEW x \in Sockets, Pong(x) PROVE Unreplaced'
  BY <1>1, <1>12 DEF Pong, watch
<1> QED BY <1>3, <1>4, <1>5, <1>6, <1>7, <1>8, <1>9, <1>10, <1>11, <1>12 DEF Next

\* Until a connection is replaced by another of its kind, no backlog passes the mark by
\* more than the chunk that crossed it: from there on the source is not read
\* (server.js:69, 286).
THEOREM BacklogIsAlwaysCapped == SafeSpec => []BacklogIsCapped
<1>1. CapInv /\ [Next]_vars => CapInv'
  BY WatchStep, ArrivedStep, UnreplacedStep DEF CapInv, WatchInv
<1>2. CapInv => BacklogIsCapped
  BY DEF CapInv, Unreplaced, OnePeerASide, BacklogIsCapped
<1> QED BY <1>1, <1>2, InitCap, PTL DEF SafeSpec

-----------------------------------------------------------------------------
(* How long a watch lasts *)

Patient == \A t \in Sockets : stalled[t] < StallPolls

LEMMA PatientStep == TypeOK /\ Patient /\ [Next]_vars => Patient'
<1> SUFFICES ASSUME TypeOK, Patient, [Next]_vars, NEW t \in Sockets
             PROVE  stalled'[t] < StallPolls
  BY DEF Patient
<1>1. stalled[t] < StallPolls /\ 0 < StallPolls
  BY DEF Patient
<1>2. ASSUME NEW x \in Sockets, Forward(x) PROVE stalled'[t] < StallPolls
  BY <1>1, <1>2 DEF Forward, ThrottleSource, watch, TypeOK
<1>3. ASSUME NEW x \in Sockets, WatchBacklog(x) PROVE stalled'[t] < StallPolls
  BY <1>1, <1>3 DEF WatchBacklog, PollReleases, PollSeesProgress, PollWaits, PollCutsOff,
                    ReleaseSource, TypeOK
<1>4. CASE UNCHANGED stalled
  BY <1>1, <1>4
<1> QED BY <1>2, <1>3, <1>4 DEF Next, vars, watch, HeartbeatPings, HeartbeatCutsOff, Arrive,
                                Drain, PeerCloses, CloseEvent, Pong

\* A lower mark is worth more than the patience it restores.
LEMMA LowerIsLess ==
  ASSUME NEW low \in Nat, NEW lower \in Nat, lower < low
  PROVE  lower * StallPolls + StallPolls <= low * StallPolls
<1>1. StallPolls \in Nat
  OBVIOUS
<1>2. \E k \in Nat : low = (lower + 1) + k
  <2>1. low - (lower + 1) \in Nat
    OBVIOUS
  <2> QED BY <2>1
<1>3. PICK k \in Nat : low = (lower + 1) + k
  BY <1>2
<1>4. low * StallPolls = (lower * StallPolls + StallPolls) + k * StallPolls
  BY <1>1, <1>3
<1>5. k * StallPolls \in Nat /\ lower * StallPolls \in Nat /\ low * StallPolls \in Nat
  BY <1>1
<1> QED BY <1>1, <1>4, <1>5

\* The watch of t goes on; whatever else the step does, it is not made longer.
LEMMA WatchStepIs ==
  ASSUME TypeOK, [Next]_vars, NEW t \in Sockets, backlogTimer[t], backlogTimer'[t]
  PROVE  \/ UNCHANGED <<behindLow[t], stalled[t]>> /\ ~WatchBacklog(t)
         \/ behindLow'[t] \in Nat /\ behindLow'[t] < behindLow[t] /\ stalled'[t] = 0
         \/ behindLow'[t] = behindLow[t] /\ stalled'[t] = stalled[t] + 1
<1>1. CASE WatchBacklog(t)
  <2>1. ~PollReleases(t) /\ ~PollCutsOff(t)
    BY DEF PollReleases, PollCutsOff, ReleaseSource, TypeOK
  <2>2. CASE PollSeesProgress(t)
    BY <2>2 DEF PollSeesProgress, Lower, TypeOK
  <2>3. CASE PollWaits(t)
    BY <2>3 DEF PollWaits, TypeOK
  <2> QED BY <1>1, <2>1, <2>2, <2>3 DEF WatchBacklog
<1>2. CASE ~WatchBacklog(t)
  <2>1. ASSUME NEW x \in Sockets, Forward(x) PROVE UNCHANGED <<behindLow[t], stalled[t]>>
    BY <2>1 DEF Forward, ThrottleSource, MustThrottle, watch, TypeOK
  <2>2. ASSUME NEW x \in Sockets, x # t, WatchBacklog(x)
        PROVE  UNCHANGED <<behindLow[t], stalled[t]>>
    BY <2>2 DEF WatchBacklog, PollReleases, PollSeesProgress, PollWaits, PollCutsOff,
                ReleaseSource, TypeOK
  <2>3. CASE UNCHANGED watch
    BY <1>2, <2>3 DEF watch
  <2> QED BY <1>2, <2>1, <2>2, <2>3 DEF Next, vars, watch, HeartbeatPings, HeartbeatCutsOff,
                                       Arrive, Drain, PeerCloses, CloseEvent, Pong
<1> QED BY <1>1, <1>2

LEMMA WatchShortens ==
  ASSUME TypeOK, TypeOK', Patient, Patient', [Next]_vars,
         NEW t \in Sockets, backlogTimer[t], backlogTimer'[t]
  PROVE  /\ 0 < PollsLeft(t)' /\ PollsLeft(t)' <= PollsLeft(t)
         /\ WatchBacklog(t) => PollsLeft(t)' < PollsLeft(t)
<1> DEFINE low == behindLow[t]
           lower == behindLow'[t]
<1>1. /\ StallPolls \in Nat
      /\ stalled[t] \in Nat /\ stalled'[t] \in Nat /\ stalled'[t] < StallPolls
      /\ stalled[t] < StallPolls
  BY DEF TypeOK, Patient
<1>2. low \in Nat /\ lower \in Nat
  BY DEF TypeOK
<1>3. low * StallPolls \in Nat /\ lower * StallPolls \in Nat
  BY <1>1, <1>2
<1>4. /\ PollsLeft(t) = low * StallPolls + StallPolls - stalled[t]
      /\ PollsLeft(t)' = lower * StallPolls + StallPolls - stalled'[t]
  BY DEF PollsLeft
<1>5. CASE UNCHANGED <<behindLow[t], stalled[t]>> /\ ~WatchBacklog(t)
  BY <1>1, <1>3, <1>4, <1>5
<1>6. CASE lower < low /\ stalled'[t] = 0
  <2>1. lower * StallPolls + StallPolls <= low * StallPolls
    BY <1>2, <1>6, LowerIsLess
  <2> HIDE DEF low, lower
  <2> QED BY <1>1, <1>3, <1>4, <1>6, <2>1
<1>7. CASE lower = low /\ stalled'[t] = stalled[t] + 1
  BY <1>1, <1>3, <1>4, <1>7
<1> QED BY <1>5, <1>6, <1>7, WatchStepIs

\* A watch that is not over has so many polls left, and every poll leaves it fewer; traffic,
\* heartbeats, arrivals and other watches do not give it more (server.js:299-328).
THEOREM WatchAlwaysRunsOut == SafeSpec => WatchRunsOut
<1> DEFINE P == TypeOK /\ Patient
<1>1. Init => P
  BY InitWatch DEF Init, Patient, WatchInv
<1>2. P /\ [Next]_vars => P'
  BY TypeStep, PatientStep
<1>3. P /\ P' /\ [Next]_vars =>
        [\A t \in Sockets : backlogTimer[t] /\ backlogTimer'[t] =>
           /\ 0 < PollsLeft(t)' /\ PollsLeft(t)' <= PollsLeft(t)
           /\ WatchBacklog(t) => PollsLeft(t)' < PollsLeft(t)]_vars
  BY WatchShortens
<1> QED BY <1>1, <1>2, <1>3, PTL DEF SafeSpec, WatchRunsOut
=============================================================================
