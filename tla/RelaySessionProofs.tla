------------------------- MODULE RelaySessionProofs -------------------------
(***************************************************************************)
(* Theorems about RelaySession, for any sessions, codes and sockets and    *)
(* any heartbeat grace.  The invariant is split by what it speaks of: the  *)
(* registry, the seats, the deadlines of an empty session, and the wire.   *)
(* What the invariant is for comes after it: the action properties, and    *)
(* that the relay implements the life of a session.                        *)
(***************************************************************************)
EXTENDS RelaySession, TLAPS

USE NoneAssumption, GraceAssumption DEF NoneAssumption, GraceAssumption

RegistryInv == RegistryConsistent /\ BornBeforeUse /\ PairingDeadline
SeatInv == /\ SocketsAreOwned /\ SeatsHoldTheirPeers /\ EveryOpenPeerIsSeated
           /\ ReapTimerMeansEmpty /\ SeatedCliIsWatched

-----------------------------------------------------------------------------
(* The wire *)

\* The frames that keep within a session when o tells whose each socket is.
Proper(o) ==
  {f \in Frame : f.type \in Forwarded => f.to # f.from /\ o[f.to] = o[f.from]}

\* A handler puts one batch of frames on the wire after another: two sequences
\* of frames of a set make one.
LEMMA Concatenation ==
  ASSUME NEW S, NEW a \in Seq(S), NEW b \in Seq(S)
  PROVE  a \o b \in Seq(S)
OBVIOUS

\* Proper frames are what the two invariants about the wire ask for.
LEMMA ProperWire ==
  ASSUME sent' \in Seq(Proper(owner'))
  PROVE  sent' \in Seq(Frame) /\ ForwardedWithinSession'
<1>1. Proper(owner') \subseteq Frame
  BY DEF Proper
<1>2. \A i \in DOMAIN sent' : sent'[i] \in Proper(owner')
  OBVIOUS
<1>3. sent' \in Seq(Frame)
  BY <1>1
<1>4. ForwardedWithinSession'
  BY <1>2 DEF ForwardedWithinSession, Proper
<1> QED BY <1>3, <1>4

\* A handler that sends nothing leaves proper frames only.
LEMMA NothingSent == ASSUME NEW o PROVE <<>> \in Seq(Proper(o))
OBVIOUS

\* sendJSON puts at most one frame on the wire.  The relay's own notices are
\* always proper; a forwarded message is when it goes to another peer of the
\* sender's session.
LEMMA NoticeIsProper ==
  ASSUME NEW o, NEW x \in Sockets \cup {None}, NEW isOpen,
         NEW type \in Notices, NEW from \in Sockets \cup {None}
  PROVE  /\ SendIf(x, isOpen, type, from) \in Seq(Proper(o))
         /\ Send(x, type, from) \in Seq(Proper(o))
<1>1. type \notin Forwarded
  BY DEF Notices, Forwarded
<1>2. ASSUME NEW b, x # None PROVE <<[to |-> x, type |-> type, from |-> from]>> \in Seq(Proper(o))
  <2>1. [to |-> x, type |-> type, from |-> from] \in Proper(o)
    BY <1>1, <1>2 DEF Proper, Frame
  <2> QED BY <2>1
<1>3. ASSUME NEW b PROVE SendIf(x, b, type, from) \in Seq(Proper(o))
  <2>1. CASE x # None /\ b
    BY <1>2, <2>1 DEF SendIf
  <2>2. CASE ~(x # None /\ b)
    BY <2>2, NothingSent DEF SendIf
  <2> QED BY <2>1, <2>2
<1> QED BY <1>3 DEF Send

\* So is a forwarded message, sent to another peer of the session.
LEMMA ForwardIsProper ==
  ASSUME NEW o, NEW x \in Sockets \cup {None}, NEW w \in Sockets, NEW type \in Forwarded,
         x # None => x # w /\ o[x] = o[w]
  PROVE  Send(x, type, w) \in Seq(Proper(o))
<1>1. CASE x # None /\ IsOpen(x)
  <2>1. [to |-> x, type |-> type, from |-> w] \in Proper(o)
    BY <1>1 DEF Proper, Frame
  <2> QED BY <1>1, <2>1 DEF Send, SendIf
<1>2. CASE ~(x # None /\ IsOpen(x))
  BY <1>2, NothingSent DEF Send, SendIf
<1> QED BY <1>1, <1>2

-----------------------------------------------------------------------------
(* The seats *)

\* The seats attachPeer leaves behind are peers or empty.
LEMMA SeatTypes ==
  ASSUME TypeOK, NEW s \in Sessions, NEW w \in Sockets, NEW r
  PROVE  /\ CliSeat(s, w, r) \in Sockets \cup {None}
         /\ MobileSeat(s, w, r) \in Sockets \cup {None}
BY DEF TypeOK, CliSeat, MobileSeat

\* What a peer and its counterpart are told on seating is proper.
LEMMA AttachFramesProper ==
  ASSUME TypeOK, NEW o, NEW s \in Sessions, NEW w \in Sockets, NEW r, NEW isOpen
  PROVE  AttachFrames(s, w, r, isOpen) \in Seq(Proper(o))
<1> DEFINE mobile == MobileSeat(s, w, r)
           cli == CliSeat(s, w, r)
<1>1. mobile \in Sockets \cup {None} /\ cli \in Sockets \cup {None}
  BY SeatTypes
<1>2. {"client_connected", "cli_reconnected", "session_info"} \subseteq Notices
  BY DEF Notices
<1> HIDE DEF mobile, cli
<1>3. SendIf(w, isOpen, "client_connected", None) \o Send(mobile, "cli_reconnected", None) \in Seq(Proper(o))
  BY <1>1, <1>2, NoticeIsProper, Concatenation
<1>4. SendIf(w, isOpen /\ s \in SizedSessions, "session_info", None) \in Seq(Proper(o))
  BY <1>2, NoticeIsProper
<1>5. Send(cli, "client_connected", None) \in Seq(Proper(o))
  BY <1>1, <1>2, NoticeIsProper
<1>6. (IF paired[s] THEN Send(cli, "client_connected", None) ELSE <<>>) \in Seq(Proper(o))
  BY <1>5, NothingSent
<1>7. SendIf(w, isOpen /\ s \in SizedSessions, "session_info", None)
      \o (IF paired[s] THEN Send(cli, "client_connected", None) ELSE <<>>) \in Seq(Proper(o))
  BY <1>4, <1>6, Concatenation
<1> QED BY <1>3, <1>7, NothingSent DEF AttachFrames, mobile, cli

\* And what they are told when a message moves a peer to the other seat.
LEMMA ClassifyFramesProper ==
  ASSUME TypeOK, NEW o, NEW w \in Sockets, owner[w] \in Sessions, NEW type
  PROVE  ClassifyFrames(w, type) \in Seq(Proper(o))
BY AttachFramesProper, NothingSent DEF ClassifyFrames

\* Seating peer w in session s keeps the seats in order, whether w has just
\* arrived or is being moved.  What else the handler does to the sockets is to
\* open w, or to leave it as it was, and to close whoever w replaces.
LEMMA AttachKeepsSeats ==
  ASSUME TypeOK, SeatInv,
         NEW s \in Sessions, NEW w \in Sockets, NEW r \in {"cli", "mobile"},
         AttachPeer(s, w, r),
         owner[w] \in {s, None},
         owner' = [owner EXCEPT ![w] = s],
         readyState' \in [Sockets -> {"new", "open", "closing", "closed"}],
         readyState'[w] \in {"open", "closing"},
         \A x \in Sockets \ {w} : readyState'[x] = Closing(Replaced(s, w, r))[x]
  PROVE  /\ SeatInv'
         /\ ~Empty(s)' /\ \A t \in Sessions \ {s} : Empty(t)' = Empty(t) /\ reapTimer'[t] = reapTimer[t]
<1> USE DEF TypeOK, SeatInv
<1>1. /\ cliWs'[s] = CliSeat(s, w, r) /\ mobileWs'[s] = MobileSeat(s, w, r)
      /\ \A t \in Sessions \ {s} : cliWs'[t] = cliWs[t] /\ mobileWs'[t] = mobileWs[t]
  BY DEF AttachPeer
<1>2. /\ role'[w] = r /\ owner'[w] = s
      /\ \A x \in Sockets \ {w} : role'[x] = role[x] /\ owner'[x] = owner[x]
  BY DEF AttachPeer
<1>3. /\ r = "cli" => cliWs'[s] = w /\ mobileWs'[s] \in {mobileWs[s], None} /\ mobileWs'[s] # w
      /\ r = "mobile" => mobileWs'[s] = w /\ cliWs'[s] \in {cliWs[s], None} /\ cliWs'[s] # w
  BY <1>1 DEF CliSeat, MobileSeat
<1>4. \A x \in Sockets \ {w} :
         /\ readyState[x] \in {"open", "closing"} <=> readyState'[x] \in {"open", "closing"}
         /\ readyState'[x] = "open" => readyState[x] = "open" /\ x \notin Replaced(s, w, r)
         /\ readyState'[x] = "new" => readyState[x] = "new"
  BY DEF Closing, IsOpen
<1>5. \A t \in Sessions \ {s} : cliWs[t] # w /\ mobileWs[t] # w
  BY DEF SeatsHoldTheirPeers
<1>6. SocketsAreOwned'
  BY <1>2, <1>4 DEF SocketsAreOwned
<1>7. SeatsHoldTheirPeers'
  <2> SUFFICES ASSUME NEW t \in Sessions
               PROVE  /\ cliWs'[t] # None => owner'[cliWs'[t]] = t /\ role'[cliWs'[t]] = "cli"
                                             /\ readyState'[cliWs'[t]] \in {"open", "closing"}
                      /\ mobileWs'[t] # None => owner'[mobileWs'[t]] = t /\ role'[mobileWs'[t]] = "mobile"
                                                /\ readyState'[mobileWs'[t]] \in {"open", "closing"}
    BY DEF SeatsHoldTheirPeers
  <2>1. CASE t # s
    BY <2>1, <1>1, <1>2, <1>4, <1>5 DEF SeatsHoldTheirPeers
  <2>2. CASE t = s /\ r = "cli"
    BY <2>2, <1>2, <1>3, <1>4 DEF SeatsHoldTheirPeers
  <2>3. CASE t = s /\ r = "mobile"
    BY <2>3, <1>2, <1>3, <1>4 DEF SeatsHoldTheirPeers
  <2> QED BY <2>1, <2>2, <2>3
<1>8. EveryOpenPeerIsSeated'
  <2> SUFFICES ASSUME NEW x \in Sockets, readyState'[x] = "open"
               PROVE  x \in {cliWs'[owner'[x]], mobileWs'[owner'[x]]}
    BY DEF EveryOpenPeerIsSeated
  <2>1. CASE x = w
    BY <2>1, <1>2, <1>3
  <2>2. CASE x # w
    <3>1. readyState[x] = "open" /\ x \notin Replaced(s, w, r) /\ owner'[x] = owner[x]
      BY <2>2, <1>2, <1>4
    <3>2. x \in {cliWs[owner[x]], mobileWs[owner[x]]} /\ owner[x] \in Sessions
      BY <3>1 DEF EveryOpenPeerIsSeated, SocketsAreOwned
    <3>3. CASE owner[x] # s
      BY <3>1, <3>2, <3>3, <1>1
    <3>4. CASE owner[x] = s
      BY <2>2, <3>1, <3>2, <3>4, <1>1 DEF Replaced, CliSeat, MobileSeat
    <3> QED BY <3>3, <3>4
  <2> QED BY <2>1, <2>2
<1>9. ReapTimerMeansEmpty'
  <2>1. /\ reapTimer'[s] = FALSE
        /\ \A t \in Sessions \ {s} : reapTimer'[t] = reapTimer[t]
    BY DEF AttachPeer, ReapCancelled
  <2> QED BY <2>1, <1>1 DEF ReapTimerMeansEmpty, Empty
<1>10. SeatedCliIsWatched'
  <2> SUFFICES ASSUME NEW t \in Sessions, cliWs'[t] \in Sockets, readyState'[cliWs'[t]] = "open"
               PROVE  heartbeatTimer'[t]
    BY DEF SeatedCliIsWatched, IsOpen
  <2>1. CASE t = s /\ r = "cli"
    BY <2>1 DEF AttachPeer, HeartbeatStarted
  <2>2. CASE t = s /\ r = "mobile"
    BY <2>2, <1>3, <1>4 DEF AttachPeer, SeatedCliIsWatched, IsOpen
  <2>3. CASE t # s
    BY <2>3, <1>1, <1>4, <1>5 DEF AttachPeer, HeartbeatStarted, SeatedCliIsWatched, IsOpen
  <2> QED BY <2>1, <2>2, <2>3
<1>11. ~Empty(s)' /\ \A t \in Sessions \ {s} : Empty(t)' = Empty(t) /\ reapTimer'[t] = reapTimer[t]
  BY <1>1, <1>3 DEF Empty, AttachPeer, ReapCancelled
<1> QED BY <1>6, <1>7, <1>8, <1>9, <1>10, <1>11

\* The part of the type invariant that speaks of the seats.
SeatTypeOK ==
  /\ cliWs \in [Sessions -> Sockets \cup {None}]
  /\ mobileWs \in [Sessions -> Sockets \cup {None}]
  /\ heartbeatTimer \in [Sessions -> BOOLEAN]
  /\ reapTimer \in [Sessions -> BOOLEAN]
  /\ readyState \in [Sockets -> {"new", "open", "closing", "closed"}]
  /\ role \in [Sockets -> {"none", "cli", "mobile"}]
  /\ goodbye \in [Sockets -> Reasons \cup {"none"}]

\* Closing sockets with a reason keeps the types of their states.
LEMMA ClosingTypes ==
  ASSUME TypeOK, NEW xs, NEW reason \in Reasons
  PROVE  /\ Closing(xs) \in [Sockets -> {"new", "open", "closing", "closed"}]
         /\ Told(xs, reason) \in [Sockets -> Reasons \cup {"none"}]
BY DEF TypeOK, Closing, Told

\* Seating a peer keeps the types of everything it assigns.
LEMMA AttachTypes ==
  ASSUME TypeOK, NEW s \in Sessions, NEW w \in Sockets, NEW r \in {"cli", "mobile"},
         AttachPeer(s, w, r),
         readyState' \in [Sockets -> {"new", "open", "closing", "closed"}]
  PROVE  SeatTypeOK'
<1>1. ReplacedBy(r) \in Reasons
  BY DEF ReplacedBy, Reasons
<1>2. goodbye' \in [Sockets -> Reasons \cup {"none"}]
  BY <1>1, ClosingTypes DEF AttachPeer
<1> QED BY <1>2, SeatTypes DEF SeatTypeOK, TypeOK, AttachPeer, ReapCancelled, HeartbeatStarted

\* Telling a peer's side by its message keeps the seats in order too, and no
\* session becomes empty by it.
LEMMA ClassifyKeepsSeats ==
  ASSUME TypeOK, SeatInv, NEW w \in Sockets, NEW type,
         readyState[w] \in {"open", "closing"}, owner[w] # None,
         Classify(w, type), owner' = owner
  PROVE  /\ SeatTypeOK' /\ SeatInv'
         /\ \A t \in Sessions : Empty(t)' => Empty(t) /\ reapTimer'[t] = reapTimer[t]
<1>1. owner[w] \in Sessions /\ role[w] # "none"
  BY DEF TypeOK, SeatInv, SocketsAreOwned
<1>2. CASE ShouldBe(w, type) = role[w]
  <2>1. UNCHANGED <<readyState, role, goodbye, reapTimer, cliWs, mobileWs, heartbeatTimer, owner>>
    BY <1>2 DEF Classify
  <2> QED
    BY <2>1 DEF TypeOK, SeatTypeOK, SeatInv, SocketsAreOwned, SeatsHoldTheirPeers, EveryOpenPeerIsSeated,
                ReapTimerMeansEmpty, SeatedCliIsWatched, Empty, IsOpen
<1>3. CASE ShouldBe(w, type) # role[w]
  <2> PICK s \in Sessions : s = owner[w]
    BY <1>1
  <2> PICK r \in {"cli", "mobile", "none"} : r = ShouldBe(w, type)
    BY <1>1 DEF ShouldBe, TypeOK
  <2>1. r \in {"cli", "mobile"}
    BY <1>3 DEF ShouldBe
  <2>2. AttachPeer(s, w, r) /\ readyState' = Closing(Replaced(s, w, r))
    BY <1>3 DEF Classify
  <2>3. owner' = [owner EXCEPT ![w] = s]
    BY DEF TypeOK
  <2>4. readyState' \in [Sockets -> {"new", "open", "closing", "closed"}]
    BY <2>2 DEF Closing, TypeOK
  <2>5. readyState'[w] \in {"open", "closing"}
    BY <2>2 DEF Closing
  <2>6. \A x \in Sockets \ {w} : readyState'[x] = Closing(Replaced(s, w, r))[x]
    BY <2>2
  <2>7. SeatTypeOK'
    BY <1>1, <2>1, <2>2, <2>4, AttachTypes
  <2>8. SeatInv' /\ ~Empty(s)' /\ \A t \in Sessions \ {s} : Empty(t)' = Empty(t) /\ reapTimer'[t] = reapTimer[t]
    BY <1>1, <2>1, <2>2, <2>3, <2>4, <2>5, <2>6, AttachKeepsSeats
  <2>9. ASSUME NEW t \in Sessions, Empty(t)'
        PROVE  Empty(t) /\ reapTimer'[t] = reapTimer[t]
    <3>1. t # s
      BY <2>8, <2>9
    <3> QED BY <2>8, <2>9, <3>1
  <2> QED BY <2>7, <2>8, <2>9
<1> QED BY <1>2, <1>3

\* The seats the rest of a message handler finds hold peers of the session other
\* than the sender, when the sender's side is across from them.
LEMMA AcrossFromSender ==
  ASSUME TypeOK, SeatInv, NEW w \in Sockets, NEW type,
         readyState[w] \in {"open", "closing"}, owner[w] # None
  PROVE  /\ CliNow(w, type) \in Sockets \cup {None} /\ MobileNow(w, type) \in Sockets \cup {None}
         /\ Across(w) \in Sockets \cup {None}
         /\ type \in CliOnly /\ MobileNow(w, type) # None =>
              MobileNow(w, type) # w /\ owner[MobileNow(w, type)] = owner[w]
         /\ type \in MobileOnly /\ CliNow(w, type) # None =>
              CliNow(w, type) # w /\ owner[CliNow(w, type)] = owner[w]
         /\ Across(w) # None => Across(w) # w /\ owner[Across(w)] = owner[w]
<1>1. owner[w] \in Sessions /\ role[w] \in {"cli", "mobile"}
  BY DEF TypeOK, SeatInv, SocketsAreOwned
<1>2. CliNow(w, type) \in Sockets \cup {None} /\ MobileNow(w, type) \in Sockets \cup {None}
      /\ Across(w) \in Sockets \cup {None}
  BY <1>1, SeatTypes DEF TypeOK, CliNow, MobileNow, Across
<1>3. ASSUME type \in CliOnly, MobileNow(w, type) # None
      PROVE  MobileNow(w, type) # w /\ owner[MobileNow(w, type)] = owner[w]
  <2>1. ShouldBe(w, type) = "cli"
    BY <1>3 DEF ShouldBe, CliOnly, MobileOnly
  <2>2. MobileNow(w, type) = mobileWs[owner[w]] /\ MobileNow(w, type) # w
    BY <1>1, <1>3, <2>1 DEF MobileNow, MobileSeat, SeatInv, SeatsHoldTheirPeers
  <2> QED BY <1>1, <1>3, <2>2 DEF SeatInv, SeatsHoldTheirPeers
<1>4. ASSUME type \in MobileOnly, CliNow(w, type) # None
      PROVE  CliNow(w, type) # w /\ owner[CliNow(w, type)] = owner[w]
  <2>1. ShouldBe(w, type) = "mobile"
    BY <1>4 DEF ShouldBe, CliOnly, MobileOnly
  <2>2. CliNow(w, type) = cliWs[owner[w]] /\ CliNow(w, type) # w
    BY <1>1, <1>4, <2>1 DEF CliNow, CliSeat, SeatInv, SeatsHoldTheirPeers
  <2> QED BY <1>1, <1>4, <2>2 DEF SeatInv, SeatsHoldTheirPeers
<1>5. ASSUME Across(w) # None PROVE Across(w) # w /\ owner[Across(w)] = owner[w]
  BY <1>1, <1>5 DEF Across, SeatInv, SeatsHoldTheirPeers
<1> QED BY <1>2, <1>3, <1>4, <1>5

-----------------------------------------------------------------------------
(* Messages *)

\* Hearing a peer leaves the count of unanswered pings in its range.
LEMMA HeardType ==
  ASSUME TypeOK, NEW w \in Sockets, NEW type
  PROVE  Heard(w, type) \in [Sessions -> 0 .. HeartbeatGrace]
<1>1. 0 \in 0 .. HeartbeatGrace
  OBVIOUS
<1>2. quiet \in [Sessions -> 0 .. HeartbeatGrace]
  BY DEF TypeOK
<1> QED BY <1>1, <1>2 DEF Heard

\* A message that leaves the registry alone keeps the invariant, if what it puts
\* on the wire is proper.
LEMMA MessageKeepsInv ==
  ASSUME IndInv, NEW w \in Sockets, NEW type,
         readyState[w] \in {"open", "closing"}, owner[w] # None,
         Classify(w, type), quiet' = Heard(w, type), sent' \in Seq(Proper(owner)),
         UNCHANGED <<registry, pairingTimer, owner>>
  PROVE  IndInv'
<1>1. TypeOK /\ SeatInv /\ RegistryInv /\ UnattendedIsTimed
  BY DEF IndInv, SeatInv, RegistryInv
<1>2. UNCHANGED <<up, sessionsByCode, sessionsById, code, paired, closedRecords, pairingTimer, owner>>
  BY DEF registry
<1>3. /\ SeatTypeOK' /\ SeatInv'
      /\ \A t \in Sessions : Empty(t)' => Empty(t) /\ reapTimer'[t] = reapTimer[t]
  BY <1>1, <1>2, ClassifyKeepsSeats
<1>4. sent' \in Seq(Frame) /\ ForwardedWithinSession'
  BY <1>2, ProperWire
<1>5. quiet' \in [Sessions -> 0 .. HeartbeatGrace]
  BY <1>1, HeardType
<1>6. TypeOK'
  BY <1>1, <1>2, <1>3, <1>4, <1>5 DEF TypeOK, SeatTypeOK
<1>7. RegistryInv'
  BY <1>1, <1>2 DEF RegistryInv, RegistryConsistent, BornBeforeUse, PairingDeadline
<1>8. UnattendedIsTimed'
  BY <1>1, <1>2, <1>3 DEF UnattendedIsTimed, TypeOK
<1> QED BY <1>3, <1>4, <1>6, <1>7, <1>8 DEF IndInv, SeatInv, RegistryInv

\* A pong keeps the invariant.
LEMMA PongKeepsInv == ASSUME IndInv, NEW w \in Sockets, Pong(w) PROVE IndInv'
<1>1. TypeOK /\ owner[w] \in Sessions
  BY DEF IndInv, Pong, Delivers, TypeOK
<1>2. sent' \in Seq(Proper(owner))
  BY <1>1, ClassifyFramesProper DEF Pong
<1> QED BY <1>2, MessageKeepsInv DEF Pong, Delivers

\* A pairing message without a key, which is ignored, keeps it.
LEMMA KeylessPairingKeepsInv == ASSUME IndInv, NEW w \in Sockets, KeylessPairing(w) PROVE IndInv'
<1>1. TypeOK /\ owner[w] \in Sessions
  BY DEF IndInv, KeylessPairing, Delivers, TypeOK
<1>2. sent' \in Seq(Proper(owner))
  BY <1>1, ClassifyFramesProper DEF KeylessPairing
<1> QED BY <1>2, MessageKeepsInv DEF KeylessPairing, Delivers

\* Output on its way to the phone keeps it.
LEMMA OutputKeepsInv == ASSUME IndInv, NEW w \in Sockets, Output(w) PROVE IndInv'
<1>1. TypeOK /\ SeatInv /\ owner[w] \in Sessions /\ readyState[w] \in {"open", "closing"} /\ owner[w] # None
  BY DEF IndInv, SeatInv, Output, Delivers, TypeOK
<1> DEFINE phone == MobileNow(w, "output")
<1>2. phone \in Sockets \cup {None} /\ (phone # None => phone # w /\ owner[phone] = owner[w])
  BY <1>1, AcrossFromSender DEF CliOnly
<1> HIDE DEF phone
<1>3. Send(phone, "output", w) \in Seq(Proper(owner))
  BY <1>2, ForwardIsProper DEF Forwarded
<1>4. ClassifyFrames(w, "output") \in Seq(Proper(owner))
  BY <1>1, ClassifyFramesProper
<1>5. sent' \in Seq(Proper(owner))
  BY <1>3, <1>4, Concatenation DEF Output, phone
<1> QED BY <1>1, <1>5, MessageKeepsInv DEF Output

\* Input and catch-up requests on their way to the CLI keep it.
LEMMA InputKeepsInv ==
  ASSUME IndInv, NEW w \in Sockets, NEW type \in {"input", "catchup_request"}, Input(w, type)
  PROVE  IndInv'
<1>1. TypeOK /\ SeatInv /\ owner[w] \in Sessions /\ readyState[w] \in {"open", "closing"} /\ owner[w] # None
  BY DEF IndInv, SeatInv, Input, Delivers, TypeOK
<1> DEFINE cli == CliNow(w, type)
<1>2. cli \in Sockets \cup {None} /\ (cli # None => cli # w /\ owner[cli] = owner[w])
  BY <1>1, AcrossFromSender DEF MobileOnly
<1> HIDE DEF cli
<1>3. Send(cli, type, w) \in Seq(Proper(owner))
  BY <1>2, ForwardIsProper DEF Forwarded
<1>4. ClassifyFrames(w, type) \in Seq(Proper(owner))
  BY <1>1, ClassifyFramesProper
<1>5. sent' \in Seq(Proper(owner))
  BY <1>3, <1>4, Concatenation DEF Input, cli
<1> QED BY <1>1, <1>5, MessageKeepsInv DEF Input

\* What is left alone stays as it was: a step that only puts proper frames on
\* the wire keeps the invariant.
LEMMA WireKeepsInv ==
  ASSUME IndInv, sent' \in Seq(Proper(owner)),
         UNCHANGED <<registry, cliWs, mobileWs, heartbeatTimer, reapTimer, pairingTimer,
                     quiet, readyState, owner, role, goodbye>>
  PROVE  IndInv'
<1>1. sent' \in Seq(Frame) /\ ForwardedWithinSession'
  BY ProperWire
<1> QED
  BY <1>1 DEF IndInv, registry, TypeOK, RegistryConsistent, BornBeforeUse, PairingDeadline,
              SocketsAreOwned, SeatsHoldTheirPeers, EveryOpenPeerIsSeated, ReapTimerMeansEmpty,
              SeatedCliIsWatched, UnattendedIsTimed, Empty, IsOpen

\* A message of unknown type, forwarded across, keeps it.
LEMMA OtherKeepsInv == ASSUME IndInv, NEW w \in Sockets, Other(w) PROVE IndInv'
<1>1. TypeOK /\ SeatInv /\ readyState[w] \in {"open", "closing"} /\ owner[w] # None
  BY DEF IndInv, SeatInv, Other, Delivers
<1> DEFINE x == Across(w)
<1>2. x \in Sockets \cup {None} /\ (x # None => x # w /\ owner[x] = owner[w])
  BY <1>1, AcrossFromSender
<1> HIDE DEF x
<1>3. Send(x, "other", w) \in Seq(Proper(owner))
  BY <1>2, ForwardIsProper DEF Forwarded
<1> QED BY <1>3, WireKeepsInv DEF Other, x

\* Pairing takes a session out of the codes and cancels its deadline; what is
\* left of the deadlines is the idle limit, if nobody is there.
LEMMA MobilePairingKeepsInv == ASSUME IndInv, NEW w \in Sockets, MobilePairing(w) PROVE IndInv'
<1> DEFINE type == "mobile_pairing"
<1>1. /\ TypeOK /\ SeatInv /\ RegistryInv /\ UnattendedIsTimed
      /\ owner[w] \in Sessions /\ readyState[w] \in {"open", "closing"} /\ owner[w] # None
  BY DEF IndInv, SeatInv, RegistryInv, MobilePairing, Delivers, TypeOK
<1> PICK s \in Sessions : s = owner[w]
  BY <1>1
<1>2. /\ UNCHANGED <<up, sessionsById, code, closedRecords, owner>>
      /\ paired' = [paired EXCEPT ![s] = TRUE] /\ pairingTimer' = [pairingTimer EXCEPT ![s] = FALSE]
      /\ sessionsByCode' = [c \in Codes |-> IF c = code[s] THEN None ELSE sessionsByCode[c]]
      /\ Classify(w, type) /\ quiet' = Heard(w, type)
  BY DEF MobilePairing, PairingCancelled, CodesWithout
<1>3. /\ SeatTypeOK' /\ SeatInv'
      /\ \A t \in Sessions : Empty(t)' => Empty(t) /\ reapTimer'[t] = reapTimer[t]
  BY <1>1, <1>2, ClassifyKeepsSeats
<1>4. sent' \in Seq(Proper(owner))
  <2> DEFINE cli == CliNow(w, type)
             phone == MobileNow(w, type)
             first == ClassifyFrames(w, type)
             second == Send(cli, "pairing_complete", w)
             third == Send(phone, "pairing_ack", None)
             fourth == Send(cli, "client_connected", None)
  <2>1. cli \in Sockets \cup {None} /\ phone \in Sockets \cup {None}
    BY <1>1, AcrossFromSender
  <2>2. {"pairing_complete", "pairing_ack", "client_connected"} \subseteq Notices
    BY DEF Notices
  <2> HIDE DEF cli, phone
  <2>3. second \in Seq(Proper(owner)) /\ third \in Seq(Proper(owner)) /\ fourth \in Seq(Proper(owner))
    BY <2>1, <2>2, NoticeIsProper
  <2>4. first \in Seq(Proper(owner))
    BY <1>1, ClassifyFramesProper
  <2>5. sent' = first \o second \o third \o fourth
    BY DEF MobilePairing, cli, phone
  <2> HIDE DEF first, second, third, fourth
  <2>6. first \o second \in Seq(Proper(owner))
    BY <2>3, <2>4, Concatenation
  <2>7. first \o second \o third \in Seq(Proper(owner))
    BY <2>3, <2>6, Concatenation
  <2> QED BY <2>3, <2>5, <2>7, Concatenation
<1>5. sent' \in Seq(Frame) /\ ForwardedWithinSession'
  BY <1>2, <1>4, ProperWire
<1>6. quiet' \in [Sessions -> 0 .. HeartbeatGrace]
  BY <1>1, <1>2, HeardType
<1>7. TypeOK'
  BY <1>1, <1>2, <1>3, <1>5, <1>6 DEF TypeOK, SeatTypeOK
<1>8. RegistryInv'
  BY <1>1, <1>2 DEF RegistryInv, RegistryConsistent, BornBeforeUse, PairingDeadline, TypeOK
<1>9. UnattendedIsTimed'
  BY <1>1, <1>2, <1>3 DEF UnattendedIsTimed, TypeOK
<1> QED BY <1>3, <1>5, <1>7, <1>8, <1>9 DEF IndInv, SeatInv, RegistryInv

-----------------------------------------------------------------------------
(* Registration, connections and close events *)

\* A registration keeps it: the session is new and its deadline starts.
LEMMA RegisterKeepsInv ==
  ASSUME IndInv, NEW s \in Sessions, NEW c \in Codes, Register(s, c)
  PROVE  IndInv'
<1> USE DEF IndInv, Register, registry
<1>1. sent' \in Seq(Proper(owner'))
  BY NothingSent
<1>2. sent' \in Seq(Frame) /\ ForwardedWithinSession'
  BY <1>1, ProperWire
<1>3. TypeOK'
  BY <1>2 DEF TypeOK
<1>4. RegistryConsistent' /\ BornBeforeUse' /\ PairingDeadline'
  BY DEF TypeOK, RegistryConsistent, BornBeforeUse, PairingDeadline
<1>5. SocketsAreOwned' /\ SeatsHoldTheirPeers' /\ EveryOpenPeerIsSeated' /\ ReapTimerMeansEmpty'
      /\ SeatedCliIsWatched'
  BY DEF SocketsAreOwned, SeatsHoldTheirPeers, EveryOpenPeerIsSeated, ReapTimerMeansEmpty,
         SeatedCliIsWatched, Empty, IsOpen
<1>6. UnattendedIsTimed'
  BY DEF TypeOK, UnattendedIsTimed, BornBeforeUse, Empty
<1> QED BY <1>2, <1>3, <1>4, <1>5, <1>6

\* An arrival keeps it: the newcomer is seated, whoever sat there is closed.
LEMMA ConnectKeepsInv ==
  ASSUME IndInv, NEW w \in Sockets, NEW s \in Sessions, Connect(w, s)
  PROVE  IndInv'
<1>1. TypeOK /\ SeatInv /\ RegistryInv /\ UnattendedIsTimed
  BY DEF IndInv, SeatInv, RegistryInv
<1> PICK r \in {"cli", "mobile"} : r = RoleOnArrival(s)
  BY DEF RoleOnArrival
<1>2. /\ UNCHANGED <<up, sessionsByCode, sessionsById, code, paired, closedRecords, pairingTimer>>
      /\ owner' = [owner EXCEPT ![w] = s]
      /\ AttachPeer(s, w, r)
      /\ readyState' = [Closing(Replaced(s, w, r)) EXCEPT ![w] = "open"]
  BY DEF Connect, registry
<1>3. owner[w] = None /\ s \in sessionsById /\ code[s] # None
  BY <1>1 DEF Connect, FoundBy, SeatInv, SocketsAreOwned, RegistryInv, RegistryConsistent, BornBeforeUse
<1>4. readyState' \in [Sockets -> {"new", "open", "closing", "closed"}]
  BY <1>1, <1>2 DEF Closing, TypeOK
<1>5. /\ owner[w] \in {s, None} /\ readyState'[w] \in {"open", "closing"}
      /\ \A x \in Sockets \ {w} : readyState'[x] = Closing(Replaced(s, w, r))[x]
  BY <1>2, <1>3 DEF Closing
<1>6. /\ SeatInv' /\ ~Empty(s)'
      /\ \A t \in Sessions \ {s} : Empty(t)' = Empty(t) /\ reapTimer'[t] = reapTimer[t]
  <2>1. TypeOK /\ SeatInv
    BY <1>1
  <2>2. AttachPeer(s, w, r) /\ owner' = [owner EXCEPT ![w] = s]
    BY <1>2
  <2> QED BY <1>4, <1>5, <2>1, <2>2, AttachKeepsSeats
<1>7. SeatTypeOK'
  BY <1>1, <1>2, <1>4, AttachTypes
<1>8. sent' \in Seq(Proper(owner'))
  BY <1>1, AttachFramesProper DEF Connect
<1>9. sent' \in Seq(Frame) /\ ForwardedWithinSession'
  BY <1>8, ProperWire
<1>10. quiet' \in [Sessions -> 0 .. HeartbeatGrace]
  <2>1. quiet \in [Sessions -> 0 .. HeartbeatGrace] /\ 0 \in 0 .. HeartbeatGrace
    BY <1>1 DEF TypeOK
  <2> QED BY <2>1 DEF Connect
<1>11. TypeOK'
  BY <1>1, <1>2, <1>7, <1>9, <1>10 DEF TypeOK, SeatTypeOK
<1>12. RegistryInv'
  BY <1>1, <1>2, <1>3 DEF TypeOK, RegistryInv, RegistryConsistent, BornBeforeUse, PairingDeadline
<1>13. UnattendedIsTimed'
  <2> SUFFICES ASSUME NEW t \in sessionsById, Empty(t)'
               PROVE  reapTimer'[t] \/ (pairingTimer'[t] /\ \A x \in Sockets : owner'[x] # t)
    BY <1>2 DEF UnattendedIsTimed
  <2>1. t \in Sessions \ {s}
    BY <1>1, <1>6 DEF TypeOK
  <2>2. Empty(t) /\ reapTimer'[t] = reapTimer[t]
    BY <1>6, <2>1
  <2> QED BY <1>1, <1>2, <2>1, <2>2 DEF UnattendedIsTimed, TypeOK
<1> QED BY <1>6, <1>9, <1>11, <1>12, <1>13 DEF IndInv, SeatInv, RegistryInv

\* A refusal keeps it: the socket was in no seat.
LEMMA RefuseKeepsInv == ASSUME IndInv, NEW w \in Sockets, Refuse(w) PROVE IndInv'
<1> USE DEF IndInv, Refuse, registry
<1>1. sent' \in Seq(Proper(owner'))
  BY NothingSent
<1>2. sent' \in Seq(Frame) /\ ForwardedWithinSession'
  BY <1>1, ProperWire
<1>3. TypeOK'
  BY <1>2 DEF TypeOK, Reasons
<1>4. RegistryConsistent' /\ BornBeforeUse' /\ PairingDeadline' /\ UnattendedIsTimed' /\ ReapTimerMeansEmpty'
  BY DEF RegistryConsistent, BornBeforeUse, PairingDeadline, UnattendedIsTimed, ReapTimerMeansEmpty, Empty
<1>5. SocketsAreOwned' /\ SeatsHoldTheirPeers' /\ EveryOpenPeerIsSeated' /\ SeatedCliIsWatched'
  BY DEF TypeOK, SocketsAreOwned, SeatsHoldTheirPeers, EveryOpenPeerIsSeated, SeatedCliIsWatched, IsOpen
<1> QED BY <1>2, <1>3, <1>4, <1>5

\* A peer that goes keeps it: its seat is vacated by the close event.
LEMMA PeerClosesKeepsInv == ASSUME IndInv, NEW w \in Sockets, PeerCloses(w) PROVE IndInv'
<1> USE DEF IndInv, PeerCloses, registry
<1>1. sent' \in Seq(Proper(owner'))
  BY NothingSent
<1>2. sent' \in Seq(Frame) /\ ForwardedWithinSession'
  BY <1>1, ProperWire
<1>3. TypeOK'
  BY <1>2 DEF TypeOK
<1>4. RegistryConsistent' /\ BornBeforeUse' /\ PairingDeadline' /\ UnattendedIsTimed' /\ ReapTimerMeansEmpty'
  BY DEF RegistryConsistent, BornBeforeUse, PairingDeadline, UnattendedIsTimed, ReapTimerMeansEmpty, Empty
<1>5. SocketsAreOwned' /\ SeatsHoldTheirPeers' /\ EveryOpenPeerIsSeated' /\ SeatedCliIsWatched'
  BY DEF TypeOK, SocketsAreOwned, SeatsHoldTheirPeers, EveryOpenPeerIsSeated, SeatedCliIsWatched, IsOpen
<1> QED BY <1>2, <1>3, <1>4, <1>5

\* The close event: the seat of w, if it has one, is vacated, and if nobody is
\* left the idle limit starts.
LEMMA CloseEventKeepsInv == ASSUME IndInv, NEW w \in Sockets, CloseEvent(w) PROVE IndInv'
<1>1. TypeOK /\ SeatInv /\ RegistryInv /\ UnattendedIsTimed
  BY DEF IndInv, SeatInv, RegistryInv
<1>2. owner[w] \in Sessions /\ readyState[w] = "closing"
  BY <1>1 DEF CloseEvent, TypeOK, SeatInv, SocketsAreOwned
<1> PICK s \in Sessions : s = owner[w]
  BY <1>2
<1>3. /\ UNCHANGED <<up, sessionsByCode, sessionsById, code, paired, closedRecords, pairingTimer, quiet,
                     owner, role, goodbye>>
      /\ readyState' = [readyState EXCEPT ![w] = "closed"]
  BY DEF CloseEvent, registry
<1>4. /\ cliWs' = [cliWs EXCEPT ![s] = IF cliWs[s] = w THEN None ELSE cliWs[s]]
      /\ mobileWs' = [mobileWs EXCEPT ![s] = IF mobileWs[s] = w THEN None ELSE mobileWs[s]]
  <2>1. cliWs' = [cliWs EXCEPT ![s] = IF cliWs[s] = w THEN None ELSE cliWs[s]]
    BY DEF CloseEvent, Vacated
  <2>2. ~(cliWs[s] = w /\ mobileWs[s] = w)
    BY <1>1 DEF SeatInv, SeatsHoldTheirPeers
  <2>3. mobileWs' = [mobileWs EXCEPT ![s] = IF mobileWs[s] = w THEN None ELSE mobileWs[s]]
    <3>1. CASE mobileWs[s] = w
      BY <2>2, <3>1 DEF CloseEvent, Vacated
    <3>2. CASE mobileWs[s] # w
      BY <1>1, <3>2 DEF CloseEvent, TypeOK
    <3> QED BY <3>1, <3>2
  <2> QED BY <2>1, <2>3
<1>5. /\ reapTimer' = [reapTimer EXCEPT ![s] = reapTimer[s] \/ (cliWs'[s] = None /\ mobileWs'[s] = None)]
      /\ heartbeatTimer' = IF cliWs[s] = w THEN [heartbeatTimer EXCEPT ![s] = FALSE] ELSE heartbeatTimer
  BY DEF CloseEvent, ReapArmed
<1>6. \A t \in Sessions : /\ cliWs'[t] = IF cliWs[t] = w THEN None ELSE cliWs[t]
                          /\ mobileWs'[t] = IF mobileWs[t] = w THEN None ELSE mobileWs[t]
  BY <1>1, <1>4 DEF TypeOK, SeatInv, SeatsHoldTheirPeers
<1>7. \A x \in Sockets : readyState'[x] = IF x = w THEN "closed" ELSE readyState[x]
  BY <1>1, <1>3 DEF TypeOK
<1>8. sent' \in Seq(Proper(owner'))
  <2>1. {"cli_disconnected", "client_disconnected"} \subseteq Notices
    BY DEF Notices
  <2>2. /\ Send(mobileWs[s], "cli_disconnected", None) \in Seq(Proper(owner'))
        /\ Send(cliWs[s], "client_disconnected", None) \in Seq(Proper(owner'))
    BY <1>1, <2>1, NoticeIsProper DEF TypeOK
  <2>3. CASE cliWs[s] = w
    BY <2>2, <2>3 DEF CloseEvent
  <2>4. CASE cliWs[s] # w /\ mobileWs[s] = w
    BY <2>2, <2>4 DEF CloseEvent
  <2>5. CASE cliWs[s] # w /\ mobileWs[s] # w
    BY <2>5, NothingSent DEF CloseEvent
  <2> QED BY <2>3, <2>4, <2>5
<1>9. sent' \in Seq(Frame) /\ ForwardedWithinSession'
  BY <1>8, ProperWire
<1>10. TypeOK'
  BY <1>1, <1>3, <1>4, <1>5, <1>9 DEF TypeOK
<1>11. RegistryInv'
  BY <1>1, <1>3 DEF RegistryInv, RegistryConsistent, BornBeforeUse, PairingDeadline
<1>12. SocketsAreOwned' /\ SeatsHoldTheirPeers' /\ EveryOpenPeerIsSeated'
  <2>1. SocketsAreOwned'
    BY <1>1, <1>3, <1>7 DEF SeatInv, SocketsAreOwned
  <2>2. SeatsHoldTheirPeers'
    <3> SUFFICES ASSUME NEW t \in Sessions
                 PROVE  /\ cliWs'[t] # None => owner[cliWs'[t]] = t /\ role[cliWs'[t]] = "cli"
                                               /\ readyState'[cliWs'[t]] \in {"open", "closing"}
                        /\ mobileWs'[t] # None => owner[mobileWs'[t]] = t /\ role[mobileWs'[t]] = "mobile"
                                                  /\ readyState'[mobileWs'[t]] \in {"open", "closing"}
      BY <1>3 DEF SeatsHoldTheirPeers
    <3>1. /\ cliWs'[t] # None => cliWs'[t] = cliWs[t] /\ cliWs[t] \in Sockets \ {w}
          /\ mobileWs'[t] # None => mobileWs'[t] = mobileWs[t] /\ mobileWs[t] \in Sockets \ {w}
      BY <1>1, <1>6 DEF TypeOK
    <3> QED BY <1>1, <1>7, <3>1 DEF SeatInv, SeatsHoldTheirPeers
  <2>3. EveryOpenPeerIsSeated'
    <3> SUFFICES ASSUME NEW x \in Sockets, readyState'[x] = "open"
                 PROVE  x \in {cliWs'[owner[x]], mobileWs'[owner[x]]}
      BY <1>3 DEF EveryOpenPeerIsSeated
    <3>1. x # w /\ readyState[x] = "open"
      BY <1>7
    <3>2. x \in {cliWs[owner[x]], mobileWs[owner[x]]} /\ owner[x] \in Sessions
      BY <1>1, <3>1 DEF SeatInv, EveryOpenPeerIsSeated, SocketsAreOwned, TypeOK
    <3> QED BY <1>6, <3>1, <3>2
  <2> QED BY <2>1, <2>2, <2>3
<1>13. ReapTimerMeansEmpty'
  BY <1>1, <1>4, <1>5 DEF TypeOK, SeatInv, ReapTimerMeansEmpty, Empty
<1>14. SeatedCliIsWatched'
  <2> SUFFICES ASSUME NEW t \in Sessions, cliWs'[t] \in Sockets, readyState'[cliWs'[t]] = "open"
               PROVE  heartbeatTimer'[t]
    BY DEF SeatedCliIsWatched, IsOpen
  <2>1. cliWs[t] \in Sockets /\ cliWs[t] # w /\ readyState[cliWs[t]] = "open"
    BY <1>6, <1>7
  <2>2. heartbeatTimer[t]
    BY <1>1, <2>1 DEF SeatInv, SeatedCliIsWatched, IsOpen
  <2> QED BY <1>1, <1>5, <2>1, <2>2 DEF TypeOK
<1>15. UnattendedIsTimed'
  <2> SUFFICES ASSUME NEW t \in sessionsById, Empty(t)'
               PROVE  reapTimer'[t] \/ (pairingTimer'[t] /\ \A x \in Sockets : owner'[x] # t)
    BY <1>3 DEF UnattendedIsTimed
  <2>1. t \in Sessions
    BY <1>1 DEF TypeOK
  <2>2. CASE t = s
    BY <1>1, <1>5, <2>1, <2>2 DEF Empty, TypeOK
  <2>3. CASE t # s
    BY <1>1, <1>3, <1>4, <1>5, <2>1, <2>3 DEF Empty, TypeOK, UnattendedIsTimed
  <2> QED BY <2>2, <2>3
<1> QED BY <1>9, <1>10, <1>11, <1>12, <1>13, <1>14, <1>15 DEF IndInv, SeatInv, RegistryInv

-----------------------------------------------------------------------------
(* Timers and removals *)

\* A step that at most closes sockets and counts a heartbeat keeps the invariant,
\* if it leaves a heartbeat running wherever a seated CLI is still open.
LEMMA ClosingKeepsInv ==
  ASSUME IndInv, NEW xs, readyState' = Closing(xs),
         heartbeatTimer' \in [Sessions -> BOOLEAN], SeatedCliIsWatched',
         quiet' \in [Sessions -> 0 .. HeartbeatGrace], sent' \in Seq(Proper(owner)),
         UNCHANGED <<registry, cliWs, mobileWs, reapTimer, pairingTimer, owner, role, goodbye>>
  PROVE  IndInv'
<1> USE DEF IndInv, registry
<1>1. sent' \in Seq(Frame) /\ ForwardedWithinSession'
  BY ProperWire
<1>2. \A w \in Sockets : readyState'[w] = readyState[w] \/ (readyState[w] = "open" /\ readyState'[w] = "closing")
  BY DEF Closing, IsOpen
<1>3. TypeOK'
  <2>1. readyState' \in [Sockets -> {"new", "open", "closing", "closed"}]
    BY DEF Closing, TypeOK
  <2> QED BY <1>1, <2>1 DEF TypeOK
<1>4. RegistryConsistent' /\ BornBeforeUse' /\ PairingDeadline' /\ UnattendedIsTimed' /\ ReapTimerMeansEmpty'
  BY DEF RegistryConsistent, BornBeforeUse, PairingDeadline, UnattendedIsTimed, ReapTimerMeansEmpty, Empty
<1>5. SocketsAreOwned' /\ SeatsHoldTheirPeers' /\ EveryOpenPeerIsSeated'
  BY <1>2 DEF TypeOK, SocketsAreOwned, SeatsHoldTheirPeers, EveryOpenPeerIsSeated
<1> QED BY <1>1, <1>3, <1>4, <1>5

\* A heartbeat keeps it, whether it stops, cuts off or pings.
LEMMA HeartbeatTickKeepsInv == ASSUME IndInv, NEW s \in Sessions, HeartbeatTick(s) PROVE IndInv'
<1>1. TypeOK /\ SeatedCliIsWatched
  BY DEF IndInv
<1>2. UNCHANGED <<registry, cliWs, mobileWs, reapTimer, pairingTimer, owner, role, goodbye>>
  BY DEF HeartbeatTick
<1>3. readyState = Closing({})
  BY <1>1 DEF TypeOK, Closing
<1>4. CASE HeartbeatStops(s)
  <2>1. readyState' = Closing({}) /\ quiet' = quiet /\ readyState' = readyState
    BY <1>3, <1>4 DEF HeartbeatStops
  <2>2. heartbeatTimer' \in [Sessions -> BOOLEAN]
    BY <1>1, <1>4 DEF HeartbeatStops, TypeOK
  <2>3. SeatedCliIsWatched'
    BY <1>1, <1>2, <1>4, <2>1 DEF HeartbeatStops, SeatedCliIsWatched, IsOpen, TypeOK
  <2>4. sent' \in Seq(Proper(owner))
    BY <1>4, NothingSent DEF HeartbeatStops
  <2> QED BY <1>1, <1>2, <2>1, <2>2, <2>3, <2>4, ClosingKeepsInv DEF TypeOK
<1>5. CASE HeartbeatCutsOff(s)
  <2>1. readyState' = Closing({cliWs[s]}) /\ heartbeatTimer' = heartbeatTimer /\ quiet' = quiet
    BY <1>5 DEF HeartbeatCutsOff
  <2>2. SeatedCliIsWatched'
    BY <1>1, <1>2, <2>1 DEF SeatedCliIsWatched, IsOpen, Closing, TypeOK
  <2>3. sent' \in Seq(Proper(owner))
    BY <1>5, NothingSent DEF HeartbeatCutsOff
  <2> QED BY <1>1, <1>2, <2>1, <2>2, <2>3, ClosingKeepsInv DEF TypeOK
<1>6. CASE HeartbeatPings(s)
  <2>1. readyState' = readyState /\ heartbeatTimer' = heartbeatTimer
    BY <1>6 DEF HeartbeatPings
  <2>2. SeatedCliIsWatched'
    BY <1>1, <1>2, <2>1 DEF SeatedCliIsWatched, IsOpen
  <2>3. quiet' \in [Sessions -> 0 .. HeartbeatGrace]
    <3>1. quiet \in [Sessions -> 0 .. HeartbeatGrace] /\ quiet[s] < HeartbeatGrace
      BY <1>1, <1>6 DEF HeartbeatPings, TypeOK
    <3>2. quiet[s] + 1 \in 0 .. HeartbeatGrace
      BY <3>1
    <3> QED BY <1>6, <3>1, <3>2 DEF HeartbeatPings
  <2>4. cliWs[s] \in Sockets \cup {None} /\ "ping" \in Notices
    BY <1>1 DEF TypeOK, Notices
  <2>5. Send(cliWs[s], "ping", None) \in Seq(Proper(owner))
    BY <2>4, NoticeIsProper
  <2>6. sent' \in Seq(Proper(owner))
    BY <1>6, <2>5 DEF HeartbeatPings
  <2>7. readyState' = Closing({})
    BY <1>3, <2>1
  <2> QED BY <1>1, <1>2, <2>1, <2>2, <2>3, <2>6, <2>7, ClosingKeepsInv DEF TypeOK
<1> QED BY <1>4, <1>5, <1>6 DEF HeartbeatTick

\* Session.destroy keeps the invariant when the CLIs of the removed sessions are
\* closed in the same step: their heartbeats stop.
LEMMA DestroyKeepsInv ==
  ASSUME IndInv, NEW gone \in SUBSET Sessions, Destroy(gone), NEW xs,
         readyState' = Closing(xs), goodbye' \in [Sockets -> Reasons \cup {"none"}],
         up' \in BOOLEAN, sent' = <<>>,
         \A s \in gone : IsOpen(cliWs[s]) => cliWs[s] \in xs
  PROVE  IndInv'
<1> USE DEF IndInv
<1>1. /\ UNCHANGED <<code, paired, cliWs, mobileWs, quiet, owner, role>>
      /\ \A s \in Sessions : /\ heartbeatTimer'[s] = (heartbeatTimer[s] /\ s \notin gone)
                             /\ reapTimer'[s] = (reapTimer[s] /\ s \notin gone)
                             /\ pairingTimer'[s] = (pairingTimer[s] /\ s \notin gone)
      /\ \A c \in Codes : sessionsByCode'[c] = IF \E s \in gone : code[s] = c THEN None
                                               ELSE sessionsByCode[c]
      /\ sessionsById' = sessionsById \ gone
  BY DEF Destroy
<1>2. \A w \in Sockets : readyState'[w] = readyState[w] \/ (readyState[w] = "open" /\ readyState'[w] = "closing")
  BY DEF Closing, IsOpen
<1>3. sent' \in Seq(Frame) /\ ForwardedWithinSession'
  BY NothingSent, ProperWire
<1>4. TypeOK'
  <2>1. closedRecords' \in [Sessions -> Nat]
    BY DEF Destroy, TypeOK
  <2>2. /\ heartbeatTimer' \in [Sessions -> BOOLEAN] /\ reapTimer' \in [Sessions -> BOOLEAN]
        /\ pairingTimer' \in [Sessions -> BOOLEAN] /\ sessionsByCode' \in [Codes -> Sessions \cup {None}]
    BY DEF Destroy, TypeOK
  <2>3. readyState' \in [Sockets -> {"new", "open", "closing", "closed"}]
    BY DEF Closing, TypeOK
  <2> QED BY <1>1, <1>3, <2>1, <2>2, <2>3 DEF TypeOK
<1>5. RegistryConsistent'
  BY <1>1 DEF RegistryConsistent, TypeOK
<1>6. BornBeforeUse' /\ PairingDeadline'
  BY <1>1 DEF BornBeforeUse, PairingDeadline, TypeOK
<1>7. SocketsAreOwned' /\ SeatsHoldTheirPeers' /\ EveryOpenPeerIsSeated'
  BY <1>1, <1>2 DEF TypeOK, SocketsAreOwned, SeatsHoldTheirPeers, EveryOpenPeerIsSeated
<1>8. ReapTimerMeansEmpty' /\ UnattendedIsTimed'
  BY <1>1 DEF ReapTimerMeansEmpty, UnattendedIsTimed, Empty, TypeOK
<1>9. SeatedCliIsWatched'
  <2> SUFFICES ASSUME NEW s \in Sessions, cliWs[s] \in Sockets, readyState'[cliWs[s]] = "open"
               PROVE  heartbeatTimer'[s]
    BY <1>1 DEF SeatedCliIsWatched, IsOpen
  <2>1. IsOpen(cliWs[s]) /\ cliWs[s] \notin xs
    BY <1>2 DEF IsOpen, Closing
  <2> QED BY <1>1, <2>1 DEF SeatedCliIsWatched
<1> QED BY <1>3, <1>4, <1>5, <1>6, <1>7, <1>8, <1>9

\* The two deadlines and the kill request keep it.
LEMMA RemovalKeepsInv ==
  ASSUME IndInv, NEW s \in Sessions, PairingExpires(s) \/ ReapFires(s) \/ Kill(s)
  PROVE  IndInv'
<1>1. TypeOK /\ {s} \in SUBSET Sessions
  BY DEF IndInv
<1>2. Reasons = {"replaced_by_cli", "replaced_by_mobile", "session_expired", "pairing_expired", "refused"}
  BY DEF Reasons
<1>3. CASE PairingExpires(s)
  <2>1. goodbye' \in [Sockets -> Reasons \cup {"none"}]
    BY <1>1, <1>2, <1>3, ClosingTypes DEF PairingExpires, CloseWithReason
  <2>2. Destroy({s}) /\ readyState' = Closing({cliWs[s]}) /\ sent' = <<>> /\ up' \in BOOLEAN
    BY <1>1, <1>3 DEF PairingExpires, CloseWithReason, TypeOK
  <2> QED BY <1>1, <2>1, <2>2, DestroyKeepsInv
<1>4. CASE ReapFires(s)
  <2>1. readyState' = Closing({})
    BY <1>1, <1>4 DEF ReapFires, Closing, TypeOK
  <2>2. ~IsOpen(cliWs[s])
    BY <1>4 DEF ReapFires, Empty, IsOpen
  <2>3. Destroy({s}) /\ sent' = <<>> /\ up' \in BOOLEAN /\ goodbye' \in [Sockets -> Reasons \cup {"none"}]
    BY <1>1, <1>4 DEF ReapFires, TypeOK
  <2> QED BY <1>1, <2>1, <2>2, <2>3, DestroyKeepsInv
<1>5. CASE Kill(s)
  <2>1. goodbye' \in [Sockets -> Reasons \cup {"none"}]
    BY <1>1, <1>2, <1>5, ClosingTypes DEF Kill, CloseWithReason
  <2>2. Destroy({s}) /\ readyState' = Closing({cliWs[s], mobileWs[s]}) /\ sent' = <<>> /\ up' \in BOOLEAN
    BY <1>1, <1>5 DEF Kill, CloseWithReason, TypeOK
  <2> QED BY <1>1, <2>1, <2>2, DestroyKeepsInv
<1> QED BY <1>3, <1>4, <1>5

\* So does the shutdown, which removes every session at once.
LEMMA ShutdownKeepsInv == ASSUME IndInv, Shutdown PROVE IndInv'
<1> DEFINE xs == UNION {{cliWs[s], mobileWs[s]} : s \in sessionsById}
<1>1. TypeOK /\ sessionsById \in SUBSET Sessions
  BY DEF IndInv, TypeOK
<1>2. goodbye' \in [Sockets -> Reasons \cup {"none"}]
  BY <1>1, ClosingTypes DEF Shutdown, CloseWithReason, Reasons
<1>3. Destroy(sessionsById) /\ readyState' = Closing(xs) /\ sent' = <<>> /\ up' \in BOOLEAN
  BY DEF Shutdown, CloseWithReason
<1>4. \A s \in sessionsById : cliWs[s] \in xs
  OBVIOUS
<1> HIDE DEF xs
<1> QED BY <1>1, <1>2, <1>3, <1>4, DestroyKeepsInv

-----------------------------------------------------------------------------
(* The theorems *)

\* The relay starts in order, with nobody there.
LEMMA InitInv == Init => IndInv
BY DEF Init, IndInv, TypeOK, RegistryConsistent, BornBeforeUse, PairingDeadline, SocketsAreOwned,
       SeatsHoldTheirPeers, EveryOpenPeerIsSeated, ReapTimerMeansEmpty, SeatedCliIsWatched,
       UnattendedIsTimed, ForwardedWithinSession, IsOpen, Empty

\* No handler, timer or request leaves the invariant.
LEMMA NextKeepsInv == IndInv /\ [Next]_vars => IndInv'
<1> SUFFICES ASSUME IndInv, [Next]_vars PROVE IndInv'
  OBVIOUS
<1>1. CASE Shutdown
  BY <1>1, ShutdownKeepsInv
<1>2. CASE \E s \in Sessions, c \in Codes : Register(s, c)
  BY <1>2, RegisterKeepsInv
<1>3. CASE \E s \in Sessions : HeartbeatTick(s)
  BY <1>3, HeartbeatTickKeepsInv
<1>4. CASE \E s \in Sessions : PairingExpires(s) \/ ReapFires(s) \/ Kill(s)
  BY <1>4, RemovalKeepsInv
<1>5. CASE \E w \in Sockets, s \in Sessions : Connect(w, s)
  BY <1>5, ConnectKeepsInv
<1>6. CASE \E w \in Sockets : Refuse(w)
  BY <1>6, RefuseKeepsInv
<1>7. CASE \E w \in Sockets : Message(w)
  BY <1>7, PongKeepsInv, OutputKeepsInv, OtherKeepsInv, MobilePairingKeepsInv, KeylessPairingKeepsInv,
     InputKeepsInv DEF Message
<1>8. CASE \E w \in Sockets : PeerCloses(w)
  BY <1>8, PeerClosesKeepsInv
<1>9. CASE \E w \in Sockets : CloseEvent(w)
  BY <1>9, CloseEventKeepsInv
<1>10. CASE UNCHANGED vars
  BY <1>10 DEF vars, registry, IndInv, TypeOK, RegistryConsistent, BornBeforeUse, PairingDeadline,
               SocketsAreOwned, SeatsHoldTheirPeers, EveryOpenPeerIsSeated, ReapTimerMeansEmpty,
               SeatedCliIsWatched, UnattendedIsTimed, ForwardedWithinSession, IsOpen, Empty
<1> QED BY <1>1, <1>2, <1>3, <1>4, <1>5, <1>6, <1>7, <1>8, <1>9, <1>10 DEF Next

\* Every state the relay can reach satisfies the inductive invariant.
THEOREM Invariance == SafeSpec => []IndInv
<1>1. IndInv /\ [Next]_vars => IndInv'
  BY NextKeepsInv
<1> QED BY InitInv, <1>1, PTL DEF SafeSpec

\* Types are respected, whatever the order of events.
THEOREM TypeCorrect == SafeSpec => []TypeOK
BY Invariance, PTL DEF IndInv

\* A code leads only to a live session waiting under that code.
THEOREM RegistryIsConsistent == SafeSpec => []RegistryConsistent
BY Invariance, PTL DEF IndInv

\* A seat holds a peer of its session and role that is still connected.
THEOREM SeatsAreHeld == SafeSpec => []SeatsHoldTheirPeers
BY Invariance, PTL DEF IndInv

\* No open connection is left without a seat.
THEOREM OpenPeersAreSeated == SafeSpec => []EveryOpenPeerIsSeated
BY Invariance, PTL DEF IndInv

\* A live session that nobody attends has a deadline running.
THEOREM UnattendedSessionsAreTimed == SafeSpec => []UnattendedIsTimed
BY Invariance, PTL DEF IndInv

\* The idle limit never runs on a session in use.
THEOREM ReapSparesUsedSessions == SafeSpec => []ReapTimerMeansEmpty
BY Invariance, PTL DEF IndInv

\* The pairing deadline runs exactly while a live session is unclaimed.
THEOREM DeadlineIsExact == SafeSpec => []PairingDeadline
BY Invariance, PTL DEF IndInv

\* Whoever sits open in the CLI seat is under heartbeat watch.
THEOREM SeatedClisAreWatched == SafeSpec => []SeatedCliIsWatched
BY Invariance, PTL DEF IndInv

\* Messages stay within their session and never return to their sender.
THEOREM ForwardingIsWithinSession == SafeSpec => []ForwardedWithinSession
BY Invariance, PTL DEF IndInv

\* A connection belongs to one session for good.
LEMMA OwnerIsStable ==
  ASSUME IndInv, Next, NEW w \in Sockets, owner[w] # None
  PROVE  owner'[w] = owner[w]
<1>1. CASE \E x \in Sockets, s \in Sessions : Connect(x, s)
  <2> PICK x \in Sockets, s \in Sessions : Connect(x, s)
    BY <1>1
  <2>1. x # w
    BY DEF Connect, IndInv, SocketsAreOwned
  <2> QED BY <2>1 DEF Connect, IndInv, TypeOK
<1>2. CASE ~\E x \in Sockets, s \in Sessions : Connect(x, s)
  <2>1. owner' = owner
    BY <1>2 DEF Next, Shutdown, Destroy, Register, HeartbeatTick, PairingExpires, ReapFires, Kill, Refuse,
                Message, Pong, Output, Other, MobilePairing, KeylessPairing, Input, PeerCloses, CloseEvent
  <2> QED BY <2>1
<1> QED BY <1>1, <1>2

\* A peer leaves its seat only for the other one, or because it is closing: it
\* stays in its session, and an open peer has a seat there.
THEOREM UnseatingIsNeverSilent == SafeSpec => NobodyIsUnseatedSilently
<1> DEFINE A == \A w \in Sockets, s \in Sessions :
                  w \in {cliWs[s], mobileWs[s]} /\ w \notin {cliWs'[s], mobileWs'[s]} => readyState'[w] # "open"
<1>1. ASSUME IndInv, IndInv', [Next]_vars PROVE [A]_vars
  <2> SUFFICES ASSUME Next, NEW w \in Sockets, NEW s \in Sessions,
                      w \in {cliWs[s], mobileWs[s]}, readyState'[w] = "open"
               PROVE  w \in {cliWs'[s], mobileWs'[s]}
    BY <1>1
  <2>1. owner[w] = s
    BY <1>1 DEF IndInv, SeatsHoldTheirPeers
  <2>2. owner'[w] = s
    BY <1>1, <2>1, OwnerIsStable
  <2> QED BY <1>1, <2>2 DEF IndInv, EveryOpenPeerIsSeated
<1> QED BY <1>1, Invariance, PTL DEF SafeSpec, NobodyIsUnseatedSilently

\* The steps that remove a session are those of Session.destroy.
LEMMA RemovalIsDestroy ==
  ASSUME Next, NEW s \in sessionsById \ sessionsById', TypeOK
  PROVE  PairingExpires(s) \/ ReapFires(s) \/ Kill(s) \/ Shutdown
<1>1. CASE Shutdown
  BY <1>1
<1>2. ASSUME NEW t \in Sessions, PairingExpires(t) \/ ReapFires(t) \/ Kill(t)
      PROVE  t = s
  <2>1. Destroy({t})
    BY <1>2 DEF PairingExpires, ReapFires, Kill
  <2> QED BY <2>1 DEF Destroy
<1>3. ASSUME NEW t \in Sessions, (\E c \in Codes : Register(t, c)) \/ HeartbeatTick(t)
      PROVE  FALSE
  BY <1>3 DEF Register, HeartbeatTick, registry
<1>4. ASSUME NEW w \in Sockets,
             \/ \E t \in Sessions : Connect(w, t)
             \/ Refuse(w) \/ Message(w) \/ PeerCloses(w) \/ CloseEvent(w)
      PROVE  FALSE
  BY <1>4 DEF registry, Connect, Refuse, Message, Pong, Output, Other, MobilePairing, KeylessPairing, Input,
              PeerCloses, CloseEvent
<1> QED BY <1>1, <1>2, <1>3, <1>4 DEF Next

\* A paired session is never removed under an open peer that is not told so.
THEOREM PairedRemovalIsAnnounced == SafeSpec => PairedRemovalTellsPeers
<1> DEFINE A == \A s \in sessionsById \ sessionsById' : paired[s] =>
                  \A w \in Sockets : owner[w] = s /\ readyState[w] = "open" =>
                    readyState'[w] = "closing" /\ goodbye'[w] = "session_expired"
<1>1. ASSUME IndInv, [Next]_vars PROVE [A]_vars
  <2> SUFFICES ASSUME Next, NEW s \in sessionsById \ sessionsById', paired[s],
                      NEW w \in Sockets, owner[w] = s, readyState[w] = "open"
               PROVE  readyState'[w] = "closing" /\ goodbye'[w] = "session_expired"
    BY <1>1
  <2>1. w \in {cliWs[s], mobileWs[s]} /\ s \in Sessions
    BY <1>1 DEF IndInv, TypeOK, EveryOpenPeerIsSeated
  <2>2. PairingExpires(s) \/ ReapFires(s) \/ Kill(s) \/ Shutdown
    BY <1>1, RemovalIsDestroy DEF IndInv
  <2>3. ~PairingExpires(s)
    BY DEF PairingExpires
  <2>4. ~ReapFires(s)
    BY <2>1 DEF ReapFires, Empty
  <2>5. CASE Kill(s)
    BY <2>1, <2>5 DEF Kill, CloseWithReason, Closing, Told, IsOpen
  <2>6. CASE Shutdown
    <3>1. w \in UNION {{cliWs[t], mobileWs[t]} : t \in sessionsById}
      BY <2>1
    <3> QED BY <2>6, <3>1 DEF Shutdown, CloseWithReason, Closing, Told, IsOpen
  <2> QED BY <2>2, <2>3, <2>4, <2>5, <2>6
<1> QED BY <1>1, Invariance, PTL DEF SafeSpec, PairedRemovalTellsPeers

\* Any other message leaves the silence of a CLI as it is, unless the CLI's seat passes to
\* the sender (classifyByMessage).
LEMMA OthersLeaveSilence ==
  ASSUME IndInv, NEW w \in Sockets, NEW type \in CliOnly \cup MobileOnly, type # "pong",
         owner[w] \in Sessions, Classify(w, type), quiet' = Heard(w, type), NEW s \in Sessions,
         cliWs[s] # None, cliWs'[s] = cliWs[s]
  PROVE  quiet'[s] = quiet[s]
<1>1. quiet \in [Sessions -> 0 .. HeartbeatGrace] /\ cliWs \in [Sessions -> Sockets \cup {None}]
  BY DEF IndInv, TypeOK
<1>2. CASE ShouldBe(w, type) = "cli" /\ role[w] # "cli" /\ owner[w] = s
  <2>1. cliWs'[s] = w
    BY <1>1, <1>2 DEF Classify, AttachPeer, CliSeat
  <2>2. role[w] = "cli"
    BY <2>1 DEF IndInv, SeatsHoldTheirPeers
  <2> QED BY <1>2, <2>2
<1> QED BY <1>1, <1>2 DEF Heard

\* While a CLI keeps its seat, only a pong makes its silence shorter.
THEOREM OnlyPongsEndSilence == SafeSpec => OnlyPongsBreakSilence
<1> DEFINE A == \A s \in Sessions :
                  cliWs[s] # None /\ cliWs'[s] = cliWs[s] /\ quiet'[s] < quiet[s] =>
                    \E w \in CliSockets : owner[w] = s /\ Pong(w)
<1>1. ASSUME IndInv, [Next]_vars PROVE [A]_vars
  <2> SUFFICES ASSUME Next, NEW s \in Sessions, cliWs[s] # None, cliWs'[s] = cliWs[s],
                      quiet'[s] < quiet[s]
               PROVE  \E w \in CliSockets : owner[w] = s /\ Pong(w)
    BY <1>1
  <2>1. /\ quiet \in [Sessions -> 0 .. HeartbeatGrace]
        /\ cliWs \in [Sessions -> Sockets \cup {None}]
        /\ owner \in [Sockets -> Sessions \cup {None}]
    BY <1>1 DEF IndInv, TypeOK
  <2>2. quiet[s] \in Nat
    BY <2>1, GraceAssumption
  <2>3. quiet' # quiet /\ quiet'[s] # quiet[s]
    BY <2>2
  <2>4. ~Shutdown
    BY <2>3 DEF Shutdown, Destroy
  <2>5. ASSUME NEW t \in Sessions,
               \/ \E c \in Codes : Register(t, c)
               \/ PairingExpires(t) \/ ReapFires(t) \/ Kill(t)
        PROVE  FALSE
    BY <2>3, <2>5 DEF Register, PairingExpires, ReapFires, Kill, Destroy
  <2>6. ASSUME NEW t \in Sessions, HeartbeatTick(t) PROVE FALSE
    <3>1. quiet' = [quiet EXCEPT ![t] = @ + 1]
      BY <2>3, <2>6 DEF HeartbeatTick, HeartbeatStops, HeartbeatCutsOff, HeartbeatPings
    <3> QED BY <2>1, <2>2, <3>1
  <2>7. ASSUME NEW w \in Sockets, NEW t \in Sessions, Connect(w, t) PROVE FALSE
    <3>1. RoleOnArrival(t) = "cli" /\ quiet' = [quiet EXCEPT ![t] = 0]
      BY <2>3, <2>7 DEF Connect
    <3> QED BY <2>1, <2>3, <3>1 DEF RoleOnArrival
  <2>8. ASSUME NEW w \in Sockets, Refuse(w) \/ PeerCloses(w) \/ CloseEvent(w) \/ Other(w)
        PROVE  FALSE
    BY <2>3, <2>8 DEF Refuse, PeerCloses, CloseEvent, Other
  <2>9. ASSUME NEW w \in Sockets,
               \/ Output(w) \/ MobilePairing(w) \/ KeylessPairing(w)
               \/ \E type \in {"input", "catchup_request"} : Input(w, type)
        PROVE  FALSE
    <3>1. owner[w] \in Sessions
      BY <2>1, <2>9 DEF Output, MobilePairing, KeylessPairing, Input, Delivers
    <3>2. \E type \in CliOnly \cup MobileOnly :
             type # "pong" /\ Classify(w, type) /\ quiet' = Heard(w, type)
      BY <2>9 DEF Output, MobilePairing, KeylessPairing, Input, CliOnly, MobileOnly
    <3> QED BY <1>1, <2>3, <3>1, <3>2, OthersLeaveSilence
  <2>10. ASSUME NEW w \in Sockets, Pong(w)
         PROVE  \E x \in CliSockets : owner[x] = s /\ Pong(x)
    <3>1. w \in CliSockets
      BY <2>10 DEF Pong, Delivers
    <3>2. owner[w] = s
      BY <2>1, <2>3, <2>10 DEF Pong, Heard
    <3> QED BY <2>10, <3>1, <3>2
  <2> QED BY <2>4, <2>5, <2>6, <2>7, <2>8, <2>9, <2>10 DEF Next, Message
<1> QED BY <1>1, Invariance, PTL DEF SafeSpec, OnlyPongsBreakSilence

-----------------------------------------------------------------------------
(* Refinement *)

\* What the abstract state of a session is made of.
LEMMA StatusOf ==
  ASSUME IndInv, NEW s \in Sessions
  PROVE  /\ s \in sessionsById => Status(s) = IF paired[s] THEN "paired" ELSE "waiting"
         /\ s \notin sessionsById => Status(s) = IF code[s] = None THEN "unborn" ELSE "gone"
BY DEF IndInv, BornBeforeUse, Status

\* A step that touches no session's record and the seats of one session only is
\* that session being attended or left, or nothing the abstraction sees.
LEMMA SeatStep ==
  ASSUME IndInv, UNCHANGED <<code, sessionsById, paired>>, NEW s \in Sessions,
         \A t \in Sessions \ {s} : Empty(t)' = Empty(t)
  PROVE  [Lifecycle!Next]_(Lifecycle!vars)
<1> DEFINE status == [t \in Sessions |-> Status(t)]
           attended == [t \in Sessions |-> t \in sessionsById /\ ~Empty(t)]
<1>1. status' = status
  BY DEF Status
<1>2. \A t \in Sessions \ {s} : attended'[t] = attended[t]
  OBVIOUS
<1>3. attended'[s] \in BOOLEAN /\ attended[s] \in BOOLEAN
  OBVIOUS
<1>4. attended[s] => status[s] \in {"waiting", "paired"}
  BY StatusOf
<1>5. attended'[s] => status[s] \in {"waiting", "paired"}
  BY StatusOf
<1>6. attended \in [Sessions -> BOOLEAN] /\ attended' \in [Sessions -> BOOLEAN]
  OBVIOUS
<1> HIDE DEF status, attended
<1>7. CASE attended'[s] = attended[s]
  <2>1. attended' = attended
    BY <1>2, <1>6, <1>7
  <2> QED BY <1>1, <2>1 DEF Lifecycle!vars, status, attended
<1>8. CASE attended'[s] /\ ~attended[s]
  <2>1. attended' = [attended EXCEPT ![s] = TRUE]
    BY <1>2, <1>6, <1>8
  <2>2. Lifecycle!Attend(s)
    BY <1>1, <1>5, <1>8, <2>1 DEF Lifecycle!Attend, Lifecycle!Live, status, attended
  <2> QED BY <2>2 DEF Lifecycle!Next
<1>9. CASE ~attended'[s] /\ attended[s]
  <2>1. attended' = [attended EXCEPT ![s] = FALSE]
    BY <1>2, <1>6, <1>9
  <2>2. Lifecycle!Depart(s)
    BY <1>1, <1>9, <2>1 DEF Lifecycle!Depart, status, attended
  <2> QED BY <2>2 DEF Lifecycle!Next
<1> QED BY <1>3, <1>7, <1>8, <1>9

\* Telling a peer's side touches the seats of its own session only.
LEMMA ClassifyIsLocal ==
  ASSUME TypeOK, NEW w \in Sockets, NEW type, Classify(w, type), NEW t \in Sessions, t # owner[w]
  PROVE  Empty(t)' = Empty(t)
BY DEF Classify, AttachPeer, Empty, TypeOK

\* Session.destroy removes sessions, as far as they were still there.
LEMMA DestroyStep ==
  ASSUME IndInv, NEW gone \in SUBSET sessionsById, Destroy(gone)
  PROVE  Lifecycle!Remove(gone)
<1>1. gone \subseteq Sessions /\ UNCHANGED <<code, paired, cliWs, mobileWs>> /\ sessionsById' = sessionsById \ gone
  BY DEF IndInv, TypeOK, Destroy
<1>2. \A s \in Sessions : Status(s)' = IF s \in gone THEN "gone" ELSE Status(s)
  BY <1>1 DEF IndInv, BornBeforeUse, Status
<1>3. \A s \in Sessions : (s \in sessionsById /\ ~Empty(s))' = ((s \in sessionsById /\ ~Empty(s)) /\ s \notin gone)
  BY <1>1 DEF Empty
<1> QED BY <1>2, <1>3 DEF Lifecycle!Remove

\* A removal of one session is a step of the abstract life of a session.
LEMMA DestroyOneStep ==
  ASSUME IndInv, NEW s \in Sessions, Destroy({s})
  PROVE  [Lifecycle!Next]_(Lifecycle!vars)
<1>1. CASE s \in sessionsById
  <2>1. Lifecycle!Remove({s})
    BY <1>1, DestroyStep
  <2>2. Status(s) \in {"waiting", "paired"}
    BY <1>1, StatusOf
  <2>3. Lifecycle!Kill(s)
    BY <2>1, <2>2 DEF Lifecycle!Kill, Lifecycle!Live
  <2> QED BY <2>3 DEF Lifecycle!Next
<1>2. CASE s \notin sessionsById
  <2>1. UNCHANGED <<code, paired, cliWs, mobileWs, sessionsById>>
    BY <1>2 DEF Destroy
  <2> QED BY <2>1, SeatStep DEF Empty
<1> QED BY <1>1, <1>2

\* A registration is the birth of an abstract session.
LEMMA RegisterStep ==
  ASSUME IndInv, NEW s \in Sessions, NEW c \in Codes, Register(s, c)
  PROVE  Lifecycle!Register(s)
<1>1. /\ sessionsById' = sessionsById \cup {s} /\ code[s] = None /\ code'[s] # None
      /\ \A t \in Sessions \ {s} : code'[t] = code[t]
      /\ UNCHANGED <<paired, cliWs, mobileWs>>
  BY DEF IndInv, TypeOK, Register
<1>2. s \notin sessionsById /\ ~paired[s]
  BY <1>1 DEF IndInv, BornBeforeUse
<1>3. Status(s) = "unborn" /\ Status(s)' = "waiting"
  BY <1>1, <1>2 DEF Status
<1>4. \A t \in Sessions \ {s} : Status(t)' = Status(t)
  BY <1>1 DEF Status
<1>5. Empty(s)
  BY <1>1 DEF IndInv, TypeOK, BornBeforeUse, SeatsHoldTheirPeers, Empty
<1>6. \A t \in Sessions : (t \in sessionsById /\ ~Empty(t))' = (t \in sessionsById /\ ~Empty(t))
  BY <1>1, <1>2, <1>5 DEF Empty
<1> QED BY <1>3, <1>4, <1>6 DEF Lifecycle!Register

\* Pairing counts once, and only while the session is still there.
LEMMA MobilePairingStep ==
  ASSUME IndInv, NEW w \in Sockets, MobilePairing(w)
  PROVE  [Lifecycle!Next]_(Lifecycle!vars)
<1>1. TypeOK /\ SeatInv /\ owner[w] \in Sessions /\ readyState[w] \in {"open", "closing"} /\ owner[w] # None
  BY DEF IndInv, SeatInv, MobilePairing, Delivers, TypeOK
<1> PICK s \in Sessions : s = owner[w]
  BY <1>1
<1>2. /\ UNCHANGED <<sessionsById, code, owner>> /\ paired' = [paired EXCEPT ![s] = TRUE]
      /\ Classify(w, "mobile_pairing")
  BY DEF MobilePairing
<1>3. /\ \A t \in Sessions \ {s} : Empty(t)' = Empty(t)
      /\ Empty(s)' => Empty(s)
  BY <1>1, <1>2, ClassifyKeepsSeats, ClassifyIsLocal
<1>4. CASE paired[s]
  <2>1. paired' = paired
    BY <1>1, <1>2, <1>4 DEF TypeOK
  <2> QED BY <1>2, <1>3, <2>1, SeatStep
<1>5. CASE s \notin sessionsById
  <2>1. \A t \in Sessions : Status(t)' = Status(t)
    BY <1>1, <1>2, <1>5 DEF Status, TypeOK
  <2>2. \A t \in Sessions : (t \in sessionsById /\ ~Empty(t))' = (t \in sessionsById /\ ~Empty(t))
    BY <1>2, <1>3, <1>5
  <2> QED BY <2>1, <2>2 DEF Lifecycle!vars
<1>6. CASE s \in sessionsById /\ ~paired[s]
  <2> DEFINE status == [t \in Sessions |-> Status(t)]
             attended == [t \in Sessions |-> t \in sessionsById /\ ~Empty(t)]
  <2>1. \A t \in Sessions \ {s} : Status(t)' = Status(t)
    BY <1>1, <1>2 DEF Status, TypeOK
  <2>2. Status(s) = "waiting"
    BY <1>6, StatusOf
  <2>3. Status(s)' = "paired"
    BY <1>1, <1>2, <1>6 DEF IndInv, BornBeforeUse, Status, TypeOK
  <2>4. status[s] = "waiting" /\ status' = [status EXCEPT ![s] = "paired"]
    BY <2>1, <2>2, <2>3
  <2>5. attended'[s] \in {attended[s], TRUE}
    BY <1>2, <1>3
  <2>6. \A t \in Sessions \ {s} : attended'[t] = attended[t]
    BY <1>2, <1>3
  <2>7. attended' = [attended EXCEPT ![s] = attended'[s]]
    BY <2>6
  <2> HIDE DEF status, attended
  <2>8. Lifecycle!Pair(s)
    BY <2>4, <2>5, <2>7 DEF Lifecycle!Pair, status, attended
  <2> QED BY <2>8 DEF Lifecycle!Next
<1> QED BY <1>4, <1>5, <1>6

\* The relay implements the life of a session: no order of connections, messages,
\* close events, timers and requests makes a session skip a stage, come back, or
\* be paired after it is gone.
THEOREM Implementation == SafeSpec => Lifecycle!SafeSpec
<1>1. Init => Lifecycle!Init
  BY DEF Init, Lifecycle!Init, Status, Empty
<1>2. ASSUME IndInv, [Next]_vars PROVE [Lifecycle!Next]_(Lifecycle!vars)
  <2>1. CASE UNCHANGED vars
    BY <2>1 DEF vars, registry, Lifecycle!vars, Status, Empty
  <2>2. CASE Shutdown
    <3> PICK gone \in SUBSET sessionsById : gone = sessionsById
      OBVIOUS
    <3>1. Lifecycle!Remove(gone)
      BY <1>2, <2>2, DestroyStep DEF Shutdown
    <3>2. {s \in Sessions : Status(s) \in {"waiting", "paired"}} = sessionsById
      BY <1>2, StatusOf DEF IndInv, TypeOK
    <3>3. Lifecycle!Shutdown
      BY <3>1, <3>2 DEF Lifecycle!Shutdown, Lifecycle!Live, Lifecycle!Remove
    <3> QED BY <3>3 DEF Lifecycle!Next
  <2>3. ASSUME NEW s \in Sessions, NEW c \in Codes, Register(s, c) PROVE Lifecycle!Next
    BY <1>2, <2>3, RegisterStep DEF Lifecycle!Next
  <2>4. ASSUME NEW s \in Sessions, PairingExpires(s) \/ ReapFires(s) \/ Kill(s)
        PROVE  [Lifecycle!Next]_(Lifecycle!vars)
    BY <1>2, <2>4, DestroyOneStep DEF PairingExpires, ReapFires, Kill
  <2>5. ASSUME NEW s \in Sessions, HeartbeatTick(s) PROVE UNCHANGED (Lifecycle!vars)
    BY <2>5 DEF HeartbeatTick, registry, Lifecycle!vars, Status, Empty
  <2>6. ASSUME NEW w \in Sockets, NEW s \in Sessions, Connect(w, s) PROVE [Lifecycle!Next]_(Lifecycle!vars)
    <3>1. UNCHANGED <<code, sessionsById, paired>>
      BY <2>6 DEF Connect, registry
    <3>2. \A t \in Sessions \ {s} : Empty(t)' = Empty(t)
      BY <1>2, <2>6 DEF Connect, AttachPeer, Empty, IndInv, TypeOK
    <3> QED BY <1>2, <3>1, <3>2, SeatStep
  <2>7. ASSUME NEW w \in Sockets, Refuse(w) \/ Other(w) \/ PeerCloses(w) PROVE UNCHANGED (Lifecycle!vars)
    BY <2>7 DEF Refuse, Other, PeerCloses, registry, Lifecycle!vars, Status, Empty
  <2>8. ASSUME NEW w \in Sockets,
               Pong(w) \/ Output(w) \/ KeylessPairing(w) \/ (\E type \in {"input", "catchup_request"} : Input(w, type))
        PROVE  [Lifecycle!Next]_(Lifecycle!vars)
    <3>1. UNCHANGED <<code, sessionsById, paired>>
      BY <2>8 DEF Pong, Output, KeylessPairing, Input, registry
    <3> PICK type : Classify(w, type)
      BY <2>8 DEF Pong, Output, KeylessPairing, Input
    <3>2. TypeOK /\ owner[w] \in Sessions
      BY <1>2, <2>8 DEF IndInv, TypeOK, Delivers, Pong, Output, KeylessPairing, Input
    <3> PICK s \in Sessions : s = owner[w]
      BY <3>2
    <3>3. \A t \in Sessions \ {s} : Empty(t)' = Empty(t)
      BY <3>2, ClassifyIsLocal
    <3> QED BY <1>2, <3>1, <3>3, SeatStep
  <2>9. ASSUME NEW w \in Sockets, MobilePairing(w) PROVE [Lifecycle!Next]_(Lifecycle!vars)
    BY <1>2, <2>9, MobilePairingStep
  <2>10. ASSUME NEW w \in Sockets, CloseEvent(w) PROVE [Lifecycle!Next]_(Lifecycle!vars)
    <3>1. UNCHANGED <<code, sessionsById, paired>>
      BY <2>10 DEF CloseEvent, registry
    <3>2. owner[w] \in Sessions
      BY <1>2, <2>10 DEF CloseEvent, IndInv, TypeOK, SocketsAreOwned
    <3> PICK s \in Sessions : s = owner[w]
      BY <3>2
    <3>3. \A t \in Sessions \ {s} : cliWs'[t] = cliWs[t] /\ mobileWs'[t] = mobileWs[t]
      BY <1>2, <2>10 DEF CloseEvent, Vacated, IndInv, TypeOK
    <3>4. \A t \in Sessions \ {s} : Empty(t)' = Empty(t)
      BY <3>3 DEF Empty
    <3> QED BY <1>2, <3>1, <3>4, SeatStep
  <2> QED BY <1>2, <2>1, <2>2, <2>3, <2>4, <2>5, <2>6, <2>7, <2>8, <2>9, <2>10 DEF Next, Message
<1> QED BY <1>1, <1>2, Invariance, PTL DEF SafeSpec, Lifecycle!SafeSpec
=============================================================================
