---------------------------- MODULE RelaySession ----------------------------
(***************************************************************************)
(* The relay's session registry and its WebSocket handlers (server.js).    *)
(*                                                                         *)
(* A session has two seats, cliWs and mobileWs.  The relay is not told     *)
(* which kind of program has dialled in: it guesses from the order of      *)
(* arrival and moves a peer to the other seat when the peer sends a        *)
(* message only the other kind produces.  Node runs one handler at a time, *)
(* so each action is one whole handler; what interleaves is the order in   *)
(* which connections, messages, close events, timers and operator requests *)
(* reach the event loop.                                                   *)
(*                                                                         *)
(* A socket is used for one connection.  Whose socket it really is shows   *)
(* in the set it belongs to, which the relay cannot see.                   *)
(*                                                                         *)
(* A definition called Slip... is a mistake that could be made in the one  *)
(* that follows; nothing uses it here, and the properties must notice it.  *)
(***************************************************************************)
EXTENDS Naturals, Sequences

CONSTANTS
  Sessions,        \* session ids that may be minted
  Codes,           \* pairing codes
  CliSockets,      \* connections made by the CLI
  PhoneSockets,    \* connections made by the phone
  SizedSessions,   \* sessions whose CLI reported a terminal size
  HeartbeatGrace,  \* pings that may go unanswered (4 in server.js)
  None             \* no session, no code, an empty seat

Sockets == CliSockets \cup PhoneSockets

ASSUME NoneAssumption == None \notin Sessions \cup Codes \cup Sockets
ASSUME KindAssumption == CliSockets \cap PhoneSockets = {}
ASSUME SizedAssumption == SizedSessions \subseteq Sessions
ASSUME GraceAssumption == HeartbeatGrace \in Nat

VARIABLES
  up,              \* the process has not begun to shut down
  sessionsByCode,  \* pairing code -> session, or None
  sessionsById,    \* the live sessions
  code,            \* the code a session was registered with, None if not yet
  paired,
  cliWs,           \* the CLI seat of each session
  mobileWs,        \* its phone seat
  heartbeatTimer,  \* timers that are armed
  reapTimer,
  pairingTimer,
  quiet,           \* heartbeats since the last pong, counted to HeartbeatGrace
  closedRecords,   \* 'closed' lines written to the event log
  readyState,      \* of each socket
  owner,           \* ws._session
  role,            \* ws._role
  goodbye,         \* the reason in the close frame the relay sent, if it did
  sent             \* what the last handler put on the wire, in order

registry == <<up, sessionsByCode, sessionsById, code, paired, closedRecords>>
vars == <<registry, cliWs, mobileWs, heartbeatTimer, reapTimer, pairingTimer,
          quiet, readyState, owner, role, goodbye, sent>>

-----------------------------------------------------------------------------
\* Messages.  "output" stands for output, catchup_batch and sync_complete,
\* "input" for input and resize: each group is handled alike.  "other" is any
\* type the relay does not know, and any binary frame.  The pairing message may
\* come without a key.
CliOnly == {"output", "pong"}
MobileOnly == {"input", "catchup_request", "mobile_pairing", "keyless_pairing"}
Forwarded == {"output", "input", "catchup_request", "other"}

\* What the relay itself says, and the reasons it closes with: the text of a
\* replacement names the kind of the newcomer.
Notices == {"client_connected", "client_disconnected", "cli_reconnected",
            "cli_disconnected", "pairing_complete", "pairing_ack",
            "session_info", "ping"}
Reasons == {"replaced_by_cli", "replaced_by_mobile", "session_expired",
            "pairing_expired", "refused"}

Frame == [to : Sockets, type : Forwarded \cup Notices, from : Sockets \cup {None}]

\* sendJSON: nothing is sent to an empty seat, nor to a socket not open.
SendIf(x, isOpen, type, from) ==
  IF x # None /\ isOpen THEN <<[to |-> x, type |-> type, from |-> from]>> ELSE <<>>
IsOpen(x) == x \in Sockets /\ readyState[x] = "open"
Send(x, type, from) == SendIf(x, IsOpen(x), type, from)

\* closeWithReason, for the open sockets of xs.  Until its close event a closing
\* socket still delivers what had arrived.
Closing(xs) == [w \in Sockets |-> IF w \in xs /\ IsOpen(w) THEN "closing" ELSE readyState[w]]
Told(xs, reason) == [w \in Sockets |-> IF w \in xs /\ IsOpen(w) THEN reason ELSE goodbye[w]]
CloseWithReason(xs, reason) == readyState' = Closing(xs) /\ goodbye' = Told(xs, reason)

Empty(s) == cliWs[s] = None /\ mobileWs[s] = None

-----------------------------------------------------------------------------
Init ==
  /\ up = TRUE
  /\ sessionsByCode = [c \in Codes |-> None]
  /\ sessionsById = {}
  /\ code = [s \in Sessions |-> None]
  /\ paired = [s \in Sessions |-> FALSE]
  /\ cliWs = [s \in Sessions |-> None]
  /\ mobileWs = [s \in Sessions |-> None]
  /\ heartbeatTimer = [s \in Sessions |-> FALSE]
  /\ reapTimer = [s \in Sessions |-> FALSE]
  /\ pairingTimer = [s \in Sessions |-> FALSE]
  /\ quiet = [s \in Sessions |-> 0]
  /\ closedRecords = [s \in Sessions |-> 0]
  /\ readyState = [w \in Sockets |-> "new"]
  /\ owner = [w \in Sockets |-> None]
  /\ role = [w \in Sockets |-> "none"]
  /\ goodbye = [w \in Sockets |-> "none"]
  /\ sent = <<>>

\* registerPairing: a session is created under a free code, and the code's
\* deadline starts to run.
Register(s, c) ==
  /\ up
  /\ code[s] = None
  /\ sessionsByCode[c] = None
  /\ code' = [code EXCEPT ![s] = c]
  /\ sessionsByCode' = [sessionsByCode EXCEPT ![c] = s]
  /\ sessionsById' = sessionsById \cup {s}
  /\ pairingTimer' = [pairingTimer EXCEPT ![s] = TRUE]
  /\ sent' = <<>>
  /\ UNCHANGED <<up, paired, cliWs, mobileWs, heartbeatTimer, reapTimer, quiet,
                 closedRecords, readyState, owner, role, goodbye>>

-----------------------------------------------------------------------------
\* Seating a peer (attachPeer).  Before it is given seat r, a peer that holds
\* the other seat gives it up (classifyByMessage).
CliSeat(s, w, r) ==
  CASE r = "cli" -> w
    [] r # "cli" /\ cliWs[s] = w -> None
    [] OTHER -> cliWs[s]

SlipMobileSeat(s, w, r) == IF r = "mobile" THEN w ELSE mobileWs[s]

MobileSeat(s, w, r) ==
  CASE r = "mobile" -> w
    [] r # "mobile" /\ mobileWs[s] = w -> None
    [] OTHER -> mobileWs[s]

SlipReplaced(s, w, r) == {}

\* Whoever sat there is told to go; its own close event comes later.
Replaced(s, w, r) == {IF r = "cli" THEN cliWs[s] ELSE mobileWs[s]} \ {w, None}

SlipReapCancelled(s) == reapTimer

ReapCancelled(s) == [reapTimer EXCEPT ![s] = FALSE]

SlipHeartbeatStarted(s) == heartbeatTimer

HeartbeatStarted(s) == [heartbeatTimer EXCEPT ![s] = TRUE]
ReplacedBy(r) == IF r = "cli" THEN "replaced_by_cli" ELSE "replaced_by_mobile"

AttachPeer(s, w, r) ==
  /\ role' = [role EXCEPT ![w] = r]
  /\ reapTimer' = ReapCancelled(s)
  /\ goodbye' = Told(Replaced(s, w, r), ReplacedBy(r))
  /\ cliWs' = [cliWs EXCEPT ![s] = CliSeat(s, w, r)]
  /\ mobileWs' = [mobileWs EXCEPT ![s] = MobileSeat(s, w, r)]
  /\ heartbeatTimer' = IF r = "cli" THEN HeartbeatStarted(s) ELSE heartbeatTimer

\* A CLI is told of a phone that is already there, and that phone of the CLI; a
\* phone is told the size of the terminal, and the CLI of the phone once the
\* session is paired.
AttachFrames(s, w, r, isOpen) ==
  IF r = "cli"
  THEN IF MobileSeat(s, w, r) = None THEN <<>>
       ELSE SendIf(w, isOpen, "client_connected", None)
            \o Send(MobileSeat(s, w, r), "cli_reconnected", None)
  ELSE SendIf(w, isOpen /\ s \in SizedSessions, "session_info", None)
       \o (IF paired[s] THEN Send(CliSeat(s, w, r), "client_connected", None) ELSE <<>>)

\* wss 'connection': the session is found by its code or by its id, and the
\* first socket to arrive is taken for the CLI.
FoundBy(s) == s \in sessionsById \/ \E c \in Codes : sessionsByCode[c] = s
RoleOnArrival(s) == IF cliWs[s] = None THEN "cli" ELSE "mobile"

Connect(w, s) ==
  /\ up
  /\ readyState[w] = "new"
  /\ FoundBy(s)
  /\ owner' = [owner EXCEPT ![w] = s]
  /\ AttachPeer(s, w, RoleOnArrival(s))
  /\ quiet' = IF RoleOnArrival(s) = "cli" THEN [quiet EXCEPT ![s] = 0] ELSE quiet
  /\ readyState' = [Closing(Replaced(s, w, RoleOnArrival(s))) EXCEPT ![w] = "open"]
  /\ sent' = AttachFrames(s, w, RoleOnArrival(s), TRUE)
  /\ UNCHANGED <<registry, pairingTimer>>

\* No code and no id, too many attempts, or no such session: the socket is told
\* so and closed, and no handler is ever attached to it.
Refuse(w) ==
  /\ up
  /\ readyState[w] = "new"
  /\ readyState' = [readyState EXCEPT ![w] = "closed"]
  /\ goodbye' = [goodbye EXCEPT ![w] = "refused"]
  /\ sent' = <<>>
  /\ UNCHANGED <<registry, cliWs, mobileWs, heartbeatTimer, reapTimer,
                 pairingTimer, quiet, owner, role>>

-----------------------------------------------------------------------------
\* Messages.  Delivers(w, kind): a socket of that kind hands the relay one.
Delivers(w, kind) == w \in kind /\ readyState[w] \in {"open", "closing"} /\ owner[w] # None

\* classifyByMessage: the seat a message type betrays.
ShouldBe(w, type) ==
  CASE type \in CliOnly -> "cli"
    [] type \in MobileOnly -> "mobile"
    [] OTHER -> role[w]

Classify(w, type) ==
  LET r == ShouldBe(w, type)
  IN IF r = role[w]
     THEN /\ readyState' = readyState
          /\ UNCHANGED <<role, goodbye, reapTimer, cliWs, mobileWs, heartbeatTimer>>
     ELSE /\ AttachPeer(owner[w], w, r)
          /\ readyState' = Closing(Replaced(owner[w], w, r))

ClassifyFrames(w, type) ==
  LET r == ShouldBe(w, type)
  IN IF r = role[w] THEN <<>>
     ELSE AttachFrames(owner[w], w, r, IsOpen(w))

\* The seats as the rest of the handler finds them.
CliNow(w, type) ==
  LET r == ShouldBe(w, type)
  IN IF r = role[w] THEN cliWs[owner[w]] ELSE CliSeat(owner[w], w, r)
MobileNow(w, type) ==
  LET r == ShouldBe(w, type)
  IN IF r = role[w] THEN mobileWs[owner[w]] ELSE MobileSeat(owner[w], w, r)

\* lastPong is refreshed by a pong, and by taking the CLI seat.
Heard(w, type) ==
  IF type = "pong" \/ (ShouldBe(w, type) = "cli" /\ role[w] # "cli")
  THEN [quiet EXCEPT ![owner[w]] = 0] ELSE quiet

Pong(w) ==
  /\ Delivers(w, CliSockets)
  /\ Classify(w, "pong")
  /\ quiet' = Heard(w, "pong")
  /\ sent' = ClassifyFrames(w, "pong")
  /\ UNCHANGED <<registry, pairingTimer, owner>>

\* output goes to the phone's seat; input and catchup_request to the CLI's.
Output(w) ==
  /\ Delivers(w, CliSockets)
  /\ Classify(w, "output")
  /\ quiet' = Heard(w, "output")
  /\ sent' = ClassifyFrames(w, "output") \o Send(MobileNow(w, "output"), "output", w)
  /\ UNCHANGED <<registry, pairingTimer, owner>>

Input(w, type) ==
  /\ Delivers(w, PhoneSockets)
  /\ type \in {"input", "catchup_request"}
  /\ Classify(w, type)
  /\ quiet' = Heard(w, type)
  /\ sent' = ClassifyFrames(w, type) \o Send(CliNow(w, type), type, w)
  /\ UNCHANGED <<registry, pairingTimer, owner>>

SlipAcross(w) == IF role[w] = "cli" THEN cliWs[owner[w]] ELSE mobileWs[owner[w]]

\* Anything else is forwarded to the seat across from the sender's role.
Across(w) == IF role[w] = "cli" THEN mobileWs[owner[w]] ELSE cliWs[owner[w]]

Other(w) ==
  /\ Delivers(w, Sockets)
  /\ sent' = Send(Across(w), "other", w)
  /\ UNCHANGED <<registry, cliWs, mobileWs, heartbeatTimer, reapTimer, pairingTimer,
                 quiet, readyState, owner, role, goodbye>>

SlipCodesWithout(s) == sessionsByCode

CodesWithout(s) ==
  [c \in Codes |-> IF c = code[s] THEN None ELSE sessionsByCode[c]]

PairingCancelled(s) == [pairingTimer EXCEPT ![s] = FALSE]

\* mobile_pairing: the session is paired, its deadline is cancelled and its
\* code is dropped; the CLI gets the key before it may start streaming.
MobilePairing(w) ==
  LET s == owner[w]
      cli == CliNow(w, "mobile_pairing")
      phone == MobileNow(w, "mobile_pairing")
  IN /\ Delivers(w, PhoneSockets)
     /\ Classify(w, "mobile_pairing")
     /\ quiet' = Heard(w, "mobile_pairing")
     /\ paired' = [paired EXCEPT ![s] = TRUE]
     /\ pairingTimer' = PairingCancelled(s)
     /\ sessionsByCode' = CodesWithout(s)
     /\ sent' = ClassifyFrames(w, "mobile_pairing")
                \o Send(cli, "pairing_complete", w)
                \o Send(phone, "pairing_ack", None)
                \o Send(cli, "client_connected", None)
     /\ UNCHANGED <<up, sessionsById, code, closedRecords, owner>>

\* Without a key the message is ignored, but it has told the phone apart.
KeylessPairing(w) ==
  /\ Delivers(w, PhoneSockets)
  /\ Classify(w, "keyless_pairing")
  /\ quiet' = Heard(w, "keyless_pairing")
  /\ sent' = ClassifyFrames(w, "keyless_pairing")
  /\ UNCHANGED <<registry, pairingTimer, owner>>

-----------------------------------------------------------------------------
\* The peer closes, or its connection breaks; the close event comes later.
PeerCloses(w) ==
  /\ readyState[w] = "open"
  /\ readyState' = [readyState EXCEPT ![w] = "closing"]
  /\ sent' = <<>>
  /\ UNCHANGED <<registry, cliWs, mobileWs, heartbeatTimer, reapTimer,
                 pairingTimer, quiet, owner, role, goodbye>>

SlipVacated(seat, s, w) == [seat EXCEPT ![s] = None]

Vacated(seat, s, w) == [seat EXCEPT ![s] = IF @ = w THEN None ELSE @]

SlipReapArmed(s, nobodyLeft) == reapTimer

ReapArmed(s, nobodyLeft) == [reapTimer EXCEPT ![s] = @ \/ nobodyLeft]

\* handleDisconnect: a seat is vacated only by the socket that holds it, and
\* the last to leave starts the idle limit.
CloseEvent(w) ==
  LET s == owner[w]
      wasCli == cliWs[s] = w
      wasMobile == ~wasCli /\ mobileWs[s] = w
  IN /\ readyState[w] = "closing"
     /\ readyState' = [readyState EXCEPT ![w] = "closed"]
     /\ cliWs' = Vacated(cliWs, s, w)
     /\ mobileWs' = IF wasMobile THEN Vacated(mobileWs, s, w) ELSE mobileWs
     /\ heartbeatTimer' = IF wasCli THEN [heartbeatTimer EXCEPT ![s] = FALSE]
                          ELSE heartbeatTimer
     /\ reapTimer' = ReapArmed(s, cliWs'[s] = None /\ mobileWs'[s] = None)
     /\ sent' = CASE wasCli -> Send(mobileWs[s], "cli_disconnected", None)
                  [] wasMobile -> Send(cliWs[s], "client_disconnected", None)
                  [] OTHER -> <<>>
     /\ UNCHANGED <<registry, pairingTimer, quiet, owner, role, goodbye>>

-----------------------------------------------------------------------------
HeartbeatStops(s) ==
  /\ ~IsOpen(cliWs[s])
  /\ heartbeatTimer' = [heartbeatTimer EXCEPT ![s] = FALSE]
  /\ sent' = <<>>
  /\ UNCHANGED <<readyState, quiet>>

SlipHeartbeatCutsOff(s) ==
  /\ IsOpen(cliWs[s])
  /\ quiet[s] = HeartbeatGrace
  /\ sent' = <<>>
  /\ UNCHANGED <<readyState, heartbeatTimer, quiet>>

HeartbeatCutsOff(s) ==
  /\ IsOpen(cliWs[s])
  /\ quiet[s] = HeartbeatGrace
  /\ readyState' = Closing({cliWs[s]})
  /\ sent' = <<>>
  /\ UNCHANGED <<heartbeatTimer, quiet>>

HeartbeatPings(s) ==
  /\ IsOpen(cliWs[s])
  /\ quiet[s] < HeartbeatGrace
  /\ quiet' = [quiet EXCEPT ![s] = @ + 1]
  /\ sent' = Send(cliWs[s], "ping", None)
  /\ UNCHANGED <<heartbeatTimer, readyState>>

\* startHeartbeat: each tick stops the timer when the CLI is no longer there,
\* cuts off a CLI that has been silent too long, and pings it otherwise.
HeartbeatTick(s) ==
  /\ up
  /\ heartbeatTimer[s]
  /\ HeartbeatStops(s) \/ HeartbeatCutsOff(s) \/ HeartbeatPings(s)
  /\ UNCHANGED <<registry, cliWs, mobileWs, reapTimer, pairingTimer, owner, role,
                 goodbye>>

-----------------------------------------------------------------------------
\* Session.destroy, for each session of gone.
Destroy(gone) ==
  /\ closedRecords' = [s \in Sessions |-> closedRecords[s] + (IF s \in gone THEN 1 ELSE 0)]
  /\ heartbeatTimer' = [s \in Sessions |-> heartbeatTimer[s] /\ s \notin gone]
  /\ reapTimer' = [s \in Sessions |-> reapTimer[s] /\ s \notin gone]
  /\ pairingTimer' = [s \in Sessions |-> pairingTimer[s] /\ s \notin gone]
  /\ sessionsByCode' = [c \in Codes |-> IF \E s \in gone : code[s] = c THEN None
                                        ELSE sessionsByCode[c]]
  /\ sessionsById' = sessionsById \ gone
  /\ UNCHANGED <<code, paired, cliWs, mobileWs, quiet, owner, role>>

\* The pairing deadline closes the CLI and removes the session.
PairingExpires(s) ==
  /\ up
  /\ pairingTimer[s]
  /\ ~paired[s]
  /\ CloseWithReason({cliWs[s]}, "pairing_expired")
  /\ sent' = <<>>
  /\ Destroy({s})
  /\ UNCHANGED up

\* The idle limit, checked once more when it fires.
ReapFires(s) ==
  /\ up
  /\ reapTimer[s]
  /\ Empty(s)
  /\ sent' = <<>>
  /\ Destroy({s})
  /\ UNCHANGED <<up, readyState, goodbye>>

SlipKill(s) ==
  /\ up
  /\ s \in sessionsById
  /\ CloseWithReason({cliWs[s]}, "session_expired")
  /\ sent' = <<>>
  /\ Destroy({s})
  /\ UNCHANGED up

\* The dashboard's kill request.
Kill(s) ==
  /\ up
  /\ s \in sessionsById
  /\ CloseWithReason({cliWs[s], mobileWs[s]}, "session_expired")
  /\ sent' = <<>>
  /\ Destroy({s})
  /\ UNCHANGED up

\* SIGINT or SIGTERM.  The process exits within two seconds, so no request is
\* accepted and no timer fires any more; sockets may still report.
Shutdown ==
  /\ up
  /\ up' = FALSE
  /\ CloseWithReason(UNION {{cliWs[s], mobileWs[s]} : s \in sessionsById}, "session_expired")
  /\ sent' = <<>>
  /\ Destroy(sessionsById)

-----------------------------------------------------------------------------
Message(w) ==
  \/ Pong(w) \/ Output(w) \/ Other(w) \/ MobilePairing(w) \/ KeylessPairing(w)
  \/ \E type \in {"input", "catchup_request"} : Input(w, type)

Next ==
  \/ Shutdown
  \/ \E s \in Sessions : \/ \E c \in Codes : Register(s, c)
                         \/ HeartbeatTick(s) \/ PairingExpires(s)
                         \/ ReapFires(s) \/ Kill(s)
  \/ \E w \in Sockets : \/ \E s \in Sessions : Connect(w, s)
                        \/ Refuse(w) \/ Message(w) \/ PeerCloses(w) \/ CloseEvent(w)

\* Timers fire, and a socket that was asked to close, or whose peer did, reports
\* it: the ws library destroys one that does not answer.  Nobody has to connect,
\* to send, or to go.
Fairness ==
  /\ \A s \in Sessions : /\ WF_vars(HeartbeatTick(s)) /\ WF_vars(PairingExpires(s))
                         /\ WF_vars(ReapFires(s))
  /\ \A w \in Sockets : WF_vars(CloseEvent(w))

SafeSpec == Init /\ [][Next]_vars
Spec == SafeSpec /\ Fairness
-----------------------------------------------------------------------------
(* Invariants *)

TypeOK ==
  /\ up \in BOOLEAN
  /\ sessionsByCode \in [Codes -> Sessions \cup {None}]
  /\ sessionsById \subseteq Sessions
  /\ code \in [Sessions -> Codes \cup {None}]
  /\ paired \in [Sessions -> BOOLEAN]
  /\ cliWs \in [Sessions -> Sockets \cup {None}]
  /\ mobileWs \in [Sessions -> Sockets \cup {None}]
  /\ heartbeatTimer \in [Sessions -> BOOLEAN]
  /\ reapTimer \in [Sessions -> BOOLEAN]
  /\ pairingTimer \in [Sessions -> BOOLEAN]
  /\ quiet \in [Sessions -> 0 .. HeartbeatGrace]
  /\ closedRecords \in [Sessions -> Nat]
  /\ readyState \in [Sockets -> {"new", "open", "closing", "closed"}]
  /\ owner \in [Sockets -> Sessions \cup {None}]
  /\ role \in [Sockets -> {"none", "cli", "mobile"}]
  /\ goodbye \in [Sockets -> Reasons \cup {"none"}]
  /\ sent \in Seq(Frame)

\* The two indexes agree (server.js:156): a code leads to a live session that
\* was registered under it and still waits for its phone.
RegistryConsistent ==
  \A c \in Codes : LET s == sessionsByCode[c]
                   IN s # None => s \in sessionsById /\ code[s] = c /\ ~paired[s]

\* A seat holds a peer of its session and of its role that has not finished
\* closing, whatever the order of replacements, moves and late close events
\* (attachPeer, classifyByMessage, handleDisconnect).
SeatsHoldTheirPeers ==
  \A s \in Sessions :
    /\ cliWs[s] # None =>
         /\ owner[cliWs[s]] = s /\ role[cliWs[s]] = "cli"
         /\ readyState[cliWs[s]] \in {"open", "closing"}
    /\ mobileWs[s] # None =>
         /\ owner[mobileWs[s]] = s /\ role[mobileWs[s]] = "mobile"
         /\ readyState[mobileWs[s]] \in {"open", "closing"}

\* No open connection is left without a seat, where nothing would reach it and
\* nothing would ever close it: a peer that loses its seat is being closed
\* (server.js:785, 805).
EveryOpenPeerIsSeated ==
  \A w \in Sockets : readyState[w] = "open" => w \in {cliWs[owner[w]], mobileWs[owner[w]]}

\* A live session that nobody attends has a deadline: the idle limit once a peer
\* has been there, the pairing deadline before (server.js:522, 951).
UnattendedIsTimed ==
  \A s \in sessionsById :
    Empty(s) => reapTimer[s] \/ (pairingTimer[s] /\ \A w \in Sockets : owner[w] # s)

\* The idle limit never runs on a session in use, so it cannot remove one that
\* has come back (server.js:779, FIXES.md 8).
ReapTimerMeansEmpty == \A s \in Sessions : reapTimer[s] => Empty(s)

\* The pairing deadline runs exactly while a live session is unclaimed
\* (server.js:522, 893).
PairingDeadline ==
  \A s \in Sessions : pairingTimer[s] <=> (s \in sessionsById /\ ~paired[s])

\* Whoever sits open in the CLI seat is under heartbeat watch, also after the
\* peer was moved there or the seat changed hands (server.js:788, 959).
SeatedCliIsWatched ==
  \A s \in Sessions : IsOpen(cliWs[s]) => heartbeatTimer[s]

\* What one peer sends reaches another peer of its own session, never itself
\* (server.js:928, FIXES.md 9).
ForwardedWithinSession ==
  \A i \in DOMAIN sent :
    sent[i].type \in Forwarded =>
      sent[i].to # sent[i].from /\ owner[sent[i].to] = owner[sent[i].from]

\* A session is used only after it was registered: before, it is in no index,
\* not paired, and no connection belongs to it (server.js:512).
BornBeforeUse ==
  \A s \in Sessions : code[s] = None =>
    s \notin sessionsById /\ ~paired[s] /\ \A w \in Sockets : owner[w] # s

\* A connection has a session and a role from its arrival on (server.js:739).
SocketsAreOwned ==
  \A w \in Sockets :
    /\ readyState[w] = "new" => owner[w] = None
    /\ readyState[w] \in {"open", "closing"} => owner[w] # None /\ role[w] # "none"

\* All of these hold together, and together they are inductive: no step of the
\* relay leaves them (the invariant of the proofs).
IndInv ==
  /\ TypeOK
  /\ RegistryConsistent /\ BornBeforeUse /\ PairingDeadline
  /\ SocketsAreOwned /\ SeatsHoldTheirPeers /\ EveryOpenPeerIsSeated
  /\ ReapTimerMeansEmpty /\ SeatedCliIsWatched /\ UnattendedIsTimed
  /\ ForwardedWithinSession

-----------------------------------------------------------------------------
(* Action properties *)

\* A paired session is never taken away under an open peer without telling it
\* so: the idle and pairing timers cannot, the operator's kill and the shutdown
\* close both ends (server.js:599, 1019).
PairedRemovalTellsPeers ==
  [][\A s \in sessionsById \ sessionsById' : paired[s] =>
       \A w \in Sockets : owner[w] = s /\ readyState[w] = "open" =>
         readyState'[w] = "closing" /\ goodbye'[w] = "session_expired"]_vars

\* A peer leaves a seat by moving to the other, or because its connection is
\* closing: never silently (server.js:784, 804, 839, 939).
NobodyIsUnseatedSilently ==
  [][\A w \in Sockets, s \in Sessions :
       w \in {cliWs[s], mobileWs[s]} /\ w \notin {cliWs'[s], mobileWs'[s]} =>
         readyState'[w] # "open"]_vars

-----------------------------------------------------------------------------
(* Liveness and refinement *)

\* The relay does not keep a CLI that has stopped answering: sooner or later it
\* answers or its seat is free (server.js:969).
SilentCliGoes ==
  \A s \in Sessions, w \in Sockets : []<>(~up \/ cliWs[s] # w \/ quiet[s] = 0)

\* What its liveness rests on: while a CLI keeps its seat, only a pong makes its silence
\* shorter, its own or one its session's CLI before it had sent (server.js:852-855,
\* 969-977).
OnlyPongsBreakSilence ==
  [][\A s \in Sessions :
       cliWs[s] # None /\ cliWs'[s] = cliWs[s] /\ quiet'[s] < quiet[s] =>
         \E w \in CliSockets : owner[w] = s /\ Pong(w)]_vars

Status(s) ==
  CASE code[s] = None -> "unborn"
    [] code[s] # None /\ s \notin sessionsById -> "gone"
    [] OTHER -> IF paired[s] THEN "paired" ELSE "waiting"

\* The relay implements the life of a session, deadlines included.
Lifecycle == INSTANCE SessionLifecycle WITH
  status <- [s \in Sessions |-> Status(s)],
  attended <- [s \in Sessions |-> s \in sessionsById /\ ~Empty(s)]

ImplementsLifecycle == Lifecycle!Spec

-----------------------------------------------------------------------------
(* What comments and documents say, and the code does not do *)

\* A peer is told that it was replaced only by a peer of its own kind, the CLI by
\* "a newer CLI connection", the phone by "a newer mobile connection": "the first
\* socket on a session is the CLI and any later one is the mobile.
\* classifyByMessage() corrects this if the assumption ever fails" (server.js:742).
Newcomer(w) == IF role[w] = "cli" THEN cliWs'[owner[w]] ELSE mobileWs'[owner[w]]

ReplacedByOwnKind ==
  [][\A w \in Sockets :
       goodbye[w] # goodbye'[w] /\ goodbye'[w] \in {"replaced_by_cli", "replaced_by_mobile"} =>
         (w \in CliSockets <=> Newcomer(w) \in CliSockets)]_vars

\* A session closes once in the event log: "only what a session looked like at
\* each transition - created, paired, closed" (history.js:5).
ClosedIsRecordedOnce == \A s \in Sessions : closedRecords[s] <= 1

\* A live session keeps its code until it is paired: "pairing code -> Session
\* (dropped once paired)" (server.js:156).
CodeIsKeptUntilPaired ==
  \A s \in sessionsById : ~paired[s] => sessionsByCode[code[s]] = s

\* The CLI hears of a phone only once it has the key: "client_connected waits
\* until mobile_pairing completes" (server.js:823).
PhoneIsAnnouncedOnceKeyed ==
  \A i \in DOMAIN sent : sent[i].type = "client_connected" => paired[owner[sent[i].to]]

\* A phone is acknowledged only into a session that still exists: "Unclaimed
\* codes are now reaped" (FIXES.md:72).
AckedSessionIsLive ==
  \A i \in DOMAIN sent : sent[i].type = "pairing_ack" => owner[sent[i].to] \in sessionsById
=============================================================================
