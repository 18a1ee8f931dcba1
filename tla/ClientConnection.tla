-------------------------- MODULE ClientConnection --------------------------
(***************************************************************************)
(* The web client's line to the relay (public/termly-client.js): the       *)
(* sockets it opens one after another, the two timers that reopen and      *)
(* probe them, and what it takes from the frames that arrive.  The relay   *)
(* and the CLI behind it appear only as far as the line can tell:          *)
(* RelaySession models them.  Output and its sequence numbers are in       *)
(* OutputReplay, the delays of the backoff are left out.                   *)
(*                                                                         *)
(* A slot stands for one WebSocket.  A slot whose socket both ends have    *)
(* forgotten is used again, so Slots bounds the sockets alive at one time; *)
(* MaxWire bounds the frames in flight on one of them and in the inbox,    *)
(* MaxCuts how often the network fails.                                    *)
(***************************************************************************)
EXTENDS Naturals, Sequences

CONSTANTS Slots, None, MaxWire, MaxCuts,
          Starts  \* the ways a session may begin: "pair", "restore"

ASSUME SlotAssumption == None \notin Slots
ASSUME BoundAssumption == MaxWire \in Nat \ {0} /\ MaxCuts \in Nat

VARIABLES
  ws, readyState, byCode,
  sessionId, aesKey,   \* whether the client has them
  restoring,           \* how far restore() has got
  closedByUser, reconnectTimer, probeTimer, cliOnline,
  inbox,               \* frames waiting to be handled, with their sockets
  deriving,            \* the handler of the first awaits its key
  status, verdict,     \* the last status emitted; sessionLost or fatal
  onLine,              \* navigator.onLine
  session, cliUp, mobileWs, attached,  \* at the relay
  toRelay, toClient, cut, cuts         \* on the wire

socketVars == <<ws, readyState, byCode>>
knownVars == <<sessionId, aesKey, restoring, closedByUser>>
timerVars == <<reconnectTimer, probeTimer>>
inboxVars == <<inbox, deriving>>
shownVars == <<cliOnline, status, verdict>>
clientVars == <<socketVars, knownVars, timerVars, inboxVars, shownVars>>
relayVars == <<session, cliUp, mobileWs, attached>>
wireVars == <<toRelay, toClient, cut, cuts>>
vars == <<clientVars, onLine, relayVars, wireVars>>

LostReasons == {"session_not_found", "session_expired"}
Reasons == LostReasons \cup {"pairing_expired", "rate_limited"}
Frames == {"pairing_ack", "sync_complete", "cli_disconnected", "cli_reconnected"}

TypeOK ==
  /\ ws \in Slots \cup {None}
  /\ readyState \in [Slots -> {"connecting", "open", "closing", "closed"}]
  /\ byCode \in [Slots -> BOOLEAN]
  /\ sessionId \in BOOLEAN /\ aesKey \in BOOLEAN /\ closedByUser \in BOOLEAN
  /\ reconnectTimer \in BOOLEAN /\ probeTimer \in BOOLEAN /\ cliOnline \in BOOLEAN
  /\ deriving \in BOOLEAN /\ onLine \in BOOLEAN /\ cliUp \in BOOLEAN
  /\ restoring \in {"no", "deriving", "opening"}
  /\ inbox \in Seq([from : Slots, frame : Frames])
  /\ deriving => inbox # <<>>
  /\ status \in {"connected", "CLI offline", "down"}
  /\ verdict \in {"none", "lost", "fatal"}
  /\ session \in {"waiting", "paired", "gone"}
  /\ mobileWs \in Slots \cup {None}
  /\ attached \in [Slots -> {"no", "yes", "closing"}]
  /\ toRelay \in [Slots -> Seq({"mobile_pairing", "catchup_request"})]
  /\ toClient \in [Slots -> Seq(Frames \cup Reasons)]
  /\ cut \in [Slots -> BOOLEAN]
  /\ cuts \in 0 .. MaxCuts

Init ==
  /\ ws = None /\ readyState = [w \in Slots |-> "closed"]
  /\ byCode = [w \in Slots |-> FALSE]
  /\ sessionId = FALSE /\ aesKey = FALSE /\ restoring = "no"
  /\ closedByUser = FALSE /\ reconnectTimer = FALSE /\ probeTimer = FALSE
  /\ cliOnline = TRUE /\ inbox = <<>> /\ deriving = FALSE
  /\ status = "down" /\ verdict = "none" /\ onLine = TRUE
  /\ \E s \in {IF how = "pair" THEN "waiting" ELSE "paired" : how \in Starts} : session = s
  /\ cliUp = TRUE /\ mobileWs = None /\ attached = [w \in Slots |-> "no"]
  /\ toRelay = [w \in Slots |-> <<>>] /\ toClient = [w \in Slots |-> <<>>]
  /\ cut = [w \in Slots |-> FALSE] /\ cuts = 0

connected == ws # None /\ readyState[ws] = "open"

Forgotten(w) ==
  /\ readyState[w] = "closed" /\ attached[w] = "no"
  /\ \A i \in DOMAIN inbox : inbox[i].from # w

-----------------------------------------------------------------------------
\* _open: a socket of its own, and nothing is done about the one before it.
Open(w, code) ==
  /\ Forgotten(w)
  /\ ws' = w
  /\ readyState' = [readyState EXCEPT ![w] = "connecting"]
  /\ byCode' = [byCode EXCEPT ![w] = code]
  /\ cut' = [cut EXCEPT ![w] = FALSE]
  /\ toRelay' = [toRelay EXCEPT ![w] = <<>>]
  /\ toClient' = [toClient EXCEPT ![w] = <<>>]
  /\ status' = "down" /\ verdict' = "none"
  /\ UNCHANGED cuts

\* send: this.ws takes the frame if it is open; a severed line swallows it.
Sent(frame) ==
  IF connected /\ ~cut[ws] THEN [toRelay EXCEPT ![ws] = Append(@, frame)] ELSE toRelay

Connect(w) ==
  /\ ws = None /\ session = "waiting" /\ ~closedByUser
  /\ Open(w, TRUE)
  /\ UNCHANGED <<knownVars, timerVars, cliOnline, inboxVars, onLine, relayVars>>

\* restore: the session is known at once, the key and the fingerprint only after
\* an await each, and the socket is opened last.
Restore ==
  /\ ws = None /\ session = "paired" /\ restoring = "no" /\ ~sessionId /\ ~closedByUser
  /\ sessionId' = TRUE
  /\ restoring' = "deriving"
  /\ UNCHANGED <<socketVars, aesKey, closedByUser, timerVars, shownVars, inboxVars,
                 onLine, relayVars, wireVars>>

RestoreDerives ==
  /\ restoring = "deriving"
  /\ aesKey' = TRUE
  /\ restoring' = "opening"
  /\ UNCHANGED <<socketVars, sessionId, closedByUser, timerVars, shownVars, inboxVars,
                 onLine, relayVars, wireVars>>

RestoreOpens(w) ==
  /\ restoring = "opening"
  /\ restoring' = "no"
  /\ Open(w, FALSE)
  /\ UNCHANGED <<sessionId, aesKey, closedByUser, timerVars, cliOnline, inboxVars,
                 onLine, relayVars>>

-----------------------------------------------------------------------------
\* onopen, on whichever socket: the frame goes out on this.ws.
Opened(w) ==
  /\ readyState[w] = "connecting"
  /\ attached[w] # "no" /\ ~cut[w]
  /\ readyState' = [readyState EXCEPT ![w] = "open"]
  /\ status' = IF aesKey THEN "down" ELSE status
  /\ LET frame == IF aesKey THEN "catchup_request" ELSE "mobile_pairing"
         target == IF ws = w \/ connected THEN ws ELSE None
     IN /\ target # None => Len(toRelay[target]) < MaxWire
        /\ toRelay' = IF target = None \/ cut[target] THEN toRelay
                      ELSE [toRelay EXCEPT ![target] = Append(@, frame)]
  /\ UNCHANGED <<ws, byCode, knownVars, timerVars, cliOnline, inboxVars, verdict,
                 onLine, relayVars, toClient, cut, cuts>>

\* parseCloseReason, and what the client makes of the relay's own rejection.
Verdict(reason) == IF reason \in LostReasons THEN "lost" ELSE "fatal"

SlipScheduleReconnect ==
  /\ verdict' = IF sessionId THEN verdict ELSE "fatal"
  /\ reconnectTimer' = (reconnectTimer \/ (aesKey /\ onLine))

\* _scheduleReconnect, once the closing has been reported.
ScheduleReconnect ==
  /\ verdict' = IF sessionId THEN verdict ELSE "fatal"
  /\ reconnectTimer' = (reconnectTimer \/ (sessionId /\ onLine))

\* onclose.  The probe is cleared whichever socket this is.  What is known of a
\* closed socket is forgotten.
OnClose(w, reason) ==
  /\ readyState' = [readyState EXCEPT ![w] = "closed"]
  /\ byCode' = [byCode EXCEPT ![w] = FALSE]
  /\ cut' = [cut EXCEPT ![w] = FALSE]
  /\ toClient' = [toClient EXCEPT ![w] = <<>>]
  /\ probeTimer' = FALSE
  /\ status' = IF w = ws THEN "down" ELSE status
  /\ CASE w = ws /\ reason \in Reasons ->
            /\ verdict' = Verdict(reason)
            /\ UNCHANGED reconnectTimer
       [] w = ws /\ reason \notin Reasons /\ ~closedByUser -> ScheduleReconnect
       [] OTHER -> UNCHANGED <<verdict, reconnectTimer>>

\* The line fails, or the far end is gone: the browser reports it, sooner or later.
Dropped(w) ==
  /\ \/ readyState[w] # "closed" /\ cut[w]
     \/ readyState[w] = "connecting" /\ ~onLine
     \/ readyState[w] = "closing"
     \/ readyState[w] = "open" /\ attached[w] = "no"
  /\ ~\E i \in DOMAIN toClient[w] : toClient[w][i] \in Reasons
  /\ OnClose(w, "dropped")
  /\ UNCHANGED <<ws, knownVars, cliOnline, inboxVars, onLine, relayVars, toRelay, cuts>>

\* A frame arrives; a closing socket drops what is not the end.
Arrives(w) ==
  /\ readyState[w] \in {"open", "closing"} /\ toClient[w] # <<>>
  /\ LET frame == Head(toClient[w])
     IN \/ /\ frame \in Reasons
           /\ OnClose(w, frame)
           /\ UNCHANGED inbox
        \/ /\ frame \notin Reasons
           /\ toClient' = [toClient EXCEPT ![w] = Tail(@)]
           /\ Len(inbox) < MaxWire
           /\ inbox' = IF readyState[w] = "open"
                       THEN Append(inbox, [from |-> w, frame |-> frame]) ELSE inbox
           /\ UNCHANGED <<readyState, byCode, cut, status, verdict, timerVars>>
  /\ UNCHANGED <<ws, knownVars, cliOnline, deriving, onLine, relayVars, toRelay, cuts>>

-----------------------------------------------------------------------------
SlipReconnectNow(w) ==
  /\ reconnectTimer' = FALSE
  /\ IF closedByUser \/ ~sessionId \/ ws # None
     THEN UNCHANGED <<socketVars, status, verdict, wireVars>>
     ELSE Open(w, FALSE)

SlipReconnectAnyway(w) ==
  /\ reconnectTimer' = FALSE
  /\ IF ~sessionId \/ connected
     THEN UNCHANGED <<socketVars, status, verdict, wireVars>>
     ELSE Open(w, FALSE)

\* _reconnectNow.
ReconnectNow(w) ==
  /\ reconnectTimer' = FALSE
  /\ IF closedByUser \/ ~sessionId \/ connected
     THEN UNCHANGED <<socketVars, status, verdict, wireVars>>
     ELSE Open(w, FALSE)

\* _probe: at most one at a time.
Probe ==
  /\ probeTimer \/ Len(toRelay[ws]) < MaxWire
  /\ toRelay' = IF probeTimer THEN toRelay ELSE Sent("catchup_request")
  /\ probeTimer' = TRUE

ReconnectTimerFires(w) ==
  /\ reconnectTimer
  /\ ReconnectNow(w)
  /\ UNCHANGED <<knownVars, probeTimer, cliOnline, inboxVars, onLine, relayVars>>

ProbeOrReconnect(w) ==
  /\ IF connected
     THEN Probe /\ UNCHANGED <<socketVars, status, verdict, reconnectTimer, toClient,
                               cut, cuts>>
     ELSE ReconnectNow(w) /\ UNCHANGED probeTimer
  /\ UNCHANGED <<knownVars, cliOnline, inboxVars, relayVars>>

\* wake: the page is seen again, or the network is back.
Wake(w) == ~closedByUser /\ sessionId /\ ProbeOrReconnect(w)

ComesIntoView(w) == Wake(w) /\ UNCHANGED onLine

GoesOnline(w) ==
  /\ ~onLine
  /\ onLine' = TRUE
  /\ \/ Wake(w)
     \/ /\ closedByUser \/ ~sessionId
        /\ UNCHANGED <<clientVars, relayVars, wireVars>>

\* retryNow: the user taps the banner of a line that is down.
RetryNow(w) == ws # None /\ ProbeOrReconnect(w) /\ UNCHANGED onLine

\* No answer within PROBE_TIMEOUT: this.ws is closed, whichever it is by now.
ProbeTimesOut ==
  /\ probeTimer
  /\ probeTimer' = FALSE
  /\ readyState' = IF ws # None /\ readyState[ws] \in {"connecting", "open"}
                   THEN [readyState EXCEPT ![ws] = "closing"] ELSE readyState
  /\ UNCHANGED <<ws, byCode, knownVars, reconnectTimer, shownVars, inboxVars, onLine,
                 relayVars, wireVars>>

\* disconnect: a session may be ended before it has its first socket.
Disconnect ==
  /\ ws # None \/ restoring # "no"
  /\ ~closedByUser
  /\ closedByUser' = TRUE
  /\ probeTimer' = FALSE
  /\ reconnectTimer' = FALSE
  /\ readyState' = IF ws # None /\ readyState[ws] \in {"connecting", "open"}
                   THEN [readyState EXCEPT ![ws] = "closing"] ELSE readyState
  /\ UNCHANGED <<ws, byCode, sessionId, aesKey, restoring, shownVars, inboxVars,
                 onLine, relayVars, wireVars>>

-----------------------------------------------------------------------------
\* One frame at a time, and only while its socket is the live one.  An
\* acknowledgement names the session first and has the key an await later.
Handle ==
  LET item == Head(inbox)
      live == item.from = ws
  IN /\ inbox # <<>> /\ ~deriving
     /\ deriving' = (live /\ item.frame = "pairing_ack")
     /\ sessionId' = (sessionId \/ deriving')
     /\ inbox' = IF deriving' THEN inbox ELSE Tail(inbox)
     /\ cliOnline' = CASE live /\ item.frame = "cli_disconnected" -> FALSE
                       [] live /\ item.frame = "cli_reconnected" -> TRUE
                       [] OTHER -> cliOnline
     /\ status' = CASE live /\ item.frame = "cli_disconnected" -> "CLI offline"
                    [] live /\ item.frame \in {"cli_reconnected", "sync_complete"} -> "connected"
                    [] OTHER -> status
     /\ IF live /\ item.frame = "cli_reconnected" THEN Probe
        ELSE /\ probeTimer' = (probeTimer /\ ~(live /\ item.frame = "sync_complete"))
             /\ UNCHANGED toRelay
     /\ UNCHANGED <<socketVars, aesKey, restoring, closedByUser, reconnectTimer,
                    verdict, onLine, relayVars, toClient, cut, cuts>>

Derived ==
  /\ deriving
  /\ deriving' = FALSE
  /\ aesKey' = TRUE
  /\ status' = "connected"
  /\ inbox' = Tail(inbox)
  /\ UNCHANGED <<socketVars, sessionId, restoring, closedByUser, timerVars, cliOnline,
                 verdict, onLine, relayVars, wireVars>>

-----------------------------------------------------------------------------
\* The relay, as the line sees it.  A newer phone displaces the one seated.
Push(wire, w, frame) ==
  IF w # None /\ attached[w] = "yes" /\ readyState[w] # "closed" /\ ~cut[w]
  THEN [wire EXCEPT ![w] = Append(@, frame)] ELSE wire

Roomy == \A w \in Slots : Len(toClient[w]) < MaxWire

RelayAttaches(w) ==
  /\ readyState[w] = "connecting" /\ attached[w] = "no" /\ ~cut[w]
  /\ session = IF byCode[w] THEN "waiting" ELSE "paired"
  /\ Roomy
  /\ mobileWs' = w
  /\ attached' = [x \in Slots |-> IF x = w THEN "yes"
                                  ELSE IF x = mobileWs THEN "closing" ELSE attached[x]]
  /\ toClient' = Push(toClient, mobileWs, "session_expired")
  /\ UNCHANGED <<clientVars, onLine, session, cliUp, toRelay, cut, cuts>>

RelayRefuses(w) ==
  /\ readyState[w] = "connecting" /\ attached[w] = "no" /\ ~cut[w]
  /\ attached' = [attached EXCEPT ![w] = "closing"]
  /\ \E reason \in {"rate_limited", "session_not_found"} :
       /\ reason = "session_not_found" =>
            session # IF byCode[w] THEN "waiting" ELSE "paired"
       /\ toClient' = [toClient EXCEPT ![w] = <<reason>>]
  /\ UNCHANGED <<clientVars, onLine, session, cliUp, mobileWs, toRelay, cut, cuts>>

\* Pairing is acknowledged, a request for what was missed is answered by a CLI
\* that is there; both to whoever is seated by now.
RelayReads(w) ==
  /\ attached[w] # "no" /\ toRelay[w] # <<>> /\ Roomy
  /\ toRelay' = [toRelay EXCEPT ![w] = Tail(@)]
  /\ LET pairs == Head(toRelay[w]) = "mobile_pairing"
     IN /\ session' = IF pairs /\ session = "waiting" THEN "paired" ELSE session
        /\ toClient' = IF pairs THEN Push(toClient, mobileWs, "pairing_ack")
                       ELSE IF cliUp THEN Push(toClient, mobileWs, "sync_complete")
                       ELSE toClient
  /\ UNCHANGED <<clientVars, onLine, cliUp, mobileWs, attached, cut, cuts>>

RelayNotices(w) ==
  /\ attached[w] # "no"
  /\ cut[w] \/ readyState[w] \in {"closing", "closed"}
  /\ attached' = [attached EXCEPT ![w] = "no"]
  /\ mobileWs' = IF mobileWs = w THEN None ELSE mobileWs
  /\ toRelay' = [toRelay EXCEPT ![w] = <<>>]
  /\ UNCHANGED <<clientVars, onLine, session, cliUp, toClient, cut, cuts>>

CliDropsOrReturns ==
  /\ session = "paired" /\ Roomy
  /\ cliUp' = ~cliUp
  /\ toClient' = Push(toClient, mobileWs,
                      IF cliUp THEN "cli_disconnected" ELSE "cli_reconnected")
  /\ UNCHANGED <<clientVars, onLine, session, mobileWs, attached, toRelay, cut, cuts>>

SessionEnds ==
  /\ session # "gone" /\ Roomy
  /\ session' = "gone"
  /\ toClient' = Push(toClient, mobileWs,
                      IF session = "waiting" THEN "pairing_expired" ELSE "session_expired")
  /\ attached' = [x \in Slots |-> IF x = mobileWs /\ attached[x] = "yes" THEN "closing"
                                  ELSE attached[x]]
  /\ UNCHANGED <<clientVars, onLine, cliUp, mobileWs, toRelay, cut, cuts>>

\* The network severs a line without telling either end, or is known to be away.
Sever(w) ==
  /\ readyState[w] \in {"connecting", "open", "closing"} /\ ~cut[w]
  /\ cuts < MaxCuts
  /\ cuts' = cuts + 1
  /\ cut' = [cut EXCEPT ![w] = TRUE]
  /\ toRelay' = [toRelay EXCEPT ![w] = <<>>]
  /\ toClient' = [toClient EXCEPT ![w] = <<>>]
  /\ UNCHANGED <<clientVars, onLine, relayVars>>

GoesOffline ==
  /\ onLine
  /\ onLine' = FALSE
  /\ UNCHANGED <<clientVars, relayVars, wireVars>>

-----------------------------------------------------------------------------
Client(w) ==
  \/ Connect(w) \/ RestoreOpens(w) \/ Opened(w) \/ Dropped(w) \/ Arrives(w)
  \/ ReconnectTimerFires(w) \/ ComesIntoView(w) \/ GoesOnline(w)
  \/ RetryNow(w)
Relay(w) == RelayAttaches(w) \/ RelayRefuses(w) \/ RelayReads(w) \/ RelayNotices(w)

Next ==
  \/ \E w \in Slots : Client(w) \/ Relay(w) \/ Sever(w)
  \/ Restore \/ RestoreDerives \/ ProbeTimesOut \/ Disconnect \/ Handle \/ Derived
  \/ CliDropsOrReturns \/ SessionEnds \/ GoesOffline

\* Timers fire, promises settle, the inbox is worked off, and the network either
\* carries what was put on it or reports the failure of a line being closed.
Fairness ==
  /\ WF_vars(ProbeTimesOut) /\ WF_vars(RestoreDerives) /\ WF_vars(Handle) /\ WF_vars(Derived)
  /\ WF_vars(\E w \in Slots : RestoreOpens(w))
  /\ WF_vars(\E w \in Slots : ReconnectTimerFires(w))
  /\ \A w \in Slots :
       /\ WF_vars(Opened(w)) /\ WF_vars(Arrives(w)) /\ WF_vars(RelayReads(w))
       /\ WF_vars(RelayAttaches(w) \/ RelayRefuses(w)) /\ WF_vars(RelayNotices(w))
       /\ WF_vars(readyState[w] # "open" /\ Dropped(w))

SafeSpec == Init /\ [][Next]_vars
Spec == SafeSpec /\ Fairness

-----------------------------------------------------------------------------
\* A session the client means to keep has no line, and none is on its way.
Unlined ==
  /\ sessionId /\ restoring = "no" /\ ~closedByUser /\ verdict = "none"
  /\ ws # None => readyState[ws] = "closed"

\* A session the client means to keep is never left with no line and nothing that
\* would open one: the timer is armed, or the device says it is offline and the
\* return of the network will do it, whichever sockets came and went and whatever
\* the handlers were waiting for meanwhile (termly-client.js:193, 206-212).
LineIsTended == Unlined => reconnectTimer \/ ~onLine

\* And something does open one: the timer, or the return of the network
\* (termly-client.js:208, 216).
LineComesBack ==
  Unlined ~> (~Unlined \/ ~onLine)

\* Once the user has ended it, a session opens no further socket, whatever was still
\* queued, pending or deriving (termly-client.js:104, 232).  Only a restore that is under
\* way is carried out.
DisconnectIsFinal ==
  [][closedByUser /\ restoring = "no" =>
       \A w \in Slots : readyState'[w] = "connecting" => readyState[w] = "connecting"]_vars

\* What the page is told of its line.
line == IF ws = None THEN "none" ELSE readyState[ws]
phase == IF closedByUser THEN "ended" ELSE IF sessionId THEN "known" ELSE "unknown"
tended == reconnectTimer \/ ~onLine

Line == INSTANCE SessionLine WITH restoring <- restoring # "no"

\* A line that breaks is given up with a verdict or tended, and nothing but the ending of
\* the session or the opening of the next line takes that away; once ended, a session
\* opens no line but for a restore under way (termly-client.js:104-110, 175-214, 407-415).
ImplementsLine == Line!SafeSpec

\* "Acting on a frame from a connection already replaced would rewrite the state
\* of the live one" (termly-client.js:170): no handler acts for a replaced socket.
OnlyTheLiveSocketActs == [][Derived => Head(inbox).from = ws]_vars

\* "Retrying a rejected pairing code or a dead session only burns the rate limit"
\* (termly-client.js:182): a session given up for lost is one the relay no longer
\* has.
LostMeansGone == verdict = "lost" => session = "gone"

\* "Gives it 6 seconds; no answer means reconnect" (README.md:269): a probe of a
\* severed line, nothing received before left to answer it, ends with that line
\* given up.
NoAnswerMeansReconnect ==
  \A w \in Slots :
    (ws = w /\ readyState[w] = "open" /\ cut[w] /\ probeTimer /\ inbox = <<>>)
    ~> ~(ws = w /\ readyState[w] = "open" /\ cut[w])

\* Keystrokes are refused as "CLI is offline" only while "there is no CLI socket
\* to forward it to" (termly-client.js:376), never on a line that a CLI has just
\* synchronised and that shows as connected.
ConnectedTakesInput == status = "connected" => cliOnline
=============================================================================
