------------------------ MODULE ClientConnectionProofs ------------------------
(***************************************************************************)
(* Theorems about ClientConnection, for any slots and bounds: its types,   *)
(* that a session the client means to keep is never left without a line or *)
(* something that will open one, that one the user has ended is not opened *)
(* again, and that the client keeps the promise of SessionLine.  For the   *)
(* second the invariant also speaks of a session not yet known: its line,  *)
(* once closed, was given up.                                              *)
(***************************************************************************)
EXTENDS ClientConnection, TLAPS

\* While the client has not decided otherwise, a closed line leaves it a session it
\* knows and something that opens the next one.
ClosedIsTended ==
  (~closedByUser /\ verdict = "none" /\ ws # None /\ readyState[ws] = "closed")
    => sessionId /\ (reconnectTimer \/ ~onLine)

\* A session without any socket yet is one that is being restored.
RestoredOpens == ws = None /\ sessionId => restoring # "no"

TendInv == TypeOK /\ ClosedIsTended /\ RestoredOpens

-----------------------------------------------------------------------------
(* Types *)

LEMMA AppendType ==
  ASSUME NEW S, NEW s \in Seq(S), NEW e \in S
  PROVE  Append(s, e) \in Seq(S) /\ Append(s, e) # <<>>
<1>1. Append(s, e) \in Seq(S)
  OBVIOUS
<1>2. Len(Append(s, e)) = Len(s) + 1 /\ Len(s) \in Nat
  OBVIOUS
<1>3. Len(<<>>) = 0
  OBVIOUS
<1> QED BY <1>1, <1>2, <1>3

LEMMA HeadType == ASSUME NEW S, NEW s \in Seq(S), s # <<>> PROVE Head(s) \in S
OBVIOUS

LEMMA TailType == ASSUME NEW S, NEW s \in Seq(S), s # <<>> PROVE Tail(s) \in Seq(S)
OBVIOUS

LEMMA EmptyType == ASSUME NEW S PROVE <<>> \in Seq(S)
OBVIOUS


LEMMA InitTend == Init => TendInv
<1> SUFFICES ASSUME Init PROVE TendInv
  OBVIOUS
<1>1. TypeOK
  <2>1. toRelay \in [Slots -> Seq({"mobile_pairing", "catchup_request"})]
    BY EmptyType DEF Init
  <2>2. toClient \in [Slots -> Seq(Frames \cup Reasons)]
    BY EmptyType DEF Init
  <2>3. inbox \in Seq([from : Slots, frame : Frames])
    BY EmptyType DEF Init
  <2>4. session \in {"waiting", "paired", "gone"}
    BY DEF Init
  <2>5. /\ ws \in Slots \cup {None} /\ mobileWs \in Slots \cup {None}
        /\ readyState \in [Slots -> {"connecting", "open", "closing", "closed"}]
        /\ byCode \in [Slots -> BOOLEAN] /\ cut \in [Slots -> BOOLEAN]
        /\ attached \in [Slots -> {"no", "yes", "closing"}]
        /\ cuts \in 0 .. MaxCuts
    BY BoundAssumption DEF Init, BoundAssumption
  <2>6. /\ restoring \in {"no", "deriving", "opening"} /\ verdict \in {"none", "lost", "fatal"}
        /\ status \in {"connected", "CLI offline", "down"}
    BY DEF Init
  <2> QED BY <2>1, <2>2, <2>3, <2>4, <2>5, <2>6 DEF Init, TypeOK
<1>2. ClosedIsTended /\ RestoredOpens
  BY DEF Init, ClosedIsTended, RestoredOpens
<1> QED BY <1>1, <1>2 DEF TendInv

\* Opening a socket.
OpenTyped ==
  /\ ws \in Slots \cup {None}
  /\ readyState \in [Slots -> {"connecting", "open", "closing", "closed"}]
  /\ byCode \in [Slots -> BOOLEAN]
  /\ status \in {"connected", "CLI offline", "down"}
  /\ verdict \in {"none", "lost", "fatal"}
  /\ toRelay \in [Slots -> Seq({"mobile_pairing", "catchup_request"})]
  /\ toClient \in [Slots -> Seq(Frames \cup Reasons)]
  /\ cut \in [Slots -> BOOLEAN]
  /\ cuts \in 0 .. MaxCuts

LEMMA OpenTypes ==
  ASSUME TypeOK, NEW w \in Slots, NEW code \in BOOLEAN, Open(w, code)
  PROVE  OpenTyped'
<1>1. toRelay' \in [Slots -> Seq({"mobile_pairing", "catchup_request"})]
  BY EmptyType DEF TypeOK, Open
<1>2. toClient' \in [Slots -> Seq(Frames \cup Reasons)]
  BY EmptyType DEF TypeOK, Open
<1> QED BY <1>1, <1>2 DEF TypeOK, OpenTyped, Open

LEMMA ReconnectTypes ==
  ASSUME TypeOK, NEW w \in Slots, ReconnectNow(w)
  PROVE  OpenTyped' /\ reconnectTimer' \in BOOLEAN
<1>1. CASE closedByUser \/ ~sessionId \/ connected
  BY <1>1 DEF TypeOK, OpenTyped, ReconnectNow, socketVars, wireVars
<1>2. CASE ~(closedByUser \/ ~sessionId \/ connected)
  <2>1. Open(w, FALSE) /\ reconnectTimer' = FALSE
    BY <1>2 DEF ReconnectNow
  <2> QED BY <2>1, OpenTypes
<1> QED BY <1>1, <1>2

\* A closing.
LEMMA CloseTypes ==
  ASSUME TypeOK, NEW w \in Slots, NEW reason, OnClose(w, reason)
  PROVE  /\ readyState' \in [Slots -> {"connecting", "open", "closing", "closed"}]
         /\ byCode' \in [Slots -> BOOLEAN] /\ cut' \in [Slots -> BOOLEAN]
         /\ toClient' \in [Slots -> Seq(Frames \cup Reasons)]
         /\ probeTimer' \in BOOLEAN /\ reconnectTimer' \in BOOLEAN
         /\ status' \in {"connected", "CLI offline", "down"}
         /\ verdict' \in {"none", "lost", "fatal"}
<1>1. toClient' \in [Slots -> Seq(Frames \cup Reasons)]
  BY EmptyType DEF TypeOK, OnClose
<1>2. verdict' \in {"none", "lost", "fatal"} /\ reconnectTimer' \in BOOLEAN
  <2>1. CASE w = ws /\ reason \in Reasons
    BY <2>1 DEF TypeOK, OnClose, Verdict
  <2>2. CASE w = ws /\ reason \notin Reasons /\ ~closedByUser
    <3>1. ScheduleReconnect
      BY <2>2 DEF OnClose
    <3> QED BY <3>1 DEF TypeOK, ScheduleReconnect
  <2>3. CASE w # ws \/ (reason \notin Reasons /\ closedByUser)
    BY <2>3 DEF TypeOK, OnClose
  <2> QED BY <2>1, <2>2, <2>3 DEF TypeOK
<1>3. /\ readyState' \in [Slots -> {"connecting", "open", "closing", "closed"}]
      /\ byCode' \in [Slots -> BOOLEAN] /\ cut' \in [Slots -> BOOLEAN]
      /\ probeTimer' \in BOOLEAN /\ status' \in {"connected", "CLI offline", "down"}
  BY DEF TypeOK, OnClose
<1> QED BY <1>1, <1>2, <1>3

\* A frame sent to the relay, and one pushed to the client.
LEMMA ProbeTypes ==
  ASSUME TypeOK, Probe
  PROVE  /\ toRelay' \in [Slots -> Seq({"mobile_pairing", "catchup_request"})]
         /\ probeTimer' \in BOOLEAN
<1>1. CASE ~probeTimer /\ connected /\ ~cut[ws]
  <2>1. toRelay' = [toRelay EXCEPT ![ws] = Append(@, "catchup_request")]
    BY <1>1 DEF Probe, Sent
  <2>2. toRelay[ws] \in Seq({"mobile_pairing", "catchup_request"})
    BY <1>1 DEF TypeOK, connected
  <2>3. Append(toRelay[ws], "catchup_request") \in Seq({"mobile_pairing", "catchup_request"})
    BY <2>2, AppendType
  <2> QED BY <2>1, <2>3 DEF TypeOK, Probe
<1>2. CASE ~(~probeTimer /\ connected /\ ~cut[ws])
  BY <1>2 DEF TypeOK, Probe, Sent
<1> QED BY <1>1, <1>2

LEMMA PushTypes ==
  ASSUME TypeOK
  PROVE  \A w \in Slots \cup {None}, frame \in Frames \cup Reasons :
           Push(toClient, w, frame) \in [Slots -> Seq(Frames \cup Reasons)]
<1> TAKE w \in Slots \cup {None}, frame \in Frames \cup Reasons
<1>1. CASE w # None
  <2>1. Append(toClient[w], frame) \in Seq(Frames \cup Reasons)
    BY <1>1, AppendType DEF TypeOK
  <2> QED BY <1>1, <2>1 DEF TypeOK, Push
<1>2. CASE w = None
  BY <1>2 DEF TypeOK, Push
<1> QED BY <1>1, <1>2

LEMMA ProbeOrReconnectTypes ==
  ASSUME TypeOK, NEW w \in Slots, ProbeOrReconnect(w)
  PROVE  OpenTyped' /\ reconnectTimer' \in BOOLEAN /\ probeTimer' \in BOOLEAN
         /\ UNCHANGED <<knownVars, cliOnline, inboxVars, relayVars>>
<1>1. UNCHANGED <<knownVars, cliOnline, inboxVars, relayVars>>
  BY DEF ProbeOrReconnect
<1>2. CASE connected
  <2>1. Probe /\ UNCHANGED <<socketVars, status, verdict, reconnectTimer, toClient, cut, cuts>>
    BY <1>2 DEF ProbeOrReconnect
  <2> QED BY <1>1, <2>1, ProbeTypes DEF TypeOK, OpenTyped, socketVars
<1>3. CASE ~connected
  <2>1. ReconnectNow(w) /\ UNCHANGED probeTimer
    BY <1>3 DEF ProbeOrReconnect
  <2> QED BY <1>1, <2>1, ReconnectTypes DEF TypeOK
<1> QED BY <1>2, <1>3

-----------------------------------------------------------------------------
(* Every step keeps the types *)

\* What the types are of, in three parts: the sockets, what is known, and the queues.
LineTyped ==
  /\ ws \in Slots \cup {None} /\ mobileWs \in Slots \cup {None}
  /\ readyState \in [Slots -> {"connecting", "open", "closing", "closed"}]
  /\ byCode \in [Slots -> BOOLEAN] /\ cut \in [Slots -> BOOLEAN]
  /\ attached \in [Slots -> {"no", "yes", "closing"}]
  /\ cuts \in 0 .. MaxCuts

BoolTyped ==
  /\ sessionId \in BOOLEAN /\ aesKey \in BOOLEAN /\ closedByUser \in BOOLEAN
  /\ reconnectTimer \in BOOLEAN /\ probeTimer \in BOOLEAN /\ cliOnline \in BOOLEAN
  /\ deriving \in BOOLEAN /\ onLine \in BOOLEAN /\ cliUp \in BOOLEAN

WordTyped ==
  /\ restoring \in {"no", "deriving", "opening"}
  /\ status \in {"connected", "CLI offline", "down"}
  /\ verdict \in {"none", "lost", "fatal"}
  /\ session \in {"waiting", "paired", "gone"}

FlagTyped == BoolTyped /\ WordTyped

QueueTyped ==
  /\ inbox \in Seq([from : Slots, frame : Frames])
  /\ deriving => inbox # <<>>
  /\ toRelay \in [Slots -> Seq({"mobile_pairing", "catchup_request"})]
  /\ toClient \in [Slots -> Seq(Frames \cup Reasons)]

\* What a step of the relay or the network leaves alone.
LEMMA ClientUnchanged ==
  UNCHANGED clientVars =>
    /\ ws' = ws /\ readyState' = readyState /\ byCode' = byCode
    /\ sessionId' = sessionId /\ aesKey' = aesKey /\ restoring' = restoring
    /\ closedByUser' = closedByUser /\ reconnectTimer' = reconnectTimer
    /\ probeTimer' = probeTimer /\ inbox' = inbox /\ deriving' = deriving
    /\ cliOnline' = cliOnline /\ status' = status /\ verdict' = verdict
<1> SUFFICES ASSUME UNCHANGED clientVars
             PROVE  /\ UNCHANGED socketVars /\ UNCHANGED knownVars /\ UNCHANGED timerVars
                    /\ UNCHANGED inboxVars /\ UNCHANGED shownVars
  BY DEF socketVars, knownVars, timerVars, inboxVars, shownVars
<1> QED BY DEF clientVars

LEMMA TypeStep == TypeOK /\ [Next]_vars => TypeOK'
<1> SUFFICES ASSUME TypeOK, [Next]_vars PROVE TypeOK'
  OBVIOUS
<1>p. LineTyped /\ FlagTyped /\ QueueTyped
  BY DEF TypeOK, LineTyped, FlagTyped, BoolTyped, WordTyped, QueueTyped
<1>q. LineTyped' /\ FlagTyped' /\ QueueTyped' => TypeOK'
  BY DEF TypeOK, LineTyped, FlagTyped, BoolTyped, WordTyped, QueueTyped
<1> USE DEF socketVars, knownVars, timerVars, inboxVars, shownVars, relayVars, wireVars
<1>1. CASE UNCHANGED vars
  <2>1. /\ UNCHANGED clientVars /\ UNCHANGED relayVars /\ UNCHANGED wireVars
        /\ UNCHANGED onLine
    BY <1>1 DEF vars
  <2>2. LineTyped' /\ QueueTyped'
    BY <1>p, <2>1, ClientUnchanged DEF LineTyped, QueueTyped
  <2>3. BoolTyped'
    BY <1>p, <2>1, ClientUnchanged DEF FlagTyped, BoolTyped
  <2>4. WordTyped'
    BY <1>p, <2>1, ClientUnchanged DEF FlagTyped, WordTyped
  <2> QED BY <1>q, <2>2, <2>3, <2>4 DEF FlagTyped
<1>2. ASSUME NEW w \in Slots, Connect(w) PROVE TypeOK'
  <2>1. LineTyped'
    BY <1>2, <1>p, OpenTypes DEF Connect, OpenTyped, LineTyped
  <2>2. FlagTyped'
    BY <1>2, <1>p, OpenTypes DEF Connect, OpenTyped, FlagTyped, BoolTyped, WordTyped
  <2>3. QueueTyped'
    BY <1>2, <1>p, OpenTypes DEF Connect, OpenTyped, QueueTyped
  <2> QED BY <1>q, <2>1, <2>2, <2>3
<1>3. CASE Restore
  <2>1. LineTyped'
    BY <1>3, <1>p DEF Restore, LineTyped
  <2>2. FlagTyped'
    BY <1>3, <1>p DEF Restore, FlagTyped, BoolTyped, WordTyped
  <2>3. QueueTyped'
    BY <1>3, <1>p DEF Restore, QueueTyped
  <2> QED BY <1>q, <2>1, <2>2, <2>3
<1>4. CASE RestoreDerives
  <2>1. LineTyped'
    BY <1>4, <1>p DEF RestoreDerives, LineTyped
  <2>2. FlagTyped'
    BY <1>4, <1>p DEF RestoreDerives, FlagTyped, BoolTyped, WordTyped
  <2>3. QueueTyped'
    BY <1>4, <1>p DEF RestoreDerives, QueueTyped
  <2> QED BY <1>q, <2>1, <2>2, <2>3
<1>5. ASSUME NEW w \in Slots, RestoreOpens(w) PROVE TypeOK'
  <2>1. LineTyped'
    BY <1>5, <1>p, OpenTypes DEF RestoreOpens, OpenTyped, LineTyped
  <2>2. FlagTyped'
    BY <1>5, <1>p, OpenTypes DEF RestoreOpens, OpenTyped, FlagTyped, BoolTyped, WordTyped
  <2>3. QueueTyped'
    BY <1>5, <1>p, OpenTypes DEF RestoreOpens, OpenTyped, QueueTyped
  <2> QED BY <1>q, <2>1, <2>2, <2>3
<1>6. ASSUME NEW w \in Slots, Opened(w) PROVE TypeOK'
  <2>1. LineTyped'
    BY <1>6, <1>p DEF Opened, LineTyped
  <2>2. /\ status' \in {"connected", "CLI offline", "down"}
        /\ UNCHANGED <<knownVars, timerVars, cliOnline, inboxVars, verdict, onLine, relayVars>>
    BY <1>6, <1>p DEF Opened, FlagTyped, BoolTyped, WordTyped
  <2>3. FlagTyped'
    BY <1>p, <2>2 DEF FlagTyped, BoolTyped, WordTyped
  <2>4. toRelay' \in [Slots -> Seq({"mobile_pairing", "catchup_request"})]
    BY <1>6, <1>p, AppendType DEF Opened, QueueTyped
  <2>5. QueueTyped'
    BY <1>6, <1>p, <2>4 DEF Opened, QueueTyped
  <2> QED BY <1>q, <2>1, <2>3, <2>5
<1>7. ASSUME NEW w \in Slots, Dropped(w) PROVE TypeOK'
  <2>1. LineTyped'
    BY <1>7, <1>p, CloseTypes DEF Dropped, LineTyped
  <2>2. FlagTyped'
    BY <1>7, <1>p, CloseTypes DEF Dropped, FlagTyped, BoolTyped, WordTyped
  <2>3. QueueTyped'
    BY <1>7, <1>p, CloseTypes DEF Dropped, QueueTyped
  <2> QED BY <1>q, <2>1, <2>2, <2>3
<1>8. ASSUME NEW w \in Slots, Arrives(w) PROVE TypeOK'
  <2> DEFINE frame == Head(toClient[w])
  <2>1. UNCHANGED <<ws, knownVars, cliOnline, deriving, onLine, relayVars, toRelay, cuts>>
    BY <1>8 DEF Arrives
  <2>2. CASE OnClose(w, frame) /\ UNCHANGED inbox
    <3>1. LineTyped'
      BY <1>p, <2>1, <2>2, CloseTypes DEF LineTyped
    <3>2. /\ probeTimer' \in BOOLEAN /\ reconnectTimer' \in BOOLEAN
          /\ status' \in {"connected", "CLI offline", "down"}
          /\ verdict' \in {"none", "lost", "fatal"}
      BY <2>2, CloseTypes
    <3>3. BoolTyped'
      BY <1>p, <2>1, <2>2, <3>2 DEF FlagTyped, BoolTyped
    <3>4. WordTyped'
      BY <1>p, <2>1, <2>2, <3>2 DEF FlagTyped, WordTyped
    <3>5. QueueTyped'
      BY <1>p, <2>1, <2>2, CloseTypes DEF QueueTyped
    <3> QED BY <1>q, <3>1, <3>3, <3>4, <3>5 DEF FlagTyped
  <2>3. CASE frame \notin Reasons
    <3>1. /\ UNCHANGED <<readyState, byCode, cut, status, verdict, timerVars>>
          /\ toClient' = [toClient EXCEPT ![w] = Tail(@)]
          /\ inbox' = IF readyState[w] = "open"
                      THEN Append(inbox, [from |-> w, frame |-> frame]) ELSE inbox
      BY <1>8, <2>3 DEF Arrives
    <3>2. LineTyped'
      BY <1>p, <2>1, <3>1 DEF LineTyped
    <3>3. BoolTyped'
      BY <1>p, <2>1, <3>1 DEF FlagTyped, BoolTyped
    <3>4. WordTyped'
      BY <1>p, <2>1, <3>1 DEF FlagTyped, WordTyped
    <3>5. toClient[w] \in Seq(Frames \cup Reasons) /\ toClient[w] # <<>>
      BY <1>8, <1>p DEF Arrives, QueueTyped
    <3>6. frame \in Frames /\ Tail(toClient[w]) \in Seq(Frames \cup Reasons)
      BY <2>3, <3>5
    <3>7. toClient' \in [Slots -> Seq(Frames \cup Reasons)]
      BY <1>p, <3>1, <3>6 DEF QueueTyped
    <3>8. inbox' \in Seq([from : Slots, frame : Frames])
      <4>1. [from |-> w, frame |-> frame] \in [from : Slots, frame : Frames]
        BY <3>6
      <4>2. Append(inbox, [from |-> w, frame |-> frame]) \in Seq([from : Slots, frame : Frames])
        BY <1>p, <4>1, AppendType DEF QueueTyped
      <4> QED BY <1>p, <3>1, <4>2 DEF QueueTyped
    <3>9. deriving' => inbox' # <<>>
      <4>1. [from |-> w, frame |-> frame] \in [from : Slots, frame : Frames]
        BY <3>6
      <4> QED BY <1>p, <2>1, <3>1, <4>1, AppendType DEF QueueTyped
    <3>10. QueueTyped'
      BY <1>p, <2>1, <3>7, <3>8, <3>9 DEF QueueTyped
    <3> QED BY <1>q, <3>2, <3>3, <3>4, <3>10 DEF FlagTyped
  <2>4. (OnClose(w, frame) /\ UNCHANGED inbox) \/ frame \notin Reasons
    BY <1>8 DEF Arrives
  <2> QED BY <2>2, <2>3, <2>4
<1>9. ASSUME NEW w \in Slots, ReconnectTimerFires(w) PROVE TypeOK'
  <2>1. LineTyped'
    BY <1>9, <1>p, ReconnectTypes DEF ReconnectTimerFires, OpenTyped, LineTyped
  <2>2. FlagTyped'
    BY <1>9, <1>p, ReconnectTypes DEF ReconnectTimerFires, OpenTyped, FlagTyped, BoolTyped, WordTyped
  <2>3. QueueTyped'
    BY <1>9, <1>p, ReconnectTypes DEF ReconnectTimerFires, OpenTyped, QueueTyped
  <2> QED BY <1>q, <2>1, <2>2, <2>3
<1>10. ASSUME NEW w \in Slots, ComesIntoView(w) PROVE TypeOK'
  <2>1. LineTyped'
    BY <1>10, <1>p, ProbeOrReconnectTypes DEF ComesIntoView, Wake, OpenTyped, LineTyped
  <2>2. FlagTyped'
    BY <1>10, <1>p, ProbeOrReconnectTypes DEF ComesIntoView, Wake, OpenTyped, FlagTyped, BoolTyped, WordTyped
  <2>3. QueueTyped'
    BY <1>10, <1>p, ProbeOrReconnectTypes DEF ComesIntoView, Wake, OpenTyped, QueueTyped
  <2> QED BY <1>q, <2>1, <2>2, <2>3
<1>11. ASSUME NEW w \in Slots, GoesOnline(w) PROVE TypeOK'
  <2>1. onLine' = TRUE
    BY <1>11 DEF GoesOnline
  <2>2. CASE Wake(w)
    <3>1. ProbeOrReconnect(w)
      BY <2>2 DEF Wake
    <3>2. LineTyped'
      BY <1>p, <3>1, ProbeOrReconnectTypes DEF OpenTyped, LineTyped
    <3>3. FlagTyped'
      BY <1>p, <2>1, <3>1, ProbeOrReconnectTypes DEF OpenTyped, FlagTyped, BoolTyped, WordTyped
    <3>4. QueueTyped'
      BY <1>p, <3>1, ProbeOrReconnectTypes DEF OpenTyped, QueueTyped
    <3> QED BY <1>q, <3>2, <3>3, <3>4
  <2>3. CASE UNCHANGED <<clientVars, relayVars, wireVars>>
    <3>1. UNCHANGED clientVars /\ UNCHANGED relayVars /\ UNCHANGED wireVars
      BY <2>3
    <3>2. LineTyped' /\ QueueTyped'
      BY <1>p, <3>1, ClientUnchanged DEF LineTyped, QueueTyped
    <3>3. FlagTyped'
      BY <1>p, <2>1, <3>1, ClientUnchanged DEF FlagTyped, BoolTyped, WordTyped
    <3> QED BY <1>q, <3>2, <3>3
  <2> QED BY <1>11, <2>2, <2>3 DEF GoesOnline
<1>12. ASSUME NEW w \in Slots, RetryNow(w) PROVE TypeOK'
  <2>1. LineTyped'
    BY <1>12, <1>p, ProbeOrReconnectTypes DEF RetryNow, OpenTyped, LineTyped
  <2>2. FlagTyped'
    BY <1>12, <1>p, ProbeOrReconnectTypes DEF RetryNow, OpenTyped, FlagTyped, BoolTyped, WordTyped
  <2>3. QueueTyped'
    BY <1>12, <1>p, ProbeOrReconnectTypes DEF RetryNow, OpenTyped, QueueTyped
  <2> QED BY <1>q, <2>1, <2>2, <2>3
<1>13. CASE ProbeTimesOut
  <2>1. LineTyped'
    BY <1>13, <1>p DEF ProbeTimesOut, LineTyped
  <2>2. /\ probeTimer' = FALSE
        /\ UNCHANGED <<knownVars, reconnectTimer, shownVars, inboxVars, onLine, relayVars>>
    BY <1>13 DEF ProbeTimesOut
  <2>3. BoolTyped'
    BY <1>p, <2>2 DEF FlagTyped, BoolTyped
  <2>4. WordTyped'
    BY <1>p, <2>2 DEF FlagTyped, WordTyped
  <2>5. QueueTyped'
    BY <1>13, <1>p DEF ProbeTimesOut, QueueTyped
  <2> QED BY <1>q, <2>1, <2>3, <2>4, <2>5 DEF FlagTyped
<1>14. CASE Disconnect
  <2>1. LineTyped'
    BY <1>14, <1>p DEF Disconnect, LineTyped
  <2>2. FlagTyped'
    BY <1>14, <1>p DEF Disconnect, FlagTyped, BoolTyped, WordTyped
  <2>3. QueueTyped'
    BY <1>14, <1>p DEF Disconnect, QueueTyped
  <2> QED BY <1>q, <2>1, <2>2, <2>3
<1>15. CASE Handle
  <2>1. LineTyped'
    BY <1>15, <1>p DEF Handle, LineTyped
  <2>2. /\ toRelay' \in [Slots -> Seq({"mobile_pairing", "catchup_request"})]
        /\ probeTimer' \in BOOLEAN
    <3>1. CASE Probe
      BY <3>1, ProbeTypes
    <3>2. CASE ~Probe
      BY <1>15, <1>p, <3>2 DEF Handle, FlagTyped, BoolTyped, WordTyped, QueueTyped
    <3> QED BY <3>1, <3>2
  <2>3. /\ deriving' \in BOOLEAN /\ sessionId' \in BOOLEAN /\ cliOnline' \in BOOLEAN
        /\ status' \in {"connected", "CLI offline", "down"}
        /\ UNCHANGED <<aesKey, restoring, closedByUser, reconnectTimer, verdict, onLine,
                       relayVars, toClient>>
    BY <1>15, <1>p DEF Handle, FlagTyped, BoolTyped, WordTyped
  <2>4. FlagTyped'
    BY <1>p, <2>2, <2>3 DEF FlagTyped, BoolTyped, WordTyped
  <2>5. /\ inbox # <<>> /\ inbox' \in {inbox, Tail(inbox)}
        /\ deriving' => inbox' = inbox
    BY <1>15 DEF Handle
  <2>6. inbox' \in Seq([from : Slots, frame : Frames]) /\ (deriving' => inbox' # <<>>)
    BY <1>p, <2>5, TailType DEF QueueTyped
  <2>7. QueueTyped'
    BY <1>p, <2>2, <2>3, <2>6 DEF QueueTyped
  <2> QED BY <1>q, <2>1, <2>4, <2>7
<1>16. CASE Derived
  <2>1. LineTyped'
    BY <1>16, <1>p DEF Derived, LineTyped
  <2>2. FlagTyped'
    BY <1>16, <1>p DEF Derived, FlagTyped, BoolTyped, WordTyped
  <2>3. inbox' = Tail(inbox) /\ UNCHANGED <<toRelay, toClient>>
    BY <1>16 DEF Derived
  <2>4. inbox # <<>> => Tail(inbox) \in Seq([from : Slots, frame : Frames])
    BY <1>p DEF QueueTyped
  <2>5. inbox # <<>> /\ ~deriving'
    BY <1>16, <1>p DEF Derived, QueueTyped
  <2>6. QueueTyped'
    BY <1>p, <2>3, <2>4, <2>5 DEF QueueTyped
  <2> QED BY <1>q, <2>1, <2>2, <2>6
<1>17. ASSUME NEW w \in Slots, RelayAttaches(w) PROVE TypeOK'
  <2>1. UNCHANGED clientVars /\ UNCHANGED onLine
    BY <1>17 DEF RelayAttaches
  <2>2. LineTyped'
    BY <1>17, <1>p, <2>1, ClientUnchanged DEF RelayAttaches, LineTyped
  <2>3. cliUp' \in BOOLEAN /\ session' \in {"waiting", "paired", "gone"}
    BY <1>17, <1>p DEF RelayAttaches, FlagTyped, BoolTyped, WordTyped
  <2>4. FlagTyped'
    BY <1>p, <2>1, <2>3, ClientUnchanged DEF FlagTyped, BoolTyped, WordTyped
  <2>5. toClient' \in [Slots -> Seq(Frames \cup Reasons)]
    <3>1. "session_expired" \in Frames \cup Reasons
      BY DEF Reasons, LostReasons
    <3>2. mobileWs \in Slots \cup {None}
      BY <1>p DEF LineTyped
    <3> QED BY <1>17, <1>p, <3>1, <3>2, PushTypes DEF RelayAttaches, QueueTyped
  <2>6. toRelay' \in [Slots -> Seq({"mobile_pairing", "catchup_request"})]
    BY <1>17, <1>p DEF RelayAttaches, QueueTyped
  <2>7. QueueTyped'
    BY <1>p, <2>1, <2>5, <2>6, ClientUnchanged DEF QueueTyped
  <2> QED BY <1>q, <2>2, <2>4, <2>7
<1>18. ASSUME NEW w \in Slots, RelayRefuses(w) PROVE TypeOK'
  <2>1. UNCHANGED clientVars /\ UNCHANGED onLine
    BY <1>18 DEF RelayRefuses
  <2>2. LineTyped'
    BY <1>18, <1>p, <2>1, ClientUnchanged DEF RelayRefuses, LineTyped
  <2>3. cliUp' \in BOOLEAN /\ session' \in {"waiting", "paired", "gone"}
    BY <1>18, <1>p DEF RelayRefuses, FlagTyped, BoolTyped, WordTyped
  <2>4. FlagTyped'
    BY <1>p, <2>1, <2>3, ClientUnchanged DEF FlagTyped, BoolTyped, WordTyped
  <2>5. toClient' \in [Slots -> Seq(Frames \cup Reasons)]
    BY <1>18, <1>p, EmptyType DEF RelayRefuses, QueueTyped, Reasons, LostReasons
  <2>6. toRelay' \in [Slots -> Seq({"mobile_pairing", "catchup_request"})]
    BY <1>18, <1>p DEF RelayRefuses, QueueTyped
  <2>7. QueueTyped'
    BY <1>p, <2>1, <2>5, <2>6, ClientUnchanged DEF QueueTyped
  <2> QED BY <1>q, <2>2, <2>4, <2>7
<1>19. ASSUME NEW w \in Slots, RelayReads(w) PROVE TypeOK'
  <2>1. UNCHANGED clientVars /\ UNCHANGED onLine
    BY <1>19 DEF RelayReads
  <2>2. LineTyped'
    BY <1>19, <1>p, <2>1, ClientUnchanged DEF RelayReads, LineTyped
  <2>3. cliUp' \in BOOLEAN /\ session' \in {"waiting", "paired", "gone"}
    BY <1>19, <1>p DEF RelayReads, FlagTyped, BoolTyped, WordTyped
  <2>4. FlagTyped'
    BY <1>p, <2>1, <2>3, ClientUnchanged DEF FlagTyped, BoolTyped, WordTyped
  <2>5. toClient' \in [Slots -> Seq(Frames \cup Reasons)]
    <3>1. /\ "pairing_ack" \in Frames \cup Reasons
            /\ "sync_complete" \in Frames \cup Reasons
      BY DEF Frames
    <3>2. mobileWs \in Slots \cup {None}
      BY <1>p DEF LineTyped
    <3> QED BY <1>19, <1>p, <3>1, <3>2, PushTypes DEF RelayReads, QueueTyped
  <2>6. toRelay' \in [Slots -> Seq({"mobile_pairing", "catchup_request"})]
    BY <1>19, <1>p DEF RelayReads, QueueTyped
  <2>7. QueueTyped'
    BY <1>p, <2>1, <2>5, <2>6, ClientUnchanged DEF QueueTyped
  <2> QED BY <1>q, <2>2, <2>4, <2>7
<1>20. ASSUME NEW w \in Slots, RelayNotices(w) PROVE TypeOK'
  <2>1. UNCHANGED clientVars /\ UNCHANGED onLine
    BY <1>20 DEF RelayNotices
  <2>2. LineTyped'
    BY <1>20, <1>p, <2>1, ClientUnchanged DEF RelayNotices, LineTyped
  <2>3. cliUp' \in BOOLEAN /\ session' \in {"waiting", "paired", "gone"}
    BY <1>20, <1>p DEF RelayNotices, FlagTyped, BoolTyped, WordTyped
  <2>4. FlagTyped'
    BY <1>p, <2>1, <2>3, ClientUnchanged DEF FlagTyped, BoolTyped, WordTyped
  <2>5. toClient' \in [Slots -> Seq(Frames \cup Reasons)]
    BY <1>20, <1>p, EmptyType DEF RelayNotices, QueueTyped
  <2>6. toRelay' \in [Slots -> Seq({"mobile_pairing", "catchup_request"})]
    BY <1>20, <1>p, EmptyType DEF RelayNotices, QueueTyped
  <2>7. QueueTyped'
    BY <1>p, <2>1, <2>5, <2>6, ClientUnchanged DEF QueueTyped
  <2> QED BY <1>q, <2>2, <2>4, <2>7
<1>21. CASE CliDropsOrReturns
  <2>1. UNCHANGED clientVars /\ UNCHANGED onLine
    BY <1>21 DEF CliDropsOrReturns
  <2>2. LineTyped'
    BY <1>21, <1>p, <2>1, ClientUnchanged DEF CliDropsOrReturns, LineTyped
  <2>3. cliUp' \in BOOLEAN /\ session' \in {"waiting", "paired", "gone"}
    BY <1>21, <1>p DEF CliDropsOrReturns, FlagTyped, BoolTyped, WordTyped
  <2>4. FlagTyped'
    BY <1>p, <2>1, <2>3, ClientUnchanged DEF FlagTyped, BoolTyped, WordTyped
  <2>5. toClient' \in [Slots -> Seq(Frames \cup Reasons)]
    <3>1. /\ "cli_disconnected" \in Frames \cup Reasons
            /\ "cli_reconnected" \in Frames \cup Reasons
      BY DEF Frames
    <3>2. mobileWs \in Slots \cup {None}
      BY <1>p DEF LineTyped
    <3> QED BY <1>21, <1>p, <3>1, <3>2, PushTypes DEF CliDropsOrReturns, QueueTyped
  <2>6. toRelay' \in [Slots -> Seq({"mobile_pairing", "catchup_request"})]
    BY <1>21, <1>p DEF CliDropsOrReturns, QueueTyped
  <2>7. QueueTyped'
    BY <1>p, <2>1, <2>5, <2>6, ClientUnchanged DEF QueueTyped
  <2> QED BY <1>q, <2>2, <2>4, <2>7
<1>22. CASE SessionEnds
  <2>1. UNCHANGED clientVars /\ UNCHANGED onLine
    BY <1>22 DEF SessionEnds
  <2>2. LineTyped'
    BY <1>22, <1>p, <2>1, ClientUnchanged DEF SessionEnds, LineTyped
  <2>3. cliUp' \in BOOLEAN /\ session' \in {"waiting", "paired", "gone"}
    BY <1>22, <1>p DEF SessionEnds, FlagTyped, BoolTyped, WordTyped
  <2>4. FlagTyped'
    BY <1>p, <2>1, <2>3, ClientUnchanged DEF FlagTyped, BoolTyped, WordTyped
  <2>5. toClient' \in [Slots -> Seq(Frames \cup Reasons)]
    <3>1. /\ "pairing_expired" \in Frames \cup Reasons
            /\ "session_expired" \in Frames \cup Reasons
      BY DEF Reasons, LostReasons
    <3>2. mobileWs \in Slots \cup {None}
      BY <1>p DEF LineTyped
    <3> QED BY <1>22, <1>p, <3>1, <3>2, PushTypes DEF SessionEnds, QueueTyped
  <2>6. toRelay' \in [Slots -> Seq({"mobile_pairing", "catchup_request"})]
    BY <1>22, <1>p DEF SessionEnds, QueueTyped
  <2>7. QueueTyped'
    BY <1>p, <2>1, <2>5, <2>6, ClientUnchanged DEF QueueTyped
  <2> QED BY <1>q, <2>2, <2>4, <2>7
<1>23. ASSUME NEW w \in Slots, Sever(w) PROVE TypeOK'
  <2>1. UNCHANGED clientVars /\ UNCHANGED onLine
    BY <1>23 DEF Sever
  <2>2. LineTyped'
    BY <1>23, <1>p, <2>1, ClientUnchanged, BoundAssumption DEF Sever, LineTyped, BoundAssumption
  <2>3. cliUp' \in BOOLEAN /\ session' \in {"waiting", "paired", "gone"}
    BY <1>23, <1>p DEF Sever, FlagTyped, BoolTyped, WordTyped
  <2>4. FlagTyped'
    BY <1>p, <2>1, <2>3, ClientUnchanged DEF FlagTyped, BoolTyped, WordTyped
  <2>5. toClient' \in [Slots -> Seq(Frames \cup Reasons)]
    BY <1>23, <1>p, EmptyType DEF Sever, QueueTyped
  <2>6. toRelay' \in [Slots -> Seq({"mobile_pairing", "catchup_request"})]
    BY <1>23, <1>p, EmptyType DEF Sever, QueueTyped
  <2>7. QueueTyped'
    BY <1>p, <2>1, <2>5, <2>6, ClientUnchanged DEF QueueTyped
  <2> QED BY <1>q, <2>2, <2>4, <2>7
<1>24. CASE GoesOffline
  <2>1. UNCHANGED clientVars /\ UNCHANGED relayVars /\ UNCHANGED wireVars /\ onLine' = FALSE
    BY <1>24 DEF GoesOffline
  <2>2. LineTyped' /\ QueueTyped'
    BY <1>p, <2>1, ClientUnchanged DEF LineTyped, QueueTyped
  <2>3. FlagTyped'
    BY <1>p, <2>1, ClientUnchanged DEF FlagTyped, BoolTyped, WordTyped
  <2> QED BY <1>q, <2>2, <2>3
<1> QED BY <1>1, <1>2, <1>3, <1>4, <1>5, <1>6, <1>7, <1>8, <1>9, <1>10, <1>11, <1>12,
           <1>13, <1>14, <1>15, <1>16, <1>17, <1>18, <1>19, <1>20, <1>21, <1>22, <1>23,
           <1>24 DEF Next, Client, Relay

-----------------------------------------------------------------------------
(* The line is tended *)

\* A socket that has just been opened is not closed.
LEMMA OpenedTends ==
  ASSUME TypeOK, NEW w \in Slots, NEW code, Open(w, code)
  PROVE  ClosedIsTended' /\ RestoredOpens'
<1>1. ws' = w /\ readyState'[w] = "connecting" /\ w # None
  BY SlotAssumption DEF Open, TypeOK, SlotAssumption
<1> QED BY <1>1 DEF ClosedIsTended, RestoredOpens

\* Nor does a line that is down while nothing is due stay so when it is asked for again.
LEMMA ReconnectTends ==
  ASSUME TendInv, NEW w \in Slots, ReconnectNow(w), UNCHANGED knownVars
  PROVE  ClosedIsTended' /\ RestoredOpens'
<1>1. CASE ~closedByUser /\ sessionId /\ ~connected
  BY <1>1, OpenedTends DEF ReconnectNow, TendInv
<1>2. CASE closedByUser \/ ~sessionId \/ connected
  <2>1. /\ UNCHANGED <<ws, readyState, verdict, sessionId, closedByUser, restoring>>
    BY <1>2 DEF ReconnectNow, socketVars, knownVars
  <2> QED BY <1>2, <2>1 DEF TendInv, ClosedIsTended, RestoredOpens, connected
<1> QED BY <1>1, <1>2

LEMMA ProbeOrReconnectTends ==
  ASSUME TendInv, NEW w \in Slots, ProbeOrReconnect(w)
  PROVE  ClosedIsTended' /\ RestoredOpens'
<1>1. UNCHANGED knownVars
  BY DEF ProbeOrReconnect
<1>2. CASE connected
  <2>1. UNCHANGED <<ws, readyState, verdict, sessionId, restoring>>
    BY <1>1, <1>2 DEF ProbeOrReconnect, socketVars, knownVars
  <2> QED BY <1>2, <2>1 DEF TendInv, ClosedIsTended, RestoredOpens, connected
<1>3. CASE ~connected
  BY <1>1, <1>3, ReconnectTends DEF ProbeOrReconnect
<1> QED BY <1>2, <1>3

\* The close of the live socket gives the session up or arms the timer; that of another
\* changes neither.
LEMMA ClosedTends ==
  ASSUME TendInv, NEW w \in Slots, NEW reason, OnClose(w, reason),
         UNCHANGED <<ws, knownVars, onLine>>
  PROVE  ClosedIsTended' /\ RestoredOpens'
<1>1. readyState' = [readyState EXCEPT ![w] = "closed"]
  BY DEF OnClose
<1>2. UNCHANGED <<ws, sessionId, closedByUser, restoring, onLine>>
  BY DEF knownVars
<1>3. RestoredOpens'
  BY <1>2 DEF TendInv, RestoredOpens
<1>4. CASE w # ws
  <2>1. UNCHANGED <<verdict, reconnectTimer>>
    BY <1>4 DEF OnClose
  <2>2. ws # None => readyState'[ws] = readyState[ws]
    BY <1>1, <1>4 DEF TendInv, TypeOK
  <2> QED BY <1>2, <1>3, <2>1, <2>2 DEF TendInv, ClosedIsTended
<1>5. CASE w = ws /\ reason \in Reasons
  <2>1. verdict' # "none"
    BY <1>5 DEF OnClose, Verdict
  <2> QED BY <1>3, <2>1 DEF ClosedIsTended
<1>6. CASE w = ws /\ reason \notin Reasons /\ closedByUser
  BY <1>2, <1>3, <1>6 DEF ClosedIsTended
<1>7. CASE w = ws /\ reason \notin Reasons /\ ~closedByUser
  <2>1. ScheduleReconnect
    BY <1>7 DEF OnClose
  <2>2. verdict' = "none" => sessionId /\ (reconnectTimer' \/ ~onLine)
    BY <2>1 DEF ScheduleReconnect
  <2> QED BY <1>2, <1>3, <2>2 DEF ClosedIsTended
<1> QED BY <1>4, <1>5, <1>6, <1>7

LEMMA TendStep == TendInv /\ [Next]_vars => ClosedIsTended' /\ RestoredOpens'
<1> SUFFICES ASSUME TendInv, [Next]_vars PROVE ClosedIsTended' /\ RestoredOpens'
  OBVIOUS
<1> DEFINE tendVars == <<ws, readyState, verdict, sessionId, closedByUser, restoring,
                         reconnectTimer, onLine>>
<1>1. CASE UNCHANGED tendVars
  BY <1>1 DEF TendInv, ClosedIsTended, RestoredOpens
<1>2. CASE UNCHANGED clientVars /\ UNCHANGED onLine
  BY <1>1, <1>2, ClientUnchanged
<1>3. CASE UNCHANGED vars
  BY <1>2, <1>3 DEF vars
<1>4. ASSUME NEW w \in Slots, Connect(w) \/ RestoreOpens(w)
      PROVE  ClosedIsTended' /\ RestoredOpens'
  BY <1>4, OpenedTends DEF Connect, RestoreOpens, TendInv
<1>5. CASE Restore
  <2>1. ws' = None /\ restoring' = "deriving"
    BY <1>5 DEF Restore, socketVars
  <2> QED BY <2>1 DEF ClosedIsTended, RestoredOpens
<1>6. CASE RestoreDerives
  <2>1. /\ UNCHANGED <<ws, readyState, verdict, sessionId, closedByUser, reconnectTimer, onLine>>
        /\ restoring' = "opening"
    BY <1>6 DEF RestoreDerives, socketVars, shownVars, timerVars
  <2> QED BY <2>1 DEF TendInv, ClosedIsTended, RestoredOpens
<1>7. ASSUME NEW w \in Slots, Opened(w) PROVE ClosedIsTended' /\ RestoredOpens'
  <2>1. /\ readyState' = [readyState EXCEPT ![w] = "open"]
        /\ UNCHANGED <<ws, verdict, sessionId, closedByUser, restoring, reconnectTimer, onLine>>
    BY <1>7 DEF Opened, knownVars, timerVars
  <2> QED BY <2>1 DEF TendInv, TypeOK, ClosedIsTended, RestoredOpens
<1>8. ASSUME NEW w \in Slots, Dropped(w) PROVE ClosedIsTended' /\ RestoredOpens'
  BY <1>8, ClosedTends DEF Dropped
<1>9. ASSUME NEW w \in Slots, Arrives(w) PROVE ClosedIsTended' /\ RestoredOpens'
  <2>1. UNCHANGED <<ws, knownVars, onLine>>
    BY <1>9 DEF Arrives
  <2>2. CASE OnClose(w, Head(toClient[w]))
    BY <2>1, <2>2, ClosedTends
  <2>3. CASE UNCHANGED <<readyState, verdict, timerVars>>
    BY <1>1, <2>1, <2>3 DEF knownVars, timerVars
  <2> QED BY <1>9, <2>2, <2>3 DEF Arrives
<1>10. ASSUME NEW w \in Slots, ReconnectTimerFires(w) PROVE ClosedIsTended' /\ RestoredOpens'
  BY <1>10, ReconnectTends DEF ReconnectTimerFires
<1>11. ASSUME NEW w \in Slots, ComesIntoView(w) \/ RetryNow(w)
       PROVE  ClosedIsTended' /\ RestoredOpens'
  BY <1>11, ProbeOrReconnectTends DEF ComesIntoView, Wake, RetryNow
<1>12. ASSUME NEW w \in Slots, GoesOnline(w) PROVE ClosedIsTended' /\ RestoredOpens'
  <2>1. CASE Wake(w)
    BY <2>1, ProbeOrReconnectTends DEF Wake
  <2>2. CASE (closedByUser \/ ~sessionId) /\ UNCHANGED clientVars
    BY <2>2, ClientUnchanged DEF TendInv, ClosedIsTended, RestoredOpens
  <2> QED BY <1>12, <2>1, <2>2 DEF GoesOnline
<1>13. CASE ProbeTimesOut
  <2>1. /\ readyState' = (IF ws # None /\ readyState[ws] \in {"connecting", "open"}
                          THEN [readyState EXCEPT ![ws] = "closing"] ELSE readyState)
        /\ UNCHANGED <<ws, verdict, sessionId, closedByUser, restoring, reconnectTimer, onLine>>
    BY <1>13 DEF ProbeTimesOut, knownVars, shownVars
  <2> QED BY <2>1 DEF TendInv, TypeOK, ClosedIsTended, RestoredOpens
<1>14. CASE Disconnect
  <2>1. closedByUser' = TRUE /\ UNCHANGED <<ws, sessionId, restoring>>
    BY <1>14 DEF Disconnect
  <2> QED BY <2>1 DEF TendInv, ClosedIsTended, RestoredOpens
<1>15. CASE Handle
  <2>1. UNCHANGED <<ws, readyState, verdict, closedByUser, restoring, reconnectTimer, onLine>>
    BY <1>15 DEF Handle, socketVars
  <2>2. sessionId' = sessionId \/ ws \in Slots
    <3>1. inbox # <<>> /\ inbox \in Seq([from : Slots, frame : Frames])
      BY <1>15 DEF Handle, TendInv, TypeOK
    <3>2. Head(inbox) \in [from : Slots, frame : Frames]
      BY <3>1, HeadType
    <3>3. deriving' => Head(inbox).from = ws
      BY <1>15 DEF Handle
    <3>4. sessionId' = (sessionId \/ deriving')
      BY <1>15 DEF Handle
    <3>5. deriving' => ws \in Slots
      BY <3>2, <3>3
    <3>6. ~deriving' => sessionId' = sessionId
      BY <1>15, <3>4 DEF TendInv, TypeOK
    <3> QED BY <3>5, <3>6
  <2>3. ws \in Slots => ws # None
    BY SlotAssumption DEF SlotAssumption
  <2>4. sessionId => sessionId'
    BY <1>15 DEF Handle
  <2> QED BY <2>1, <2>2, <2>3, <2>4 DEF TendInv, ClosedIsTended, RestoredOpens
<1>16. CASE Derived
  BY <1>1, <1>16 DEF Derived, socketVars, timerVars
<1>17. ASSUME NEW w \in Slots, Relay(w) \/ Sever(w) PROVE ClosedIsTended' /\ RestoredOpens'
  BY <1>2, <1>17 DEF Relay, RelayAttaches, RelayRefuses, RelayReads, RelayNotices, Sever
<1>18. CASE CliDropsOrReturns \/ SessionEnds
  BY <1>2, <1>18 DEF CliDropsOrReturns, SessionEnds
<1>19. CASE GoesOffline
  <2>1. UNCHANGED clientVars /\ onLine' = FALSE
    BY <1>19 DEF GoesOffline
  <2> QED BY <2>1, ClientUnchanged DEF TendInv, ClosedIsTended, RestoredOpens
<1> QED BY <1>3, <1>4, <1>5, <1>6, <1>7, <1>8, <1>9, <1>10, <1>11, <1>12, <1>13, <1>14,
           <1>15, <1>16, <1>17, <1>18, <1>19 DEF Next, Client

LEMMA TendHolds == SafeSpec => []TendInv
<1>1. TendInv /\ [Next]_vars => TendInv'
  BY TypeStep, TendStep DEF TendInv
<1> QED BY <1>1, InitTend, PTL DEF SafeSpec

\* The client, the relay behind it and the wire keep their types, and a handler that
\* waits for its key still has its frame.
THEOREM TypeSafety == SafeSpec => []TypeOK
<1>1. TendInv => TypeOK
  BY DEF TendInv
<1> QED BY <1>1, TendHolds, PTL

\* A session the client means to keep always has a line, or what opens the next one:
\* the timer, or the return of the network (termly-client.js:193, 206-212).
THEOREM LineIsAlwaysTended == SafeSpec => []LineIsTended
<1>1. TendInv => LineIsTended
  BY DEF TendInv, ClosedIsTended, RestoredOpens, LineIsTended, Unlined
<1> QED BY <1>1, TendHolds, PTL

\* No step opens a socket.
OpensNone == \A w \in Slots : readyState'[w] = "connecting" => readyState[w] = "connecting"

LEMMA Unchanged == ASSUME readyState' = readyState PROVE OpensNone
BY DEF OpensNone

LEMMA CloseOpensNone ==
  ASSUME TypeOK, NEW w \in Slots, NEW reason, OnClose(w, reason) PROVE OpensNone
BY DEF OnClose, OpensNone, TypeOK

LEMMA RetryOpensNone ==
  ASSUME TypeOK, closedByUser, NEW w \in Slots, ProbeOrReconnect(w) PROVE OpensNone
BY DEF ProbeOrReconnect, ReconnectNow, OpensNone, socketVars

LEMMA FinalStep ==
  ASSUME TypeOK, closedByUser, restoring = "no", [Next]_vars PROVE OpensNone
<1>1. CASE \E w \in Slots : Client(w)
  <2>1. PICK w \in Slots : Client(w)
    BY <1>1
  <2>2. ~Connect(w) /\ ~RestoreOpens(w) /\ ~ComesIntoView(w)
    BY DEF Connect, RestoreOpens, ComesIntoView, Wake
  <2>3. CASE Opened(w)
    BY <2>3 DEF Opened, OpensNone, TypeOK
  <2>4. CASE Dropped(w)
    BY <2>4, CloseOpensNone DEF Dropped
  <2>5. CASE Arrives(w)
    <3>1. CASE OnClose(w, Head(toClient[w]))
      BY <3>1, CloseOpensNone
    <3>2. CASE UNCHANGED readyState
      BY <3>2, Unchanged
    <3> QED BY <2>5, <3>1, <3>2 DEF Arrives
  <2>6. CASE ReconnectTimerFires(w)
    BY <2>6, Unchanged DEF ReconnectTimerFires, ReconnectNow, socketVars
  <2>7. CASE GoesOnline(w)
    BY <2>7, Unchanged DEF GoesOnline, Wake, clientVars, socketVars
  <2>8. CASE RetryNow(w)
    BY <2>8, RetryOpensNone DEF RetryNow
  <2> QED BY <2>1, <2>2, <2>3, <2>4, <2>5, <2>6, <2>7, <2>8 DEF Client
<1>2. CASE \E w \in Slots : Relay(w) \/ Sever(w)
  BY <1>2, Unchanged DEF Relay, RelayAttaches, RelayRefuses, RelayReads, RelayNotices, Sever,
    clientVars, socketVars
<1>3. CASE Restore \/ RestoreDerives \/ Handle \/ Derived
  BY <1>3, Unchanged DEF Restore, RestoreDerives, Handle, Derived, socketVars
<1>4. CASE ProbeTimesOut \/ Disconnect
  BY <1>4 DEF ProbeTimesOut, Disconnect, OpensNone, TypeOK
<1>5. CASE CliDropsOrReturns \/ SessionEnds \/ GoesOffline
  BY <1>5, Unchanged DEF CliDropsOrReturns, SessionEnds, GoesOffline, clientVars, socketVars
<1>6. CASE UNCHANGED vars
  BY <1>6, Unchanged DEF vars, clientVars, socketVars
<1> QED BY <1>1, <1>2, <1>3, <1>4, <1>5, <1>6 DEF Next

\* Once the user has ended it, a session opens no further socket, whatever was still
\* queued, pending or deriving (termly-client.js:104, 232).
THEOREM DisconnectIsAlwaysFinal == SafeSpec => DisconnectIsFinal
<1>1. TendInv /\ [Next]_vars => [closedByUser /\ restoring = "no" => OpensNone]_vars
  BY FinalStep DEF TendInv
<1>2. TendInv /\ [Next]_vars =>
        [closedByUser /\ restoring = "no" =>
           \A w \in Slots : readyState'[w] = "connecting" => readyState[w] = "connecting"]_vars
  BY <1>1 DEF OpensNone
<1> QED BY <1>2, TendHolds, PTL DEF SafeSpec, DisconnectIsFinal

-----------------------------------------------------------------------------
(* The line keeps its promise *)

Step == [Line!Next]_(Line!lineVars)

LEMMA LineIs ==
  ASSUME TypeOK
  PROVE  /\ \A w \in Slots : w # None
         /\ ws = None => line = "none"
         /\ ws # None => /\ ws \in Slots /\ line = readyState[ws] /\ line # "none"
                         /\ line \in {"connecting", "open", "closing", "closed"}
         /\ connected <=> line = "open"
         /\ closedByUser => phase = "ended"
         /\ ~closedByUser /\ sessionId => phase = "known"
         /\ ~closedByUser /\ ~sessionId => phase = "unknown"
BY SlotAssumption DEF TypeOK, SlotAssumption, line, phase, connected

\* Steps of which the page sees nothing, and those that only tend the line or may stop.
LEMMA SameLine ==
  ASSUME UNCHANGED <<ws, closedByUser, sessionId>>, ws # None => readyState'[ws] = readyState[ws]
  PROVE  line' = line /\ phase' = phase
BY DEF line, phase

LEMMA StutterStep ==
  ASSUME line' = line, phase' = phase, verdict' = verdict, tended' = tended,
         restoring' = restoring \/ (restoring # "no" /\ restoring' # "no")
  PROVE  Step
BY DEF Step, Line!lineVars

LEMMA TendedStep ==
  ASSUME line' = line, phase' = phase, verdict' = verdict, restoring' = restoring,
         tended' \in BOOLEAN,
         ~tended' => line = "open" \/ phase # "known"
  PROVE  Step
<1>1. CASE tended'
  BY <1>1 DEF Step, Line!Next, Line!Tend
<1>2. CASE ~tended'
  BY <1>2 DEF Step, Line!Next, Line!Rest
<1> QED BY <1>1, <1>2

\* The next line is tried only when there is no open one, and only for a session to keep.
LEMMA TryStep ==
  ASSUME TypeOK, TypeOK', NEW w \in Slots, NEW code, Open(w, code), UNCHANGED knownVars,
         ~closedByUser, ws = None \/ (sessionId /\ ~connected)
  PROVE  Step
<1>1. ws' = w /\ readyState'[w] = "connecting" /\ verdict' = "none"
  BY DEF Open, TypeOK
<1>2. line' = "connecting"
  BY <1>1, LineIs DEF line
<1>3. phase' = phase /\ restoring' = restoring
  BY DEF phase, knownVars
<1>4. line # "open" /\ (phase = "known" \/ (phase = "unknown" /\ line = "none"))
  BY LineIs DEF TypeOK
<1>5. tended' \in BOOLEAN
  BY DEF TypeOK, tended
<1>6. Line!Try
  BY <1>1, <1>2, <1>3, <1>4, <1>5 DEF Line!Try
<1> QED BY <1>6 DEF Step, Line!Next

LEMMA ReconnectStep ==
  ASSUME TypeOK, TypeOK', NEW w \in Slots, ReconnectNow(w), UNCHANGED knownVars
  PROVE  Step
<1>1. CASE ~closedByUser /\ sessionId /\ ~connected
  BY <1>1, TryStep DEF ReconnectNow
<1>2. CASE closedByUser \/ ~sessionId \/ connected
  <2>1. UNCHANGED <<ws, readyState, verdict, sessionId, closedByUser, restoring>>
    BY <1>2 DEF ReconnectNow, socketVars, knownVars
  <2>2. line' = line /\ phase' = phase
    BY <2>1, SameLine
  <2>3. line = "open" \/ phase # "known"
    BY <1>2, LineIs DEF TypeOK, phase
  <2>4. tended' \in BOOLEAN
    BY DEF TypeOK, tended
  <2> QED BY <2>1, <2>2, <2>3, <2>4, TendedStep
<1> QED BY <1>1, <1>2

LEMMA ProbeOrReconnectStep ==
  ASSUME TypeOK, TypeOK', NEW w \in Slots, ProbeOrReconnect(w)
  PROVE  Step
<1>1. UNCHANGED knownVars
  BY DEF ProbeOrReconnect
<1>2. CASE connected
  <2>1. UNCHANGED <<ws, readyState, verdict, sessionId, closedByUser, restoring>>
    BY <1>1, <1>2 DEF ProbeOrReconnect, socketVars, knownVars
  <2>2. line' = line /\ phase' = phase /\ line = "open"
    BY <1>2, <2>1, SameLine, LineIs
  <2>3. tended' \in BOOLEAN
    BY DEF TypeOK, tended
  <2> QED BY <2>1, <2>2, <2>3, TendedStep
<1>3. CASE ~connected
  BY <1>1, <1>3, ReconnectStep DEF ProbeOrReconnect
<1> QED BY <1>2, <1>3

\* The close of the live socket breaks the line; that of a replaced one is not seen.
LEMMA BreakStep ==
  ASSUME TypeOK, TypeOK', NEW w \in Slots, NEW reason, OnClose(w, reason),
         readyState[w] # "closed", UNCHANGED <<ws, knownVars, onLine>>
  PROVE  Step
<1>1. /\ readyState' = [readyState EXCEPT ![w] = "closed"]
      /\ UNCHANGED <<ws, sessionId, closedByUser, restoring, onLine>>
  BY DEF OnClose, knownVars
<1>2. CASE w # ws
  <2>1. UNCHANGED <<verdict, reconnectTimer>>
    BY <1>2 DEF OnClose
  <2>2. line' = line /\ phase' = phase
    BY <1>1, <1>2, SameLine DEF TypeOK
  <2>3. tended' = tended
    BY <1>1, <2>1 DEF tended
  <2> QED BY <1>1, <2>1, <2>2, <2>3, StutterStep
<1>3. CASE w = ws
  <2>1. line' = "closed" /\ phase' = phase /\ restoring' = restoring
    BY <1>1, <1>3, LineIs DEF line, phase, TypeOK
  <2>2. line \in Line!Alive
    BY <1>3, LineIs DEF Line!Alive
  <2>3. \/ verdict' \in {"lost", "fatal"} /\ tended' = tended
        \/ phase = "known" /\ tended' = TRUE /\ verdict' = verdict
        \/ phase = "unknown" /\ verdict' = "fatal" /\ tended' = tended
        \/ phase = "ended" /\ verdict' = verdict /\ tended' = tended
    <3>1. CASE reason \in Reasons
      <4>1. verdict' = Verdict(reason) /\ reconnectTimer' = reconnectTimer
        BY <1>3, <3>1 DEF OnClose
      <4> QED BY <1>1, <4>1 DEF Verdict, tended
    <3>2. CASE reason \notin Reasons /\ closedByUser
      <4>1. UNCHANGED <<verdict, reconnectTimer>>
        BY <1>3, <3>2 DEF OnClose
      <4> QED BY <1>1, <3>2, <4>1, LineIs DEF tended
    <3>3. CASE reason \notin Reasons /\ ~closedByUser
      <4>1. ScheduleReconnect
        BY <1>3, <3>3 DEF OnClose
      <4>2. CASE sessionId
        <5>1. verdict' = verdict /\ reconnectTimer' = (reconnectTimer \/ onLine)
          BY <4>1, <4>2 DEF ScheduleReconnect
        <5>2. reconnectTimer \in BOOLEAN /\ onLine \in BOOLEAN /\ onLine' = onLine
          BY <1>1 DEF TypeOK
        <5>3. tended' = TRUE
          BY <5>1, <5>2 DEF tended
        <5> QED BY <3>3, <4>2, <5>1, <5>3, LineIs
      <4>3. CASE ~sessionId
        <5>1. verdict' = "fatal" /\ reconnectTimer' = reconnectTimer
          BY <4>1, <4>3 DEF ScheduleReconnect, TypeOK
        <5> QED BY <1>1, <3>3, <4>3, <5>1, LineIs DEF tended
      <4> QED BY <4>2, <4>3
    <3> QED BY <3>1, <3>2, <3>3
  <2>4. Line!Break
    BY <2>1, <2>2, <2>3 DEF Line!Break
  <2> QED BY <2>4 DEF Step, Line!Next
<1> QED BY <1>2, <1>3

LEMMA LineStep == ASSUME TypeOK, TypeOK', [Next]_vars PROVE Step
<1>0. ASSUME UNCHANGED <<ws, sessionId, closedByUser, verdict, restoring, reconnectTimer, onLine>>,
             ws # None => readyState'[ws] = readyState[ws]
      PROVE  Step
  BY <1>0, SameLine, StutterStep DEF tended
<1>1. CASE UNCHANGED clientVars /\ UNCHANGED onLine
  BY <1>0, <1>1, ClientUnchanged
<1>2. CASE UNCHANGED vars
  BY <1>1, <1>2 DEF vars
<1>3. ASSUME NEW w \in Slots, Connect(w) PROVE Step
  BY <1>3, TryStep DEF Connect
<1>4. CASE Restore
  <2>1. /\ ws = None /\ ws' = None /\ ~closedByUser /\ ~sessionId /\ sessionId' = TRUE
        /\ restoring' = "deriving"
        /\ UNCHANGED <<closedByUser, verdict, reconnectTimer, onLine>>
    BY <1>4 DEF Restore, socketVars, shownVars, timerVars
  <2>2. line = "none" /\ line' = "none" /\ phase = "unknown" /\ phase' = "known" /\ tended' = tended
    BY <2>1 DEF line, phase, tended
  <2>3. Line!Restore
    BY <2>1, <2>2 DEF Line!Restore
  <2> QED BY <2>3 DEF Step, Line!Next
<1>5. CASE RestoreDerives
  <2>1. /\ UNCHANGED <<ws, readyState, verdict, sessionId, closedByUser, reconnectTimer, onLine>>
        /\ restoring # "no" /\ restoring' # "no"
    BY <1>5 DEF RestoreDerives, socketVars, shownVars, timerVars
  <2> QED BY <2>1, SameLine, StutterStep DEF tended
<1>6. ASSUME NEW w \in Slots, RestoreOpens(w) PROVE Step
  <2>1. /\ ws' = w /\ readyState'[w] = "connecting" /\ verdict' = "none"
        /\ restoring # "no" /\ restoring' = "no"
        /\ UNCHANGED <<sessionId, closedByUser, reconnectTimer, onLine>>
    BY <1>6 DEF RestoreOpens, Open, TypeOK, timerVars
  <2>2. line' = "connecting" /\ phase' = phase /\ tended' = tended
    BY <2>1, LineIs DEF line, phase, tended
  <2>3. Line!EndRestore
    BY <2>1, <2>2 DEF Line!EndRestore
  <2> QED BY <2>3 DEF Step, Line!Next
<1>7. ASSUME NEW w \in Slots, Opened(w) PROVE Step
  <2>1. /\ readyState[w] = "connecting" /\ readyState' = [readyState EXCEPT ![w] = "open"]
        /\ UNCHANGED <<ws, verdict, sessionId, closedByUser, restoring, reconnectTimer, onLine>>
    BY <1>7 DEF Opened, knownVars, timerVars
  <2>2. CASE w = ws
    <3>1. line = "connecting" /\ line' = "open" /\ phase' = phase /\ tended' = tended
      BY <2>1, <2>2, LineIs DEF line, phase, tended, TypeOK
    <3>2. Line!Rise
      BY <2>1, <3>1 DEF Line!Rise
    <3> QED BY <3>2 DEF Step, Line!Next
  <2>3. CASE w # ws
    BY <1>0, <2>1, <2>3 DEF TypeOK
  <2> QED BY <2>2, <2>3
<1>8. ASSUME NEW w \in Slots, Dropped(w) PROVE Step
  <2>1. readyState[w] # "closed" /\ OnClose(w, "dropped") /\ UNCHANGED <<ws, knownVars, onLine>>
    BY <1>8 DEF Dropped
  <2> QED BY <2>1, BreakStep
<1>9. ASSUME NEW w \in Slots, Arrives(w) PROVE Step
  <2>1. readyState[w] # "closed" /\ UNCHANGED <<ws, knownVars, onLine>>
    BY <1>9 DEF Arrives
  <2>2. CASE OnClose(w, Head(toClient[w]))
    BY <2>1, <2>2, BreakStep
  <2>3. CASE UNCHANGED <<readyState, verdict, timerVars>>
    BY <1>0, <2>1, <2>3 DEF knownVars, timerVars
  <2> QED BY <1>9, <2>2, <2>3 DEF Arrives
<1>10. ASSUME NEW w \in Slots, ReconnectTimerFires(w) PROVE Step
  BY <1>10, ReconnectStep DEF ReconnectTimerFires
<1>11. ASSUME NEW w \in Slots, ComesIntoView(w) \/ RetryNow(w) PROVE Step
  BY <1>11, ProbeOrReconnectStep DEF ComesIntoView, Wake, RetryNow
<1>12. ASSUME NEW w \in Slots, GoesOnline(w) PROVE Step
  <2>1. CASE Wake(w)
    BY <2>1, ProbeOrReconnectStep DEF Wake
  <2>2. CASE (closedByUser \/ ~sessionId) /\ UNCHANGED clientVars
    <3>1. UNCHANGED <<ws, readyState, verdict, sessionId, closedByUser, restoring>>
      BY <2>2, ClientUnchanged
    <3>2. line' = line /\ phase' = phase /\ phase # "known"
      BY <2>2, <3>1, SameLine DEF phase
    <3>3. tended' \in BOOLEAN
      BY DEF TypeOK, tended
    <3> QED BY <3>1, <3>2, <3>3, TendedStep
  <2> QED BY <1>12, <2>1, <2>2 DEF GoesOnline
<1>13. CASE ProbeTimesOut
  <2>1. /\ readyState' = (IF ws # None /\ readyState[ws] \in {"connecting", "open"}
                          THEN [readyState EXCEPT ![ws] = "closing"] ELSE readyState)
        /\ UNCHANGED <<ws, verdict, sessionId, closedByUser, restoring, reconnectTimer, onLine>>
    BY <1>13 DEF ProbeTimesOut, knownVars, shownVars
  <2>2. CASE ws # None /\ readyState[ws] \in {"connecting", "open"}
    <3>1. /\ line \in {"connecting", "open"} /\ line' = "closing" /\ phase' = phase
          /\ tended' = tended
      BY <2>1, <2>2, LineIs DEF line, phase, tended, TypeOK
    <3>2. Line!Doubt
      BY <2>1, <3>1 DEF Line!Doubt
    <3> QED BY <3>2 DEF Step, Line!Next
  <2>3. CASE ~(ws # None /\ readyState[ws] \in {"connecting", "open"})
    BY <1>0, <2>1, <2>3
  <2> QED BY <2>2, <2>3
<1>14. CASE Disconnect
  <2>1. /\ ws # None \/ restoring # "no"
        /\ ~closedByUser /\ closedByUser' = TRUE /\ reconnectTimer' = FALSE
        /\ readyState' = (IF ws # None /\ readyState[ws] \in {"connecting", "open"}
                          THEN [readyState EXCEPT ![ws] = "closing"] ELSE readyState)
        /\ UNCHANGED <<ws, verdict, restoring, onLine>>
    BY <1>14 DEF Disconnect, shownVars
  <2>2. phase # "ended" /\ phase' = "ended"
    BY <2>1 DEF phase
  <2>3. line # "none" \/ restoring # "no"
    BY <2>1, LineIs
  <2>4. line' = IF line \in {"connecting", "open"} THEN "closing" ELSE line
    BY <2>1, LineIs DEF line, TypeOK
  <2>5. tended' \in {tended, FALSE}
    BY <2>1 DEF tended, TypeOK
  <2>6. Line!End
    BY <2>1, <2>2, <2>3, <2>4, <2>5 DEF Line!End
  <2> QED BY <2>6 DEF Step, Line!Next
<1>15. CASE Handle
  <2>1. UNCHANGED <<ws, readyState, verdict, closedByUser, restoring, reconnectTimer, onLine>>
    BY <1>15 DEF Handle, socketVars
  <2>2. sessionId' = sessionId \/ (~sessionId /\ sessionId' = TRUE /\ ws \in Slots)
    <3>1. inbox # <<>> /\ inbox \in Seq([from : Slots, frame : Frames])
      BY <1>15 DEF Handle, TypeOK
    <3>2. Head(inbox) \in [from : Slots, frame : Frames]
      BY <3>1, HeadType
    <3>3. (deriving' => Head(inbox).from = ws) /\ sessionId' = (sessionId \/ deriving')
      BY <1>15 DEF Handle
    <3>4. deriving' \in BOOLEAN /\ sessionId \in BOOLEAN /\ sessionId' \in BOOLEAN
      BY DEF TypeOK
    <3> QED BY <3>2, <3>3, <3>4
  <2>3. CASE sessionId' = sessionId
    BY <1>0, <2>1, <2>3
  <2>4. CASE ~sessionId /\ sessionId' = TRUE /\ ws \in Slots
    <3>1. line' = line /\ line # "none" /\ tended' = tended
      BY <2>1, <2>4, LineIs DEF line, tended
    <3>2. CASE closedByUser
      <4>1. phase' = phase
        BY <2>1, <3>2 DEF phase
      <4> QED BY <2>1, <3>1, <4>1, StutterStep
    <3>3. CASE ~closedByUser
      <4>1. phase = "unknown" /\ phase' = "known"
        BY <2>1, <2>4, <3>3 DEF phase
      <4>2. Line!Learn
        BY <2>1, <3>1, <4>1 DEF Line!Learn
      <4> QED BY <4>2 DEF Step, Line!Next
    <3> QED BY <3>2, <3>3
  <2> QED BY <2>2, <2>3, <2>4
<1>16. CASE Derived
  BY <1>0, <1>16 DEF Derived, socketVars, timerVars
<1>17. ASSUME NEW w \in Slots, Relay(w) \/ Sever(w) PROVE Step
  BY <1>1, <1>17 DEF Relay, RelayAttaches, RelayRefuses, RelayReads, RelayNotices, Sever
<1>18. CASE CliDropsOrReturns \/ SessionEnds
  BY <1>1, <1>18 DEF CliDropsOrReturns, SessionEnds
<1>19. CASE GoesOffline
  <2>1. UNCHANGED clientVars /\ onLine' = FALSE
    BY <1>19 DEF GoesOffline
  <2>2. /\ line' = line /\ phase' = phase /\ verdict' = verdict /\ restoring' = restoring
        /\ tended' = TRUE
    BY <2>1, ClientUnchanged, SameLine DEF tended
  <2> QED BY <2>2, TendedStep
<1> QED BY <1>2, <1>3, <1>4, <1>5, <1>6, <1>7, <1>8, <1>9, <1>10, <1>11, <1>12, <1>13, <1>14,
           <1>15, <1>16, <1>17, <1>18, <1>19 DEF Next, Client

\* The client implements the promise about its line: a line that breaks is given up with a
\* verdict or tended, and nothing but an ending or the next line takes that away, whichever
\* sockets overlap (termly-client.js:104-110, 175-214, 407-415).
THEOREM Implementation == SafeSpec => ImplementsLine
<1>1. Init => Line!Init
  BY DEF Init, Line!Init, line, phase, tended
<1>2. TypeOK /\ TypeOK' /\ [Next]_vars => [Line!Next]_(Line!lineVars)
  BY LineStep DEF Step
<1> QED BY <1>1, <1>2, TypeSafety, PTL DEF SafeSpec, ImplementsLine, Line!SafeSpec
=============================================================================
