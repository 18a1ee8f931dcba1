---------------------------- MODULE OutputReplay ----------------------------
(***************************************************************************)
(* How the web client keeps its scrollback honest (termly-client.js):      *)
(* every chunk of output carries the CLI's sequence number, a returning    *)
(* phone asks for what came after lastSeq, and a hole is marked where it   *)
(* is.  Handling a frame waits for its decryption, so frames are taken one *)
(* at a time.                                                              *)
(*                                                                         *)
(* The CLI is not part of the repository; it numbers its chunks from one   *)
(* in every life, keeps the newest of them for replay, and answers a       *)
(* request with a batch and the number it has reached (README.md:312, the  *)
(* comments of termly-client.js).  The relay only forwards.  A chunk is a  *)
(* life and a number.  Any chunk may be one this phone cannot decrypt, for *)
(* good: _plain gives null for it, whether the key or the cipher text is   *)
(* the wrong one.  A chunk that can be decrypted has some text.  MaxSeq,   *)
(* MaxGarbled, MaxLives, MaxDrops and MaxFlight bound the chunks of a      *)
(* life, those that do not decrypt, the lives, the lost connections, and   *)
(* what is under way.                                                      *)
(***************************************************************************)
EXTENDS Naturals, Sequences, FiniteSets

CONSTANTS
  MaxSeq, MaxGarbled, MaxLives, MaxDrops, MaxFlight,
  Replay         \* chunks the CLI's buffer holds

ASSUME BoundAssumption ==
  {MaxSeq, MaxGarbled, MaxLives, MaxDrops, MaxFlight, Replay} \subseteq Nat \ {0}

VARIABLES
  life, produced,        \* the CLI's life, and the chunks of it so far
  garbled,               \* chunks whose decryption is rejected
  requests,              \* lastSeq of each catchup_request on its way to the CLI
  uplink,                \* frames on their way from the CLI to the relay
  seated,                \* the relay has the phone's socket
  opened,                \* onopen has run: the client has asked
  received,              \* frames at the client, not yet taken up (the inbox)
  handlers,              \* handlers that wait for a decryption
  lastSeq, probeTimer,
  drawn, marked,         \* chunks written to the scrollback, or marked missing
  newest,                \* the last chunk drawn from a live output frame
  synced,                \* a sync_complete has been handled on this connection
  drops,
  parted                 \* history: a connection changed between a batch and its sync

vars == <<life, produced, garbled, requests, uplink, seated, opened, received, handlers,
          lastSeq, probeTimer, drawn, marked, newest, synced, drops, parted>>
cliVars == <<life, produced, garbled>>
lineVars == <<seated, opened, drops, parted>>
shownVars == <<drawn, marked, newest>>

Seqs == 1 .. MaxSeq
Chunks == (1 .. MaxLives) \X Seqs
\* The chunks from lo to hi of one life; a live output frame holds one.
Frames ==
  [type : {"output", "catchup_batch"}, life : 1 .. MaxLives,
   lo : 1 .. MaxSeq + 1, hi : 0 .. MaxSeq]
  \cup [type : {"sync_complete"}, currentSeq : 0 .. MaxSeq]
  \cup [type : {"cli_reconnected"}]

TypeOK ==
  /\ life \in 1 .. MaxLives /\ produced \in 0 .. MaxSeq /\ garbled \subseteq Chunks
  /\ requests \in Seq(0 .. MaxSeq)
  /\ uplink \in Seq(Frames) /\ received \in Seq(Frames)
  /\ handlers \in Seq(Frames)
  /\ seated \in BOOLEAN /\ opened \in BOOLEAN /\ probeTimer \in BOOLEAN
  /\ synced \in BOOLEAN /\ parted \in BOOLEAN
  /\ lastSeq \in 0 .. MaxSeq
  /\ drawn \subseteq Chunks /\ marked \subseteq Chunks
  /\ newest \in Chunks \cup {<<0, 0>>}
  /\ drops \in 0 .. MaxDrops

\* A page that has drawn everything up to some number, and is not connected.
Init ==
  /\ life = 1
  /\ lastSeq \in 0 .. MaxSeq - 1
  /\ produced = lastSeq /\ garbled = {}
  /\ drawn = {<<1, s>> : s \in 1 .. lastSeq} /\ marked = {}
  /\ requests = <<>> /\ uplink = <<>> /\ received = <<>> /\ handlers = <<>>
  /\ seated = FALSE /\ opened = FALSE /\ probeTimer = FALSE /\ synced = FALSE
  /\ newest = <<0, 0>> /\ drops = 0 /\ parted = FALSE

Greater(a, b) == IF a > b THEN a ELSE b
Kept == {s \in 1 .. produced : s + Replay > produced}

-----------------------------------------------------------------------------
\* The CLI: the next chunk, sealed for this phone or not.
Produce ==
  /\ produced < MaxSeq /\ Len(uplink) < MaxFlight
  /\ produced' = produced + 1
  /\ \/ UNCHANGED garbled
     \/ Cardinality(garbled) < MaxGarbled /\ garbled' = garbled \cup {<<life, produced'>>}
  /\ uplink' = Append(uplink, [type |-> "output", life |-> life,
                               lo |-> produced', hi |-> produced'])
  /\ UNCHANGED <<life, requests, lineVars, received, handlers, lastSeq, probeTimer,
                 shownVars, synced>>

CliAnswers ==
  /\ requests # <<>> /\ Len(uplink) + 1 < MaxFlight
  /\ requests' = Tail(requests)
  /\ LET evicted == IF produced > Replay THEN produced - Replay ELSE 0
         batch == [type |-> "catchup_batch", life |-> life,
                   lo |-> Greater(Head(requests), evicted) + 1, hi |-> produced]
     IN uplink' = uplink \o <<batch, [type |-> "sync_complete", currentSeq |-> produced]>>
  /\ UNCHANGED <<cliVars, lineVars, received, handlers, lastSeq, probeTimer, shownVars,
                 synced>>

\* A new CLI counts from one again; the phone is told.
CliRestarts ==
  /\ life < MaxLives
  /\ life' = life + 1
  /\ produced' = 0
  /\ uplink' = <<>> /\ requests' = <<>>
  /\ UNCHANGED garbled
  /\ received' = IF seated THEN Append(received, [type |-> "cli_reconnected"]) ELSE received
  /\ UNCHANGED <<lineVars, handlers, lastSeq, probeTimer, shownVars, synced>>

\* The relay forwards to whoever is seated, and drops what nobody is there for.
Forward ==
  /\ uplink # <<>>
  /\ Len(received) < MaxFlight
  /\ uplink' = Tail(uplink)
  /\ received' = IF seated THEN Append(received, Head(uplink)) ELSE received
  /\ UNCHANGED <<cliVars, requests, lineVars, handlers, lastSeq, probeTimer, shownVars,
                 synced>>

\* The relay has read a batch and not yet the sync_complete behind it.
BetweenTheTwo == uplink # <<>> /\ Head(uplink).type = "sync_complete"

-----------------------------------------------------------------------------
\* The connection is lost, and with it what had not arrived; what had is still
\* handled until another takes its place.
Drop ==
  /\ seated /\ drops < MaxDrops
  /\ drops' = drops + 1
  /\ seated' = FALSE
  /\ probeTimer' = FALSE
  /\ received' \in {SubSeq(received, 1, n) :
                     n \in IF opened THEN 0 .. Len(received) ELSE {0}}
  /\ parted' = (parted \/ BetweenTheTwo)
  /\ UNCHANGED <<cliVars, requests, uplink, opened, handlers, lastSeq, shownVars, synced>>

\* _open: frames of the connection before are no longer acted on; the relay seats
\* the new one before the client hears of it.
Reopen ==
  /\ ~seated
  /\ seated' = TRUE
  /\ opened' = FALSE
  /\ received' = <<>>
  /\ synced' = FALSE
  /\ parted' = (parted \/ BetweenTheTwo)
  /\ UNCHANGED <<cliVars, requests, uplink, handlers, lastSeq, probeTimer, shownVars,
                 drops>>

\* onopen, and _probe while the line is up: ask for what came after lastSeq.
Ask == Len(requests) < MaxFlight /\ requests' = Append(requests, lastSeq)

Opened ==
  /\ seated /\ ~opened
  /\ opened' = TRUE
  /\ Ask
  /\ UNCHANGED <<cliVars, uplink, seated, received, handlers, lastSeq, probeTimer,
                 shownVars, synced, drops, parted>>

Wake ==
  /\ seated /\ opened /\ ~probeTimer
  /\ probeTimer' = TRUE
  /\ Ask
  /\ UNCHANGED <<cliVars, uplink, lineVars, received, handlers, lastSeq, shownVars, synced>>

-----------------------------------------------------------------------------
SlipGap(l, next) == {<<l, s>> : s \in lastSeq + 2 .. next - 1}

\* _gap: what is missing before number next of the given life.
Gap(l, next) == IF lastSeq = 0 THEN {} ELSE {<<l, s>> : s \in lastSeq + 1 .. next - 1}

SlipMayTake == opened /\ received # <<>> /\ Len(handlers) < 2

\* The chain of the inbox: one frame at a time.
MayTake == opened /\ received # <<>> /\ handlers = <<>>

\* The handler of a frame with output starts, and waits for the decryption; a
\* batch marks its hole first.
TakeOutput ==
  LET frame == Head(received)
  IN /\ MayTake /\ frame.type \in {"output", "catchup_batch"}
     /\ handlers' = Append(handlers, frame)
     /\ received' = Tail(received)
     /\ marked' = IF frame.type = "catchup_batch" /\ frame.lo <= frame.hi
                  THEN marked \cup Gap(frame.life, frame.lo) ELSE marked
     /\ UNCHANGED <<cliVars, requests, uplink, lineVars, lastSeq, probeTimer, drawn,
                    newest, synced>>

\* The chunks in a frame.
Carried(frame) == {<<frame.life, s>> : s \in frame.lo .. frame.hi}

\* The numbers of a frame whose chunks decrypt (_plain does not give null).
Readable(frame) == {s \in frame.lo .. frame.hi : <<frame.life, s>> \notin garbled}

\* A batch is decrypted as far as one of its chunks: lastSeq has moved, past those that
\* do not decrypt too, and nothing is drawn yet.
DecryptItem(i) ==
  /\ handlers[i].type = "catchup_batch"
  /\ \E s \in Readable(handlers[i]) : s > lastSeq /\ lastSeq' = s
  /\ UNCHANGED <<cliVars, requests, uplink, lineVars, received, handlers, probeTimer,
                 shownVars, synced>>

SlipText(frame) == IF frame.hi <= lastSeq THEN {} ELSE Carried(frame) \ garbled

\* What a handled frame adds to the scrollback; nothing is held back for being
\* at or below lastSeq.
Text(frame) == Carried(frame) \ garbled

\* Where a handled frame leaves lastSeq: at its last chunk that decrypts, or beyond.
Reaches(frame, n) == \A s \in {lastSeq} \cup Readable(frame) : s <= n

\* The handler has its text: a live output marks its hole now, and what there is is
\* drawn.  Live output that does not decrypt is dropped before its hole is looked for.
FinishOutput(i) ==
  LET frame == handlers[i]
      chunks == Text(frame)
      live == frame.type = "output" /\ chunks # {}
  IN /\ handlers' = SubSeq(handlers, 1, i - 1) \o SubSeq(handlers, i + 1, Len(handlers))
     /\ \E n \in {lastSeq} \cup Readable(frame) : Reaches(frame, n) /\ lastSeq' = n
     /\ drawn' = drawn \cup chunks
     /\ marked' = IF live THEN marked \cup Gap(frame.life, frame.lo) ELSE marked
     /\ newest' = IF live THEN <<frame.life, frame.lo>> ELSE newest
     /\ UNCHANGED <<cliVars, requests, uplink, lineVars, received, probeTimer, synced>>

\* Where sync_complete leaves lastSeq.
Synced(seq) == Greater(lastSeq, seq)

HandleSync ==
  /\ MayTake /\ Head(received).type = "sync_complete"
  /\ received' = Tail(received)
  /\ lastSeq' = Synced(Head(received).currentSeq)
  /\ probeTimer' = FALSE
  /\ synced' = TRUE
  /\ UNCHANGED <<cliVars, requests, uplink, lineVars, handlers, shownVars>>

HandleReconnected ==
  /\ MayTake /\ Head(received).type = "cli_reconnected"
  /\ received' = Tail(received)
  /\ IF probeTimer \/ ~seated THEN UNCHANGED requests ELSE Ask
  /\ probeTimer' = TRUE
  /\ UNCHANGED <<cliVars, uplink, lineVars, handlers, lastSeq, shownVars, synced>>

ProbeTimesOut ==
  /\ probeTimer
  /\ probeTimer' = FALSE
  /\ UNCHANGED <<cliVars, requests, uplink, lineVars, received, handlers, lastSeq,
                 shownVars, synced>>

Next ==
  \/ Produce \/ CliAnswers \/ CliRestarts \/ Forward
  \/ Drop \/ Reopen \/ Opened \/ Wake \/ ProbeTimesOut
  \/ TakeOutput \/ HandleSync \/ HandleReconnected
  \/ \E i \in DOMAIN handlers : DecryptItem(i) \/ FinishOutput(i)

Spec == Init /\ [][Next]_vars

-----------------------------------------------------------------------------
\* Drawn, marked as missing, or being decrypted to be drawn.
Accounted == drawn \cup marked \cup UNION {Carried(handlers[i]) : i \in DOMAIN handlers}

\* "Neither is anything before the first frame of a session" (termly-client.js:346).
BeforeFirst(l, s) == \A t \in 1 .. s : <<l, t>> \notin drawn

HolesShow ==
  \A s \in 1 .. lastSeq :
    <<1, s>> \in Accounted \/ <<1, s>> \in garbled \/ BeforeFirst(1, s)

\* What the scrollback shows as continuous is: every chunk of the CLI's first life up to
\* lastSeq that this phone can decrypt has been drawn or its absence marked, through lost
\* connections, probes and repeated replays (README.md:316, termly-client.js:339).  The
\* exceptions, a restarted CLI, a parted answer and a chunk that does not decrypt, are below.
HolesAreMarked == life = 1 /\ ~parted => HolesShow

Quiet ==
  /\ seated /\ synced /\ ~probeTimer
  /\ requests = <<>> /\ uplink = <<>> /\ received = <<>> /\ handlers = <<>>
AllReplayed ==
  \A s \in Kept :
    \/ <<life, s>> \in Accounted \cup garbled
    \/ life = 1 /\ BeforeFirst(1, s)

\* When a synchronised line has fallen quiet, the phone shows, or marks as missing,
\* everything the CLI could still replay and the phone can decrypt (README.md:262); a
\* restart of the CLI is below.
QuietIsComplete == life = 1 /\ ~parted /\ Quiet => AllReplayed

\* Live output is drawn in the order it was produced, however long each decryption
\* takes and whichever connection brought it (termly-client.js:153, FIXES.md:464).
LiveOutputInOrder ==
  [][newest' # newest =>
       \/ newest'[1] > newest[1]
       \/ newest'[1] = newest[1] /\ newest'[2] > newest[2]]_vars

-----------------------------------------------------------------------------
(* What the comments and the README claim, and the code does not do *)

\* "What came back starts later than where the phone left off ... [it] marks the hole"
\* (README.md:316, termly-client.js:339), whatever connection a batch was sent to.
EveryHoleIsMarked == life = 1 => HolesShow

\* "Splicing that on silently is worse than showing a hole, because the scrollback then
\* reads as continuous text that never existed" (README.md:316, termly-client.js:339): up to
\* lastSeq nothing is absent without a mark.  A chunk that does not decrypt is only logged.
NothingIsSplicedSilently ==
  life = 1 /\ ~parted =>
    \A s \in 1 .. lastSeq : <<1, s>> \in Accounted \/ BeforeFirst(1, s)

\* A restarted CLI counts from one again, "which the resume path already deals with"
\* (termly-client.js:345): a synchronised line shows what the new one can replay.
RestartIsDealtWith == ~parted /\ Quiet => AllReplayed

\* "A sequence at or below where we already are is not a gap: that is the CLI
\* having restarted and begun counting from one again" (termly-client.js:344): a
\* frame that starts there does not repeat what was drawn.
BehindMeansRestarted ==
  [][LET frame == Head(received)
     IN (TakeOutput /\ frame.lo <= frame.hi /\ frame.lo <= lastSeq)
        => <<frame.life, frame.lo>> \notin drawn]_vars
=============================================================================
