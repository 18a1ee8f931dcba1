---------------------------- MODULE SavedSession ----------------------------
(***************************************************************************)
(* What a phone keeps in localStorage to survive a cold start              *)
(* (public/termly-session.js), with the page that saves, loads and wipes   *)
(* it (public/app.js) and the client state a snapshot is taken of          *)
(* (public/termly-client.js).  One page at a time; the system may kill it  *)
(* at any moment, without an event.  The relay is external: it acknowledges*)
(* a pairing, sends output, or refuses.                                    *)
(*                                                                         *)
(* The blob is the session's name, its last sequence number and its age    *)
(* (savedAt); the keys are part of the name.  MaxSeq bounds the output,    *)
(* MaxAge is MAX_AGE_MS in ticks.  paired, ended and refused are history.  *)
(***************************************************************************)
EXTENDS Naturals

CONSTANTS Sessions, None, MaxSeq, MaxAge

ASSUME NoneAssumption ==
  None \notin Sessions /\ None \notin [session : Sessions, seq : Nat, age : Nat]
ASSUME BoundAssumption == MaxSeq \in Nat /\ MaxAge \in Nat

VARIABLES
  stored,     \* the blob, or None
  page,       \* "closed", "landing" or "session"
  offered,    \* the blob the landing page read, or None
  line,       \* "none", "pairing", "deriving", "up", "dead" or "left"
  sessionId,
  lastSeq,
  drawn,      \* how far the text is drawn: behind lastSeq within a batch
  unparsed,   \* has the terminal text that it has not parsed yet?
  pending,    \* is there progress the persister has not saved?
  timer,      \* the persister's: "none", "armed" or "spent"
  paired,     \* the sessions a code was spent on
  ended,      \* session -> "no", or how it ended: "lost", "quit" or "forgotten"
  refused     \* has a write to localStorage been refused (full, or private mode)?

persister == <<pending, timer>>
progress == <<lastSeq, drawn>>
client == <<line, sessionId, progress>>
history == <<paired, ended>>
vars == <<stored, page, offered, client, unparsed, persister, history, refused>>

Blob == [session : Sessions, seq : 0 .. MaxSeq, age : 0 .. MaxAge + 1]

TypeOK ==
  /\ stored \in Blob \cup {None}
  /\ page \in {"closed", "landing", "session"}
  /\ offered \in Blob \cup {None}
  /\ line \in {"none", "pairing", "deriving", "up", "dead", "left"}
  /\ sessionId \in Sessions \cup {None}
  /\ lastSeq \in 0 .. MaxSeq
  /\ drawn \in 0 .. MaxSeq
  /\ unparsed \in BOOLEAN
  /\ pending \in BOOLEAN
  /\ timer \in {"none", "armed", "spent"}
  /\ paired \subseteq Sessions
  /\ ended \in [Sessions -> {"no", "lost", "quit", "forgotten"}]
  /\ refused \in BOOLEAN

NoPage ==
  /\ page' = "closed"
  /\ offered' = None
  /\ line' = "none"
  /\ sessionId' = None
  /\ lastSeq' = 0
  /\ drawn' = 0
  /\ unparsed' = FALSE

Init ==
  /\ stored = None
  /\ page = "closed"
  /\ offered = None
  /\ line = "none"
  /\ sessionId = None
  /\ lastSeq = 0
  /\ drawn = 0
  /\ unparsed = FALSE
  /\ pending = FALSE
  /\ timer = "none"
  /\ paired = {}
  /\ ended = [s \in Sessions |-> "no"]
  /\ refused = FALSE

-----------------------------------------------------------------------------
(* Storage *)

\* The client has something to save once its pairing was acknowledged.
Snapshot(s, n) == IF s = None THEN None ELSE [session |-> s, seq |-> n, age |-> 0]

\* saveSession: a refused write leaves what is there, silently.
Save(blob) ==
  \/ stored' = (IF blob = None THEN stored ELSE blob) /\ UNCHANGED refused
  \/ blob # None /\ UNCHANGED stored /\ refused' = TRUE

SlipTimerAfterFlush == "spent"

TimerAfterFlush == "none"

\* flush.
Flush ==
  /\ timer' = TimerAfterFlush
  /\ pending' = FALSE
  /\ IF pending THEN Save(Snapshot(sessionId, lastSeq)) ELSE UNCHANGED <<stored, refused>>

SlipArmed(t) == t

\* schedule leaves a timer that is already set alone.
Armed(t) == IF t = "none" THEN "armed" ELSE t

Ending(s, how) == IF s = None THEN ended ELSE [ended EXCEPT ![s] = how]

-----------------------------------------------------------------------------
(* The landing page *)

Fresh(blob) == blob # None /\ blob.age <= MaxAge

\* A page is opened: it offers what loadSession gives, which drops a blob too old.
Load ==
  /\ page = "closed"
  /\ page' = "landing"
  /\ stored' = IF Fresh(stored) THEN stored ELSE None
  /\ offered' = stored'
  /\ UNCHANGED <<client, unparsed, persister, history, refused>>

\* "Forget it".
Forget ==
  /\ page = "landing" /\ offered # None
  /\ stored' = None
  /\ offered' = None
  /\ ended' = Ending(offered.session, "forgotten")
  /\ UNCHANGED <<page, client, unparsed, persister, paired, refused>>

\* Pairing with a code, which may be mistyped.
StartPairing ==
  /\ page = "landing"
  /\ page' = "session"
  /\ line' = "pairing"
  /\ UNCHANGED <<stored, offered, sessionId, progress, unparsed, persister, history, refused>>

SlipSeqOf(blob) == 0

\* restore picks up where the blob was.
SeqOf(blob) == blob.seq

\* "Resume": the session is restored, and its key derived from there on.
Resume ==
  /\ page = "landing" /\ offered # None
  /\ page' = "session"
  /\ line' = "deriving"
  /\ sessionId' = offered.session
  /\ lastSeq' = SeqOf(offered)
  /\ drawn' = lastSeq'
  /\ UNCHANGED <<stored, offered, unparsed, persister, history, refused>>

-----------------------------------------------------------------------------
(* The session page *)

\* restore goes on: the terminal says it resumed, the socket is opened.
Derived ==
  /\ line = "deriving"
  /\ line' = "up"
  /\ unparsed' = TRUE
  /\ UNCHANGED <<stored, page, offered, sessionId, progress, persister, history, refused>>

\* pairing_ack, which persists at once.  A code is good for one pairing.
PairingAck(s) ==
  /\ line = "pairing"
  /\ s \notin paired
  /\ paired' = paired \cup {s}
  /\ line' = "up"
  /\ sessionId' = s
  /\ Save(Snapshot(s, lastSeq))
  /\ UNCHANGED <<page, offered, progress, unparsed, persister, ended>>

\* A batch is being decrypted: its numbers are taken, its text is not drawn yet.
Batching == drawn # lastSeq

\* Frames are handled one at a time, and to their end: on a page that is being left
\* too, where a restore that was cut short opens its socket all the same, and after a
\* refusal, which may find frames still queued.
Handling == line \in {"up", "dead", "left"} /\ sessionId # None

\* output: its number and its text come together.
Output ==
  /\ Handling /\ ~Batching /\ lastSeq < MaxSeq
  /\ lastSeq' = lastSeq + 1
  /\ drawn' = lastSeq'
  /\ unparsed' = TRUE
  /\ UNCHANGED <<stored, page, offered, line, sessionId, persister, history, refused>>

\* catchup_batch: an item is decrypted and its number taken; the text is kept back.
BatchItem ==
  /\ Handling /\ lastSeq < MaxSeq
  /\ lastSeq' = lastSeq + 1
  /\ UNCHANGED <<stored, page, offered, line, sessionId, drawn>>
  /\ UNCHANGED <<unparsed, persister, history, refused>>

\* The batch is through: its text, which is never empty, is drawn in one write.
BatchEnds ==
  /\ Batching
  /\ drawn' = lastSeq
  /\ unparsed' = TRUE
  /\ UNCHANGED <<stored, page, offered, line, sessionId, lastSeq, persister, history, refused>>

\* Text that is no output: the CLI went or came, a hole in the output.
Notice ==
  /\ Handling /\ ~Batching
  /\ unparsed' = TRUE
  /\ UNCHANGED <<stored, page, offered, client, persister, history, refused>>

\* sync_complete may carry a later sequence number; it persists at once.
SyncComplete ==
  /\ Handling /\ ~Batching
  /\ lastSeq' \in lastSeq .. MaxSeq
  /\ drawn' = lastSeq'
  /\ Save(Snapshot(sessionId, lastSeq'))
  /\ UNCHANGED <<page, offered, line, sessionId, unparsed, persister, history>>

\* The terminal has parsed what was written (onWriteParsed): schedule.
Parsed ==
  /\ unparsed
  /\ unparsed' = FALSE
  /\ pending' = TRUE
  /\ timer' = Armed(timer)
  /\ UNCHANGED <<stored, page, offered, client, history, refused>>

TimerFires ==
  /\ timer = "armed"
  /\ Flush
  /\ UNCHANGED <<page, offered, client, unparsed, history>>

\* visibilitychange to hidden: flushNow.
Hidden ==
  /\ page = "session"
  /\ Flush
  /\ UNCHANGED <<page, offered, client, unparsed, history>>

\* The relay refuses with session_not_found or session_expired: the blob is wiped and
\* the terminal told.  An unknown code is refused in the same way.
SessionLost ==
  /\ line \in {"pairing", "up"}
  /\ line' = "dead"
  /\ stored' = None
  /\ unparsed' = TRUE
  /\ ended' = Ending(sessionId, "lost")
  /\ UNCHANGED <<page, offered, sessionId, progress, persister, paired, refused>>

\* Any other refusal: the terminal is told.
Fatal ==
  /\ line \in {"pairing", "up"}
  /\ line' = "dead"
  /\ unparsed' = TRUE
  /\ UNCHANGED <<stored, page, offered, sessionId, progress, persister, history, refused>>

\* "End session": wipe, disconnect, and leave for the landing page.
Quit ==
  /\ page = "session" /\ line # "left"
  /\ line' = "left"
  /\ stored' = None
  /\ ended' = Ending(sessionId, "quit")
  /\ UNCHANGED <<page, offered, sessionId, progress, unparsed, persister, paired, refused>>

\* A reload, a navigation or a close: pagehide, and the page is gone.
PageHide ==
  /\ page = "session"
  /\ IF pending THEN Save(Snapshot(sessionId, lastSeq)) ELSE UNCHANGED <<stored, refused>>
  /\ NoPage
  /\ pending' = FALSE
  /\ timer' = "none"
  /\ UNCHANGED history

\* The system kills the page.
Killed ==
  /\ page # "closed"
  /\ NoPage
  /\ pending' = FALSE
  /\ timer' = "none"
  /\ UNCHANGED <<stored, history, refused>>

\* Time passes.
Ages ==
  /\ stored # None /\ stored.age <= MaxAge
  /\ stored' = [stored EXCEPT !.age = @ + 1]
  /\ UNCHANGED <<page, offered, client, unparsed, persister, history, refused>>

Next ==
  \/ Load \/ Forget \/ StartPairing \/ Resume
  \/ Derived \/ (\E s \in Sessions : PairingAck(s))
  \/ Output \/ BatchItem \/ BatchEnds \/ Notice \/ SyncComplete
  \/ Parsed \/ TimerFires \/ Hidden
  \/ SessionLost \/ Fatal \/ Quit \/ PageHide \/ Killed \/ Ages

SafeSpec == Init /\ [][Next]_vars

\* A page that is not killed gets through the batch it is decrypting, its terminal
\* parses what it is given, and its timers run.
Spec == SafeSpec /\ WF_vars(BatchEnds) /\ WF_vars(Parsed) /\ WF_vars(TimerFires)

-----------------------------------------------------------------------------
(* Properties *)

\* However pages are killed, reloaded and resumed, what is stored of a session never
\* goes back: a resume asks for everything after it, and would draw again what a later
\* blob had counted as drawn (termly-client.js:83-88, termly-session.js:101-107).
StoredNeverRegresses ==
  [][stored # None /\ stored' # None /\ stored'.session = stored.session
       => stored'.seq >= stored.seq]_vars

SavedUpTo(n) == stored # None /\ stored.session = sessionId /\ stored.seq >= n

\* While the session is live, progress that is not stored is about to be: it is part of
\* a batch that is still being decrypted, the terminal still has it to parse, or the persister
\* holds it under a running timer (termly-client.js:284-291, termly-session.js:97-117; a
\* timer not cleared to null would never be set again).
ProgressIsTended ==
  line = "up" /\ sessionId # None /\ ~SavedUpTo(lastSeq) /\ ~refused
    => Batching \/ unparsed \/ (pending /\ timer = "armed")

\* Output taken is stored in time, unless the page or its line goes first
\* (termly-session.js:92-96).
ProgressIsSaved ==
  \A n \in 1 .. MaxSeq :
    (line = "up" /\ lastSeq = n) ~> (line # "up" \/ SavedUpTo(n) \/ refused)

-----------------------------------------------------------------------------
(* What the comments and the README claim, and the code does not do *)

\* "End session in the menu wipes it" (README.md:264).
QuitWipes == stored # None => ended[stored.session] # "quit"

\* "it is wiped the moment the session is gone" (termly-session.js:12-13).
LostWipes == stored # None => ended[stored.session] # "lost"

\* "a `catchup_request` replays whatever was missed" (README.md:262-263): what a resume
\* takes up from has been drawn.
StoredWasDrawn == stored # None /\ stored.session = sessionId => stored.seq <= drawn

\* "The session is gone server-side; the stored blob can only mislead now"
\* (app.js:395): a blob is only wiped when it is too old or its own session is over.
WipedOnlyWhenOver ==
  [][stored # None /\ stored' = None
       => stored.age > MaxAge \/ ended'[stored.session] # "no"]_vars
=============================================================================
