# Termly relay: a verification project

TLA+ models of [termly-server](../src/README.md): the relay that joins a
command-line program (the CLI) to a phone, the web client it serves to the
phone with its service worker, and the two stores they keep. The models are
checked with TLC on small instances. All invariants, all action properties and
the safety part of both refinements that the runs check are also proved with
TLAPS, for every value of the constants.

Contents: [the system](#the-system), [modules](#modules), [runs](#runs),
[fairness](#fairness), [proofs](#proofs), [findings](#findings),
[what is not modelled](#what-is-not-modelled), [plan](#plan).

## The system

```
  CLI ──WebSocket──┐                       ┌──WebSocket── phone (web client)
   registers by    │   relay (server.js)   │   served by the relay, restored
   POST, replays   ├── session: cliWs,     ┤   from localStorage, kept alive
   its own output  │   mobileWs, timers    │   by a service worker
                   └───────────┬───────────┘
                               │ record()
                        event log (history.js) ── dashboard
```

| Component | State it keeps | Operations | What is hard about it |
|---|---|---|---|
| Relay registry, `server.js` 156–226, 477–604, 705–957, 959–1027 | sessions by code and by id; per session two seats, paired, three timers, `lastPong`; per socket its session and role | register, connect, refuse, attach, classify, forward, pair, disconnect, heartbeat, pairing and idle deadline, kill, shut down | roles are guessed from the order of arrival; close events come late; every timer races the events that cancel it |
| Backpressure, `server.js` 75–84, 251–337 | what waits for each socket, who is not read, a poll per watched peer | throttle, poll, release, cut off | pausing one socket for the sake of another, whose partner may be replaced meanwhile; the heartbeat shares the paused socket |
| Rate limiter, `server.js` 409–450 | one window and counter per bucket | count, sweep | window boundaries |
| Event log, `history.js` | a file of lines, a lazy count of them | record, trim, stats | errors and crashes between append, count and rewrite |
| Connection of the client, `termly-client.js` 69–235, 237–332, 367–415 | the live socket, session, key, two timers, inbox, `cliOnline` | connect, restore, wake, probe, reconnect, retry, disconnect, handle a frame | several sockets alive at a time; handlers that outlive theirs; timers against browser events |
| Output and replay, `termly-client.js` 268–301, 334–365 | `lastSeq`, what was drawn and marked | output, batch, sync, ask | asynchronous decryption, lost connections, evicted chunks, a CLI that counts from one again |
| Saved session, `termly-session.js`, `app.js` 215–227, 337–419, 446–450, 749–754 | the blob in localStorage, a persister with one timer | save, load, wipe, schedule, flush | the page is killed without warning; wiping and saving race |
| QR scanner, `app.js` 229–335 | the running scan | start, stop, tick | two awaits with a stop or a new session between them |
| Update flow, `app.js` 818–974 | a registration with its waiting and active workers, the banner and its timer | register, offer, apply, reload, return from the background | an offer shares one banner with the line, the CLI and notices; workers take over at any moment |
| Service worker, `sw.js` | a cache, a stall window, the fetches under way | install, activate, answer, time out | races of network, cache and deadline, within one load and across deployments |
| Input path, `paste.js`, `app.js` 478–604, `termly-client.js` 367–391 | the latch of the key bar, the writes of a paste | key, paste, pause, copy | a paste is several encrypted frames with pauses between them, while keys are typed and the line comes and goes |
| Crypto, `termly-crypto.js`; layout of the terminal, `app.js`; dashboard page, `dashboard.js` | – | – | primitives, presentation |

They interact through frames (CLI ↔ relay ↔ phone), close events and their
reasons, callbacks of the client into the page (`persist`, `output`,
`sessionLost`, …), and files. Node and the browser run one handler at a time:
what interleaves is the order of handlers, and the handlers that `await`.

What makes each part correct:

* *registry*: the indexes agree with the sessions; a seat holds an open or
  closing peer of its session and role; no open connection is forgotten; an
  unattended session has a deadline and an attended one none; a CLI is under
  heartbeat watch; nothing crosses from one session to another; who loses a seat
  or a session is told;
* *backpressure*: memory is bounded, and no peer stays unread forever;
* *limiter*: at most twice the limit in any window, no refusal unearned;
* *event log*: bounded but for what faults of the trim add, and the newest events
  are in it without a hole;
* *connection*: a session worth keeping always has a line or something that will
  open one; what the user ended stays ended;
* *replay*: every chunk that can be decrypted is drawn or its absence marked, live
  output in order;
* *saved session*: stored progress never goes back and is never left unsaved, but
  for the batch that is being decrypted;
* *scanner*: a camera that is on can be stopped, and a stopped scan ends;
* *update flow*: an offer is not lost to another message, the page reloads only
  for a newer worker, and an update that was taken lands;
* *service worker*: a request of which there is a copy is answered, sources are
  taken from an old copy only after a time-out, what a fetch brought is kept if
  the cache takes it, and what could be opened without a network stays so;
* *input*: a paste arrives in order, all of it but the characters cut in two if
  nothing disturbs it, and ends.

PROJECT.json lists the hazards of this code line by line, with the properties
that watch them, and with what no property watches and why.

## Modules

| Module | Models | State and actions, and the code they stand for |
|---|---|---|
| `SessionLifecycle` | what the relay promises about a session | `status` and `attended` only: registered, waiting, paired, gone |
| `RelaySession` | the registry and the WebSocket handlers | one variable per map, field or timer of `Session`; an action is a whole handler, replies included, with `sent` the frames it put on the wire in order |
| `SessionLine` | what the client promises about its line | `line`, `phase`, `verdict`, `tended`, `restoring`: one line, no sockets or timers |
| `Backpressure` | pausing and resuming | sockets with roles known, queues in chunks, polls |
| `RateLimiter` | `rateLimited`, the sweep | `rateBuckets`, a clock; `accepted` is history |
| `HistoryLog` | `record`, `trim`, `countLines` | the file as a sequence of lines, `pendingCount`; faults inside a call; `misread`, `untrimmed` and `halved` are history |
| `ClientConnection` | the client's line | `ws`, timers, `inbox`, and the relay, CLI and network as seen from the line |
| `OutputReplay` | numbered output | the CLI's replay buffer, the wire, handlers waiting for a decryption, and which chunks will be refused by it (`garbled`) |
| `SavedSession` | the blob and its page | `stored`, the page, the persister, the part of the client a snapshot is taken of, and how far its text is drawn (`drawn`) |
| `PageState` | what the parts of a page share | the client, the code field, visibility, the one banner with its timer |
| `QrScanner` | `scanQR` and `stopScanning` | what each scan awaits, which cameras are live, which scan is the one to stop |
| `UpdateFlow` | `watchForUpdates`, `applyUpdate`, the banner's rules | the browser's registration (external) and the events it posts to the page |
| `InputPath` | keys, key bar, paste, copy | per paste its stage, its plan and how much is written; what is being sealed; what the CLI received |
| `WebApp` | one page | the composition of the three modules above, which meet in `PageState`, and a restart of the page |
| `ShellCache` | the worker's answers | per request its fetch, its answer and what became of storing the response (`put`); the cache, the stall window and the deployed build |
| `RelaySessionProofs`, `BackpressureProofs`, `ClientConnectionProofs`, `OutputReplayProofs`, `SavedSessionProofs`, `WebAppProofs`, `ShellCacheProofs` | – | the theorems about the module of that name |
| `BookkeepingProofs` | – | the theorems about `HistoryLog` and `RateLimiter` |

`MCxxx` modules hold the constants TLC needs. In every module a definition
named `Slip…` is a mistake one could make in the definition that follows it (a
dropped guard, a missing reset, a wrong comparison). No specification uses one:
they are there to check the checks, each property being violated when the right
definition is replaced by the slip.

Abstractions that matter:

* Messages of the relay are grouped where the handlers treat them alike
  (`output`, `catchup_batch` and `sync_complete`; `input` and `resize`). The
  pairing message without a key is a type of its own.
* Whose program a socket belongs to is known to the model (`CliSockets`,
  `PhoneSockets`) and hidden from the relay, which sees an order of arrival and
  types of messages. A connection uses a fresh socket.
* A socket being closed still delivers what had arrived, until its close event.
* `quiet` counts heartbeats since the last pong, where the code compares clocks
  (`HEARTBEAT_INTERVAL * 4`, so four pings).
* In `Backpressure` small frames weigh nothing, and time passes in polls.
* In `ClientConnection` a closed socket nobody remembers is used again, so a run
  with two slots has two sockets alive at a time, not two in all. Ending a session
  before its first socket is one of its steps, as it is of the code.
* In `RateLimiter` what was let through is the sequence of its times, per bucket;
  the sweep goes by the longest window (`Longest`), as the code's does.
* The backoff's delays and the lengths of other timeouts are left out: a timer
  that is armed may fire at any time.
* In `HistoryLog` a call of `record` is one step, since Node does not interrupt
  it. The faults are what can go wrong inside it: the append, the read or the
  open for the rewrite fails, or the process dies after the append and before
  the rewrite, or in the middle of the rewrite.
* A scan is one call of `scanQR`. What a frame shows is whether it holds a code of
  the right form.
* Builds are numbered in the order of their deployment; a worker is the build it
  was served in. The browser's registration is external: installs, events and
  messages are modelled from how `app.js` and `sw.js` use them.
* A text is a sequence of UTF-16 units, as `String.length` and `slice` see it; a
  unit is the pair of its origin and its place in it, and `Wide` says which two
  make one character. `Encoded` is `TextEncoder` on one write: a unit whose other
  half is not in the write becomes U+FFFD. `Chunk` and `Limit` stand for
  `PASTE_CHUNK` and `PASTE_LIMIT`. A paste waits for each of its encryptions
  before the next write; for a key's nobody waits.
* Which chunks cannot be decrypted is settled when they are produced (`garbled`, at
  most `MaxGarbled` of them): a chunk this phone has no key for stays so.
* A batch takes its numbers item by item, and its text is drawn at its end
  (`BatchItem` and `BatchEnds` in `SavedSession`, `DecryptItem` and `FinishOutput`
  in `OutputReplay`); page events come in between.
* A response carries the build it came from; one that is not `ok` is 0. Storing it
  is a step of its own, which may come late, out of order or never (`Stores`,
  `PutFails`), since the worker neither waits for `cache.put` nor catches it.
* `Visits` says what one page may see at most: which scans and pastes, how many
  clients, keys, failures of the line and builds. The proofs are for any set of
  visits.

## Runs

Twelve runs. `tlc -workers 2 -config <cfg> <module>` repeats one; each takes from
a second to about three and a half minutes.

| Run | Instance | Properties |
|---|---|---|
| `RelaySafety` | 1 session, 1 code, 2 CLI and 2 phone sockets, grace 1; symmetric sockets | `RegistryConsistent`, `SeatsHoldTheirPeers`, `EveryOpenPeerIsSeated`, `UnattendedIsTimed`, `ReapTimerMeansEmpty`, `SeatedCliIsWatched`, `PairedRemovalTellsPeers`, `NobodyIsUnseatedSilently` |
| `RelayLifecycle` | 2 sessions, 1 code, 1 CLI and 1 phone socket, fair | `ForwardedWithinSession`, `ImplementsLifecycle`, `SilentCliGoes` |
| `BackpressureThrottle` | 2 CLI sockets, 1 phone; marks 2 and 1, stall 2 polls, ceiling 4, fair | `PausedIsWatched`, `BacklogIsCapped`, `ThrottleEnds` |
| `ClientLine` | 2 slots, symmetric; 1 frame per wire, 1 severed line, started by pairing or restoring | `LineIsTended`, `ImplementsLine` |
| `ClientRecovers` | the same, started by pairing, fair | `LineComesBack` |
| `ReplayOrder` | 3 chunks, 1 of them undecipherable, 2 lives, 1 lost connection, 2 frames in flight, replay of 2 | `HolesAreMarked`, `QuietIsComplete`, `LiveOutputInOrder` |
| `RateLimits` | 2 buckets (limits 2 and 1, windows 3 and 2), 8 instants | `AtMostTwiceTheLimit`, `RefusalIsEarned` |
| `HistoryFaults` | cap 5, 22 events, 3 faults of six kinds | `GrowthIsBounded`, `CountCoversTheFile`, `NewestAreKept` |
| `SavedSession` | 2 sessions, 2 chunks, age of 1, fair | `StoredNeverRegresses`, `ProgressIsTended`, `ProgressIsSaved` |
| `WebApp` | three visits: one updated (1 scan, 2 builds, 1 failure of the line), one that scans (2 scans, 2 clients), one pasted into (1 paste, 1 key, 1 failure); chunk 3, limit 6, pairs at units 1–2, 3–4 and 5–6, fair | `CameraCanBeStopped`, `OfferIsKept`, `ReloadsForANewerWorker`, `PasteInOrder`, `UndisturbedPasteArrives`, `StoppedScanEnds`, `TakenUpdateLands`, `PasteEnds` |
| `ShellCache` | the page, a pairing link that falls back to it, 1 vendored file; 4 requests of 2 loads, the install's among them; 2 builds, fair | `OnlyTimeoutsServeOldSources`, `FetchedIsKept`, `CachedIsAnswered`, `StaysOpenable` |
| `FoundLostWipes` | 1 session, 1 chunk | a documented claim the code does not keep; see [findings](#findings) |

The runs leave out the type invariants, and `DisconnectIsFinal` of the client's
sockets, since these are proved; `ImplementsLine` says the latter of the line.

Why the bounds are enough to meet the hard cases:

* Two sockets of each kind give every replacement, a move of either kind into an
  occupied seat, and the late close event of a displaced peer; the second session
  with a shared code gives a code that is registered again after it was dropped.
  A grace of one still separates a ping, a pong in time and a cut-off.
* Marks of two and one chunks, with a ceiling of four, leave room to cross the
  mark, to fall between the marks, and to be over it without a watch; two CLI
  sockets give the replacement under a pause.
* Two sockets of the client give the second one opened over the first while it
  connects, in both orders of arrival at the relay; `MaxWire` of one keeps a frame
  of each socket and one in the inbox apart, which is all the handlers can tell.
* Three chunks with a replay of two give an evicted chunk; two lives give a
  restart at a lower number; two frames in flight are a batch and its sync. One
  chunk that does not decrypt may be the first, a middle or the last of a batch, or
  live output.
* Twenty-two events are more lines than `GrowthIsBounded` allows after two misread
  files (6 + 2 × 7 with a cap of five lines), so the bound is met, and a fault of
  another kind, a trim that does not begin among them, still fits in between.
* Eight instants are more than two windows of either bucket.
* Two scans are the two taps that wait for the camera together, and two clients the
  session begun under a scan and the one after it. Two builds are an update: a
  third, a second update while the first is taken, is what `FoundTapReloads`
  needs. A paste of up to six units in chunks of three is one without a pause, one
  with a pause in it, and one at the limit; every two of its units are one
  character, so a paste of four or six units is cut through a pair, and one of two
  is not; a key can be typed before, between and after its writes.
* Two loads are a stalled one and the next, which finds the stall window and what
  the first one's late answers left; two requests of one load share a burst; the
  install writes to the same cache beside them.

`CHECK_DEADLOCK FALSE` is set everywhere: a relay without peers, a client whose
session is over, a log at the end of its events, and a visit that has used up
its bounds may stop.

Deadlocks that matter here are states in which everyone waits: they are stated
as properties (`PausedIsWatched`, `ThrottleEnds`, `LineIsTended`,
`UnattendedIsTimed`, `CachedIsAnswered`), which a stuck state would violate.

## Fairness

* **Relay** (`RelaySession.Fairness`): the heartbeat interval, the pairing
  deadline and the idle limit are Node timers, which fire once armed; a socket
  that is being closed reports its close, because `ws` destroys a connection
  whose peer does not answer the close frame within its timeout, and `terminate`
  destroys it at once. Nobody is assumed to connect, send, answer or leave.
* **Backpressure**: the poll is an interval (`BACKLOG_POLL_MS`), and closing
  sockets report. No peer is assumed to drain: `ThrottleEnds` holds because a peer
  that does not is cut off.
* **Client**: timers fire, promises settle, the inbox is worked off, the network
  carries what was put on it, and a browser reports the end of a line that it
  or the far end is closing. It is *not* assumed that a severed line that looks
  open is ever reported.
* **Saved session**: decryptions settle, so a batch gets through; a terminal parses
  what it is given, and a page that lives runs its timers. The system may kill the page at any moment.
* **Page** (`ScannerFairness`, `UpdateFairness`, `InputFairness`): a video plays or
  fails to, a detection answers, and a visible page is painted; workers install,
  messages and events are delivered, and a navigation is carried out; clipboards
  answer, encryptions finish, and pauses end. The user is assumed to do nothing.
* **Worker** (`ShellCache.Fairness`): the cache answers a lookup, and deadlines pass.
  Of the network nothing is assumed, not even that it fails, nor that the cache
  ever stores a response.

## Proofs

Eight modules of theorems, for every value of the constants that satisfies the
assumptions named in the modules they are about. Those say as little as the code
does: that `None` and its like are none of the values they stand beside, that
sockets are of one kind, that marks, limits and bounds are natural numbers
(positive where zero would mean nothing), that a pairing link is a source.

| Module | Invariance | Theorems |
|---|---|---|
| `RelaySessionProofs` | `IndInv`, by `Invariance` | `TypeCorrect`, `RegistryIsConsistent`, `SeatsAreHeld`, `OpenPeersAreSeated`, `UnattendedSessionsAreTimed`, `ReapSparesUsedSessions`, `DeadlineIsExact`, `SeatedClisAreWatched`, `ForwardingIsWithinSession`; the action properties `UnseatingIsNeverSilent`, `PairedRemovalIsAnnounced`, `OnlyPongsEndSilence`; the refinement `Implementation` |
| `BackpressureProofs` | `WatchInv`, `CapInv` | `TypeSafety`, `PausedIsAlwaysWatched`, `BacklogIsAlwaysCapped`; the action property `WatchAlwaysRunsOut` |
| `ClientConnectionProofs` | `TendInv` | `TypeSafety`, `LineIsAlwaysTended`, `DisconnectIsAlwaysFinal`; the refinement `Implementation` |
| `OutputReplayProofs` | `ReplayInv`, by `ReplayInvariant` | `TypeSafety`, `HolesAreAlwaysMarked`, `QuietIsAlwaysComplete`, `LiveOutputIsAlwaysInOrder` |
| `SavedSessionProofs` | `SavedInv`, by `SavedInvariant` | `TypeSafety`, `ProgressIsAlwaysTended`, `StoredIsMonotone` |
| `BookkeepingProofs` | `LogInv`, by `LogInvariant`; `LimiterInv`, by `LimiterInvariant` | `TypeSafety`, `GrowthIsAlwaysBounded`, `CountAlwaysCovers`, `NewestAreAlwaysKept`; `LimiterTypeSafety`, `NeverMoreThanTwiceTheLimit`, `RefusalIsAlwaysEarned` |
| `WebAppProofs` | `AppInv`, by `AppInvariant` | `TypeSafety`, `CameraCanAlwaysBeStopped`, `OfferIsAlwaysKept`, `AlwaysReloadsForANewerWorker`, `PasteAlwaysInOrder`, `UndisturbedPasteAlwaysArrives`, `TakenIsAlwaysUnderWay`; the action properties `StoppedScanNeverGoesFurther`, `PasteAlwaysComesNearer` |
| `ShellCacheProofs` | `ShellInv`, by `ShellInvariant` | `TypeSafety`, `OnlyTimeoutsEverServeOldSources`, `FetchedIsAlwaysKept`; the action properties `AlwaysStaysOpenable`, `CopyAlwaysStaysAtHand` |

The layout is the same throughout: lemmas about the operators, then for each part
of the invariant a lemma that the initial states satisfy it and that each action
preserves it, the invariance theorem from these, and the properties from the
invariance. Why the invariants say more than the properties:

* **Relay** (`IndInv`). That open peers are seated (`EveryOpenPeerIsSeated`) needs
  that seats hold peers of the seat's own role (`SeatsHoldTheirPeers`): otherwise a
  move could vacate a seat its occupant does not think it has, and a peer in both
  seats would lose one. That in turn needs every live socket to have an owner and
  a role (`SocketsAreOwned`). `UnattendedIsTimed` needs `PairingDeadline`, to know
  that pairing cancels the only deadline of a session whose peer is then seated,
  and `BornBeforeUse`, to know that nobody was in a session just registered. The
  refinement shows each action to be the lifecycle's action of its name, a
  stutter, or (a pairing message that also moves the phone) `Pair` with `attended`
  set.
* **Backpressure**. `WatchInv` adds that what is new is not paused and that a seat
  holds a socket of its side: a watch is kept per side, the pause per socket.
  `CapInv` adds that a watched peer has arrived, and that until somebody is
  replaced a backlog above the mark is watched: that is where the bound comes
  from, and why it is stated only for sides that never changed their peer.
* **Client** (`TendInv`). A closed live socket has a retry armed or waits for the
  browser to be online, and a session without a socket is one being restored. The
  refinement of `SessionLine` needs typing only: each handler is the action it
  names or a stutter, because the line is the live socket alone, and the events of
  a replaced one leave it, its verdict and its timer as they are (`BreakStep`).
* **Replay** (`ReplayInv`). Frames go through one pipe, from the handler that waits
  for a decryption to the inbox to the wire. `QueueInv` says what is in it: one
  handler at a time, frames of a connection in the order they were sent, a sync
  behind the batch it belongs to. `FollowInv` says that live frames follow one
  another and what was drawn, `CoverInv` that each number at or below `lastSeq`
  is drawn, marked, in the batch in hand, or of a chunk that does not decrypt, and
  `EndInv` that whoever reaches the end of the pipe has met everything before it:
  past `lastSeq` there is then nothing that could be read. A batch marks its hole as it is
  taken, which is why a hole is never only on its way.
* **Saved session** (`SavedInv`). A page outside a session has nothing pending
  (`PageInv`); who is stored or offered was paired with, and a page has at least
  what is stored of its session (`SeqInv`): so what it saves cannot go back.
* **Event log** (`LogInv`). The file exceeds the threshold, or a known count, by no
  more than what misreadings hide and trims that did not begin left (`GrowthInv`); without a half-written line,
  the lines are numbered without a hole (`NewestInv`).
* **Limiter** (`LimiterInv`). Of the calls let through, those the entry counts came
  within its window, and of the others at most a limit came less than a window
  before it began (`Fits`). A roll-over makes the counted ones the others, and a
  sweep, which forgets the entry, comes when both are too old to matter. Two
  adjacent windows are then all that a stretch of one window's length can touch.
* **Page** (`AppInv`). An offer on the banner has a worker waiting, and the workers
  of a registration are in the order of their age. `PasteInv` counts a paste by its
  writes: so many are sent, so many units they hold, and each write takes the
  text up where the one before it ended (`Continues`). Nothing has arrived that was
  not sent (`SentInv`), so the next write lies behind all that has; without a
  fault everything sent has arrived but the units `Astride` a cut, between its
  markers (`MarkInv`). That the encoding loses no others is `EncodedIs`: both halves
  of a pair that no multiple of `Chunk` parts are in one write. The plan is a
  function of a length and a flag, so no induction over the text is needed: that
  the pieces are the text is arithmetic of `Chunk` (`PieceIs`).
* **Worker** (`ShellInv`). A stall window means that a deadline has passed; what is
  being stored has arrived and is a build (`PutInv`), what is on its way is one
  (`BringsInv`), and a vendored file is not fetched before the cache has been asked
  (`UnaskedInv`), so no fetch is begun twice and what one brought never changes.

Only model-checked is liveness, and everything under fairness, which is out of the
prover's reach: `ThrottleEnds`, `SilentCliGoes`, `LineComesBack`,
`ProgressIsSaved`, `StoppedScanEnds`, `TakenUpdateLands`, `PasteEnds`,
`CachedIsAnswered` and the fair part of `ImplementsLifecycle`. What can be proved
is what each of them rests on, that nothing prolongs the wait or loses what is to
end it; what remains for TLC is that a step which is enabled and fair happens:

| Liveness | rests on | which is proved as |
|---|---|---|
| `SilentCliGoes` | `OnlyPongsBreakSilence`: as long as the CLI keeps its seat, the count of pings it left unanswered falls only with a pong | `OnlyPongsEndSilence` |
| `ThrottleEnds` | `WatchRunsOut`: nothing adds to the polls a watch has left, and each poll takes from them | `WatchAlwaysRunsOut` |
| `LineComesBack` | `LineIsTended`: a dead line has a retry armed, or the browser is offline | `LineIsAlwaysTended` |
| `ProgressIsSaved` | `ProgressIsTended`: what is not stored yet is being decrypted, being parsed, or has a write pending | `ProgressIsAlwaysTended` |
| `StoppedScanEnds` | `StoppedScanGoesNoFurther`: no scan is taken up again, and after a detection no second one follows | `StoppedScanNeverGoesFurther` |
| `PasteEnds` | `PasteComesNearer`: whatever else happens, the steps a paste has left only get fewer | `PasteAlwaysComesNearer` |
| `TakenUpdateLands` | `TakenIsUnderWay`: the message, the event or the navigation is outstanding | `TakenIsAlwaysUnderWay` |
| `CachedIsAnswered` | `CopyStaysAtHand`: no answer to another request takes the copy away | `CopyAlwaysStaysAtHand` |

`LineIsTended` and `ProgressIsTended` are properties of runs too; the other six
are stated in the modules and proved, and in no run. `TakenIsUnderWay` has its own
inductive part: no worker is newer than the visit's builds (`BuildsInv`), and a
worker that was offered waits still, has taken over, or gave way to a newer one
(`TakenInv`). `OnlyPongsBreakSilence` speaks of any pong to the session, since that
of a replaced CLI, which is still delivered, is counted for its successor
(`server.js:852–855`).

## Findings

Claims of the repository's own comments and documents that the code does not
keep. One is a run, since it costs a user something lasting:

* `FoundLostWipes`: the blob of a lost session is wiped, and saved again: at once, if
  a `sync_complete` was queued behind the loss (`termly-client.js:295–299`), or a few
  seconds later, because the message about the loss is terminal text
  (`app.js:396–399`, `447–450`). TLC prints the first, the shorter one.

The others can be reproduced with the configuration files beside the modules
(`tlc -config <cfg> <module>` ends with a counterexample). TLC stops at the first
claim it refutes: to see another one, comment out the rest. The claims are stated
at the end of each module, with the line that makes them:

| Configuration, module | Claim | Made at | What happens |
|---|---|---|---|
| `FoundRelay`, `MCRelaySession` | `ReplacedByOwnKind` | `server.js:742–744`: a wrong guess about a peer is corrected | a phone in the CLI's seat, or the CLI in the phone's, is closed as "replaced by a newer" one of a kind it is not |
| | `ClosedIsRecordedOnce` | `history.js:5`: one transition, one record | a peer that closes after its session was removed arms the idle timer, and the session is removed again |
| | `CodeIsKeptUntilPaired` | `server.js:156`: a code is dropped once paired | removing an old session drops its code, which another session has been registered under since |
| | `PhoneIsAnnouncedOnceKeyed` | `server.js:823`, `FIXES.md` 5: `client_connected` waits for the pairing | a CLI that attaches while an unpaired phone is seated is told at once |
| | `AckedSessionIsLive` | `FIXES.md:72`: unclaimed codes are reaped | the phone of a reaped session stays connected and can still pair with it |
| `FoundDroppedOnSight`, `MCBackpressure` | `DroppedOnSight` | `README.md:65`: eight times the mark is dropped on sight | no code does that |
| `FoundSlowIsForgiven`, `MCBackpressure` | `SlowIsForgiven` | `README.md:352`, `server.js:971`: slow is not dead | the heartbeat cuts off a CLI the relay itself has stopped reading |
| `FoundClient`, `MCClientConnection` | `ConnectedTakesInput` | `termly-client.js:375` | a phone that reconnects after the CLI came back in its absence shows a connected line and refuses keystrokes |
| | `LostMeansGone` | `termly-client.js:182` | two sockets opened over one another reach the relay in the reverse order, and the live one is told `session_expired` |
| | `OnlyTheLiveSocketActs` | `termly-client.js:170–172` | a handler that waits for its key outlives its socket |
| `FoundNoAnswerMeansReconnect`, `MCClientConnection` | `NoAnswerMeansReconnect` | `README.md:268–269` | the late close of an old socket cancels the probe of the new one |
| `FoundReplay`, `OutputReplay` | `EveryHoleIsMarked` | `README.md:316–320` | a batch goes to a connection that is lost, the sync behind it to the next, which then believes it has everything |
| | `NothingIsSplicedSilently` | `README.md:316–318`, `termly-client.js:339–342`: a hole is shown, not spliced over | a chunk that cannot be decrypted is only logged, and `lastSeq` goes on past it |
| | `RestartIsDealtWith` | `termly-client.js:344–346` | `lastSeq` never falls, so a restarted CLI has nothing after it to replay |
| | `BehindMeansRestarted` | `termly-client.js:344–345` | a number at or below `lastSeq` may also be a replay asked for twice, which is drawn twice |
| `FoundSaved`, `MCSavedSession` | `QuitWipes` | `README.md:264`: "End session" wipes | a save that was pending is done as the page unloads |
| | `StoredWasDrawn` | `README.md:262–263`: what was missed is replayed | a page saved and killed in the middle of a batch has stored numbers whose text was never drawn, and asks for what comes after them |
| | `WipedOnlyWhenOver` | `app.js:395` | a mistyped pairing code wipes the blob of another session, which is still live |
| `FoundSessionsEverOnlyGrow`, `HistoryLog` | `SessionsEverOnlyGrow` | `dashboard.js:91`: "Sessions ever" | it is counted in a log that is trimmed |
| `FoundWebApp`, `MCWebApp` | `DarkBehindSession` | `app.js:345–346`: no camera is left on behind a terminal | the permission for the camera comes after the session was begun, when there was nothing to stop yet |
| | `DarkInBackground` | `app.js:247–248`: nor in the background | the same, with the page hidden meanwhile |
| | `StoppedScanPairsNothing` | `app.js:281`: a stop between frames ends the loop | the detection under way when the scan was stopped still begins a session |
| | `SessionIsNotReloaded` | `sw.js:95–96`: the swap is asked for once the user takes it | a worker that was taken on another page takes over here too, and reloads a page with a session |
| | `LineComesFirst` | `app.js:854–855`: an offer waits behind what the line has to say | an offer that comes while the line is down replaces its message |
| | `WaitingIsOffered` | `app.js:959–960`: a worker that waits when the page starts is offered | one found before the page listens, and installed after it looked, is not |
| | `AcceptedIsSent` | `termly-client.js:369`: keystrokes are not dropped silently | what was accepted is dropped when the line goes while it is encrypted |
| | `NothingInsideThePaste` | `README.md:468–469`: a paste is wrapped once | a key typed in a pause lands between its markers |
| | `PasteArrivesWhole` | `README.md:470`: a paste is refused or arrives, not truncated | a character of two UTF-16 units that lies on a cut arrives as two replacement characters (`paste.js:27`, `termly-crypto.js:141`) |
| | `LatchEndsWithThePress` | `app.js:590–592`: any press clears the latch | the paste key returns before that, and leaves it set |
| `FoundTapReloads`, `MCWebApp` | `TapReloads` | `app.js:891–892`: swap and reload happen together | the worker that was told to take over has been replaced by a newer one |
| `FoundShellCache`, `MCShellCache` | `OneBuildPerLoad` | `sw.js:67–70`: a stalled load is not assembled from two builds | one request of the load is answered from the cache, and another by a fetch that was under way and brings a newer build |
| | `CacheHoldsTheNewest` | `sw.js:134–136` | an answer given earlier that arrives later overwrites a newer one |

## What is not modelled

* Cryptography: the models know that a key exists from some moment on, that deriving
  and decrypting take time, and that a chunk may fail to decrypt. That `encrypt`
  rejects, which would end a paste unreported, is left out, and the page that pastes
  or types has its key (`termly-client.js:368`).
* Of the pairing messages a reply without a key and one whose derivation fails are
  one case in `ClientConnection`. `disconnect` leaves the handle of the reconnect
  timer behind where the model forgets it: the page makes a client per session
  (`app.js:356`), so the one that was closed schedules nothing again, and a retry
  returns at `closedByUser`.
* In `Backpressure` heartbeats and attach frames, which pass the same `sendJSON`
  (`server.js:254`), weigh nothing.
* A service worker registration that fails, and the check of `installed` in
  `statechange` (`app.js:964–967`): the model posts the event once installed. The
  banner's other buttons are in `InputPath`.
* Bodies, sizes and wording: validation of a registration, terminal sizes,
  statistics other than the number of sessions.
* The operator's page and `/api/health`: they read, and their one write is `Kill`.
* Static files, origin checks, logging, startup.
* The look of the terminal: fonts, the fitting of the grid, the wake lock, the
  install prompt. Of `app.js` what is modelled is the scanner, updates and the
  banner, keys, paste and copy, and what saves, loads, wipes or ends a session.
* Requests the worker does not answer, and the old caches it deletes.
* The phone for trying the relay by hand, `mock-mobile.js`.
* The CLI is another program; `OutputReplay` and `ClientConnection` contain what
  the relay and the client rely on, and mark it as external.

## Plan

Done: the relay, its lifecycle and its proofs; backpressure, the limiter and the
event log; the client's connection with its abstract line, replay and saved
session; the page with scanner, updates and input; the service worker; the proofs
of all of these. What would come next, in this order:

1. `Pairing`: composition of the relay's handlers with a client and a CLI, so
   that properties span the wire: both ends hold a key or neither does; a phone
   that shows "connected" has a CLI; what a lost `pairing_complete` leaves
   behind. An abstract specification, a two-party pairing that either happens or
   leaves both sides able to tell, is its reference.
2. An abstract transcript, what a reader of the terminal may rely on, which
   `OutputReplay` implements.
3. The geometry of the grid as operators, checked against reference definitions
   over bounded inputs.
