------------------------------ MODULE InputPath ------------------------------
(***************************************************************************)
(* What the user types and pastes, on its way to the CLI: the key bar and  *)
(* the paste loop (public/app.js:478-504, 563-612), planPaste (paste.js)   *)
(* and sendInput (termly-client.js:367-384), which encrypts between the    *)
(* check of the line and the sending.  A text is what JavaScript and the   *)
(* slices of planPaste take it for, a sequence of UTF-16 units: a unit is a*)
(* pair of where it comes from and its place there, and two units make one *)
(* character where Wide says so.  Encryptions are external, do not fail,   *)
(* and may finish in any order; the page is paired, so that there is a key.*)
(*                                                                         *)
(* Chunk and Limit scale PASTE_CHUNK and PASTE_LIMIT down.                 *)
(***************************************************************************)
EXTENDS PageState, SequencesExt

CONSTANTS
  Pastes, Chunk, Limit,
  Wide   \* of each paste: where its surrogate pairs begin

ASSUME ChunkAssumption == Chunk \in Nat \ {0} /\ Limit \in Nat

\* Where a unit may come from besides a paste.
ASSUME OriginAssumption == Pastes \cap {"key", "mark", "lost"} = {}

ASSUME WideAssumption ==
  /\ Wide \in [Pastes -> SUBSET (Nat \ {0})]
  /\ \A p \in Pastes : \A i \in Wide[p] : i + 1 \notin Wide[p]

Units == (Pastes \cup {"key", "mark", "lost"}) \X Nat

VARIABLES
  connected, cliOnline,   \* what the client knows of its line
  through,                \* whether what is sent now reaches the CLI
  stage, written,         \* of each paste: how far it is, how many writes are sent
  size, bracketed,        \* the text it found and whether the tty wants markers
  keys, sealing,          \* keys typed, and those whose encryption is under way
  ctrlArmed,
  received,               \* the writes that reached the CLI
  faults

lineVars == <<connected, cliOnline, through, faults>>
pasteVars == <<stage, written, size, bracketed>>
keyVars == <<keys, sealing, ctrlArmed>>
inputVars == <<lineVars, pasteVars, keyVars, received>>

OpenMark == << <<"mark", 200>> >>
CloseMark == << <<"mark", 201>> >>
Text(p, n) == [i \in 1 .. n |-> <<p, i>>]

SlipPlanPaste(text, marked) ==
  [i \in 1 .. (Len(text) + Chunk - 1) \div Chunk |->
     SubSeq(text, (i - 1) * Chunk + 1, Min({i * Chunk, Len(text) - 1}))]

\* planPaste, of a text within the limit.
PlanPaste(text, marked) ==
  LET piece(i) == SubSeq(text, (i - 1) * Chunk + 1, Min({i * Chunk, Len(text)}))
      pieces == [i \in 1 .. (Len(text) + Chunk - 1) \div Chunk |-> piece(i)]
  IN IF marked /\ text # <<>> THEN <<OpenMark>> \o pieces \o <<CloseMark>> ELSE pieces

Plan(p) == PlanPaste(Text(p, size[p]), bracketed[p])

InputTypeOK ==
  /\ connected \in BOOLEAN /\ cliOnline \in BOOLEAN /\ through \in BOOLEAN
  /\ ctrlArmed \in BOOLEAN
  /\ stage \in [Pastes -> {"idle", "reading", "sending", "sealing", "pausing", "done",
                           "interrupted", "refused"}]
  /\ size \in [Pastes -> 0 .. Limit] /\ bracketed \in [Pastes -> BOOLEAN]
  /\ written \in [Pastes -> Nat]
  /\ sealing \subseteq 1 .. keys /\ keys \in 0 .. visit.keys
  /\ faults \in 0 .. visit.faults
  /\ received \in Seq(Seq(Units))

InputInit ==
  /\ connected = TRUE /\ cliOnline = TRUE /\ through = TRUE /\ faults = 0
  /\ stage = [p \in Pastes |-> "idle"] /\ written = [p \in Pastes |-> 0]
  /\ size = [p \in Pastes |-> 0] /\ bracketed = [p \in Pastes |-> FALSE]
  /\ keys = 0 /\ sealing = {} /\ ctrlArmed = FALSE /\ received = <<>>

Stage(p, next) == stage' = [stage EXCEPT ![p] = next]

\* TextEncoder, which encrypt puts a write through: half of a pair whose other half is
\* not in the write becomes U+FFFD.
Replacement == <<"lost", 65533>>
Pairs == UNION {{{<<p, i>>, <<p, i + 1>>} : i \in Wide[p]} : p \in Pastes}
Torn(unit, write) == \E pair \in Pairs : unit \in pair /\ ~(pair \subseteq Range(write))
Encoded(write) ==
  [k \in DOMAIN write |-> IF Torn(write[k], write) THEN Replacement ELSE write[k]]

\* send: a line that is down takes nothing, and nobody is told.
Send(write) ==
  received' = IF connected /\ through THEN Append(received, Encoded(write)) ELSE received

\* sendInput, as far as it goes before the encryption.
Refused == ~connected \/ ~cliOnline

-----------------------------------------------------------------------------
\* press('PASTE'): nothing keeps a second one from beginning beside the first, and
\* the latch stays.
TapPaste(p) ==
  /\ client > 0 /\ ~hidden
  /\ p \in visit.pastes /\ stage[p] = "idle"
  /\ Stage(p, "reading")
  /\ UNCHANGED <<lineVars, written, size, bracketed, keyVars, received, pageVars>>

\* pasteFromClipboard: the clipboard answers, denies, or holds too much.  What it holds
\* does not end within a pair.
ClipboardAnswers(p) ==
  /\ stage[p] = "reading"
  /\ \/ \E n \in (0 .. Limit) \ Wide[p], marked \in BOOLEAN :
          /\ size' = [size EXCEPT ![p] = n]
          /\ bracketed' = [bracketed EXCEPT ![p] = marked]
          /\ Stage(p, IF n = 0 THEN "done" ELSE "sending")
          /\ UNCHANGED bannerVars
     \/ /\ Stage(p, "refused")
        /\ ShowBanner("notice")
        /\ UNCHANGED <<size, bracketed>>
  /\ UNCHANGED <<lineVars, written, keyVars, received, placeVars, updateReady>>

SlipPasteWrites(p) ==
  /\ stage[p] = "sending"
  /\ IF Refused
     THEN /\ Stage(p, "pausing") /\ ShowBanner("notice")
          /\ written' = [written EXCEPT ![p] = 0]
     ELSE Stage(p, "sealing") /\ UNCHANGED <<bannerVars, written>>
  /\ UNCHANGED <<lineVars, size, bracketed, keyVars, received, placeVars, updateReady>>

SlipPasteStays(p) ==
  /\ stage[p] = "sending" /\ ~Refused
  /\ Stage(p, "sealing")
  /\ UNCHANGED <<lineVars, written, size, bracketed, keyVars, received, pageVars>>

\* One write of the loop: refused, or its encryption begins.
PasteWrites(p) ==
  /\ stage[p] = "sending"
  /\ IF Refused THEN Stage(p, "interrupted") /\ ShowBanner("notice")
     ELSE Stage(p, "sealing") /\ UNCHANGED bannerVars
  /\ UNCHANGED <<lineVars, written, size, bracketed, keyVars, received, placeVars,
                 updateReady>>

\* The loop waits for each write, and pauses before the next.
PasteSealed(p) ==
  /\ stage[p] = "sealing"
  /\ written' = [written EXCEPT ![p] = @ + 1]
  /\ Send(Plan(p)[written'[p]])
  /\ Stage(p, IF written'[p] = Len(Plan(p)) THEN "done" ELSE "pausing")
  /\ UNCHANGED <<lineVars, size, bracketed, keyVars, pageVars>>

PauseEnds(p) ==
  /\ stage[p] = "pausing"
  /\ Stage(p, "sending")
  /\ UNCHANGED <<lineVars, written, size, bracketed, keyVars, received, pageVars>>

\* A key, from the keyboard or the bar; nobody waits for its sending.  The latch ends
\* with it, but not with a key of the keyboard that has no control code.
TypeKey ==
  /\ client > 0 /\ ~hidden /\ keys < visit.keys
  /\ ctrlArmed' \in {FALSE, ctrlArmed}
  /\ keys' = keys + 1
  /\ IF Refused THEN ShowBanner("notice") /\ UNCHANGED sealing
     ELSE sealing' = sealing \cup {keys'} /\ UNCHANGED bannerVars
  /\ UNCHANGED <<lineVars, pasteVars, received, placeVars, updateReady>>

KeySealed(k) ==
  /\ k \in sealing
  /\ sealing' = sealing \ {k}
  /\ Send(<< <<"key", k>> >>)
  /\ UNCHANGED <<lineVars, pasteVars, keys, ctrlArmed, pageVars>>

PressCtrl ==
  /\ client > 0 /\ ~hidden
  /\ ctrlArmed' = ~ctrlArmed
  /\ UNCHANGED <<lineVars, pasteVars, keys, sealing, received, pageVars>>

-----------------------------------------------------------------------------
\* The line, and what the page shows of it.
Fails ==
  /\ client > 0 /\ through /\ faults < visit.faults
  /\ through' = FALSE /\ faults' = faults + 1
  /\ UNCHANGED <<connected, cliOnline, pasteVars, keyVars, received, pageVars>>

LearnsOfFailure ==
  /\ connected /\ cliOnline /\ ~through
  /\ \/ connected' = FALSE /\ ShowBanner("line") /\ UNCHANGED cliOnline
     \/ cliOnline' = FALSE /\ ShowBanner("cli") /\ UNCHANGED connected
  /\ UNCHANGED <<through, faults, pasteVars, keyVars, received, placeVars,
                 updateReady>>

\* setStatus('connected'), and the CLI's return, take the message down.
LineReturns ==
  /\ Refused
  /\ connected' = TRUE /\ cliOnline' = TRUE /\ through' = TRUE
  /\ HideBanner
  /\ UNCHANGED <<faults, pasteVars, keyVars, received, placeVars, updateReady>>

\* copySelection, like the paste, says for a while what became of it.
CopySelection ==
  /\ client > 0 /\ ~hidden
  /\ ShowBanner("notice")
  /\ UNCHANGED <<inputVars, placeVars, updateReady>>

TapRetry ==
  /\ banner = "line"
  /\ ShowBanner("retrying")
  /\ UNCHANGED <<inputVars, placeVars, updateReady>>

PasteStep(p) ==
  TapPaste(p) \/ ClipboardAnswers(p) \/ PasteWrites(p) \/ PasteSealed(p) \/ PauseEnds(p)

InputNext ==
  \/ \E p \in Pastes : PasteStep(p)
  \/ \E k \in sealing : KeySealed(k)
  \/ TypeKey \/ PressCtrl \/ Fails \/ LearnsOfFailure \/ LineReturns
  \/ TapRetry \/ CopySelection \/ (BannerTimerFires /\ UNCHANGED inputVars)

\* Clipboards answer, encryptions finish, and pauses end.
InputFairness ==
  LET v == <<inputVars, pageVars>>
  IN \A p \in Pastes :
       WF_v(ClipboardAnswers(p) \/ PasteWrites(p) \/ PasteSealed(p) \/ PauseEnds(p))

-----------------------------------------------------------------------------
Arrived == UNION {Range(received[i]) : i \in DOMAIN received}
Holds(write, p) == \E k \in DOMAIN write : write[k][1] = p

\* Whatever else is typed or pasted and whatever the line does, the units of a
\* paste reach the CLI in their order and none of them twice, also when a paste is
\* interrupted and the line returns (app.js:494-501).
PasteInOrder ==
  \A i, j \in DOMAIN received : \A k \in DOMAIN received[i], l \in DOMAIN received[j] :
    LET one == received[i][k]
        other == received[j][l]
    IN one[1] \in Pastes /\ one[1] = other[1] /\ (i < j \/ (i = j /\ k < l))
         => one[2] < other[2]

\* Every write of the paste lies between a pair of markers.
WrappedAsAWhole(p) ==
  \E i, j \in DOMAIN received :
    /\ received[i] = OpenMark /\ received[j] = CloseMark
    /\ \A m \in DOMAIN received : Holds(received[m], p) => i < m /\ m < j

\* The pairs that planPaste cuts in two.
Astride(p) == UNION {{i, i + 1} : i \in {h \in Wide[p] : h % Chunk = 0}}

\* On a line that does not fail, a paste that is over has arrived: all of its text but
\* the pairs that are cut in two, in writes no longer than a tty takes, and wrapped once
\* as a whole where the CLI's program asked for it (paste.js:17-31, README.md:466-469).
UndisturbedPasteArrives ==
  \A p \in Pastes : stage[p] = "done" /\ faults = 0 =>
    /\ {c \in Arrived : c[1] = p} = {<<p, i>> : i \in (1 .. size[p]) \ Astride(p)}
    /\ \A i \in DOMAIN received : Len(received[i]) <= Chunk
    /\ bracketed[p] /\ size[p] > 0 => WrappedAsAWhole(p)

\* A paste does not hang: it is carried out, refused or reported as interrupted,
\* whatever becomes of the line (app.js:494-501).
PasteEnds ==
  \A p \in Pastes :
    (stage[p] = "reading") ~> (stage[p] \in {"done", "refused", "interrupted", "idle"})

\* What its liveness rests on: once its text is known, a paste only ever gets nearer to
\* its end, whatever is typed, pasted or shown meanwhile (app.js:494-504).
StepsLeft(p) ==
  3 * (Len(Plan(p)) - written[p])
  - (IF stage[p] = "sending" THEN 1 ELSE IF stage[p] = "sealing" THEN 2 ELSE 0)
UnderWay(p) == stage[p] \in {"sending", "sealing", "pausing"}
PasteComesNearer ==
  [][\A p \in Pastes : UnderWay(p) =>
       \/ UNCHANGED <<stage[p], written[p], size[p], bracketed[p]>>
       \/ stage'[p] \in {"done", "interrupted", "idle"}
       \/ UnderWay(p)' /\ 0 < StepsLeft(p)' /\ StepsLeft(p)' < StepsLeft(p)
     ]_<<inputVars, pageVars>>

-----------------------------------------------------------------------------
(* What comments and documents say, and the code does not do.              *)

\* "Silently dropping keystrokes is worse than saying the line is down"
\* (termly-client.js:369): what sendInput has accepted is not dropped by a line that
\* the client knows to be down.
AcceptedIsSent ==
  [][\A p \in Pastes : PasteSealed(p) => connected]_<<inputVars, pageVars>>

\* "Anything past 100 KB is refused outright instead of arriving truncated"
\* (README.md:470): what is not refused, and not disturbed, arrives as it was.
PasteArrivesWhole ==
  \A p \in Pastes : stage[p] = "done" /\ faults = 0 =>
    Range(Text(p, size[p])) \subseteq Arrived

\* "The whole paste is wrapped once, so an editor still knows it was pasted rather than
\* typed" (README.md:468-469): nothing else gets between the markers.
NothingInsideThePaste ==
  \A i, k \in DOMAIN received :
    (received[i] = OpenMark /\ i < k /\ CloseMark \notin {received[j] : j \in i .. k})
    => received[k][1][1] \in Pastes

\* "Anything that has no control code still clears the latch" (app.js:590-592): a press of
\* the bar does not leave it set.
LatchEndsWithThePress ==
  [][\A p \in Pastes : TapPaste(p) => ~ctrlArmed']_<<inputVars, pageVars>>
=============================================================================
