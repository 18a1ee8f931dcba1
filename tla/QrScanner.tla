------------------------------ MODULE QrScanner ------------------------------
(***************************************************************************)
(* The scanner of the landing page (public/app.js:229-335) and the two     *)
(* other ways a session begins.  A scan is one call of scanQR(): it waits  *)
(* for the camera, for the video to play, and then, frame after frame, for *)
(* what the detector makes of it.  Anything may happen while it waits: a   *)
(* tap, another scan, the page hidden, a session begun.                    *)
(***************************************************************************)
EXTENDS PageState

CONSTANTS Scans, NoScan

ASSUME ScanAssumption == NoScan \notin Scans

VARIABLES
  awaits,    \* what each scan waits for
  live,      \* scans whose camera stream is active
  scanning   \* the scan that stopScanning would stop

scanVars == <<awaits, live, scanning>>

ScannerTypeOK ==
  /\ awaits \in [Scans -> {"nothing", "camera", "play", "detect", "frame"}]
  /\ live \subseteq Scans
  /\ scanning \in Scans \cup {NoScan}

ScannerInit ==
  /\ awaits = [s \in Scans |-> "nothing"]
  /\ live = {} /\ scanning = NoScan

Await(s, what) == awaits' = [awaits EXCEPT ![s] = what]

StopScanning == scanning' = NoScan /\ live' = live \ {scanning}

\* startSession: whatever began it, the scan that is recorded is stopped first.
StartSession ==
  /\ client < visit.clients
  /\ client' = client + 1
  /\ StopScanning

-----------------------------------------------------------------------------
\* The button: it stops the scan that is recorded, or begins one.
TapScan(s) ==
  /\ s \in visit.scans /\ client = 0 /\ ~hidden
  /\ IF scanning # NoScan THEN StopScanning /\ UNCHANGED awaits
     ELSE awaits[s] = "nothing" /\ Await(s, "camera") /\ UNCHANGED <<live, scanning>>
  /\ UNCHANGED pageVars

SlipCameraAnswers(s) ==
  /\ awaits[s] = "camera"
  /\ live' = live \cup {s}
  /\ scanning' = s /\ Await(s, "play")
  /\ UNCHANGED pageVars

\* getUserMedia resolves: the second of two scans stops its stream and leaves.
CameraAnswers(s) ==
  /\ awaits[s] = "camera"
  /\ IF scanning # NoScan
     THEN Await(s, "nothing") /\ UNCHANGED <<live, scanning>>
     ELSE Await(s, "play") /\ scanning' = s /\ live' = live \cup {s}
  /\ UNCHANGED pageVars

\* The camera is refused, or the video does not play: whichever scan is recorded
\* by now is stopped, not the one that failed.
ScanFails(s) ==
  /\ awaits[s] \in {"camera", "play"}
  /\ Await(s, "nothing")
  /\ StopScanning
  /\ UNCHANGED pageVars

SlipTick(s) == Await(s, "detect")

\* tick: a stop between frames ends the loop, and so does the stream's end.
Tick(s) == Await(s, IF scanning # s \/ s \notin live THEN "nothing" ELSE "detect")

Plays(s) == awaits[s] = "play" /\ Tick(s) /\ UNCHANGED <<live, scanning, pageVars>>

Frame(s) ==
  /\ awaits[s] = "frame" /\ ~hidden
  /\ Tick(s)
  /\ UNCHANGED <<live, scanning, pageVars>>

\* A frame without a code, or one that failed to decode: the next one is asked for.
FindsNothing(s) ==
  /\ awaits[s] = "detect"
  /\ Await(s, "frame")
  /\ UNCHANGED <<live, scanning, pageVars>>

\* A code: it is typed into the field and paired with, whatever has become of the
\* scan meanwhile.
FindsCode(s) ==
  /\ awaits[s] = "detect"
  /\ Await(s, "nothing")
  /\ codeInput' = TRUE
  /\ StartSession
  /\ UNCHANGED <<visit, hidden, updateReady, bannerVars>>

\* The stream ends by itself: the camera is unplugged, or another program's now.
StreamEnds(s) ==
  /\ s \in live
  /\ live' = live \ {s}
  /\ UNCHANGED <<awaits, scanning, pageVars>>

-----------------------------------------------------------------------------
\* The code field, typed into or filled by the link that opened the page.
TypesCode ==
  /\ client = 0 /\ ~hidden
  /\ codeInput' = ~codeInput
  /\ UNCHANGED <<visit, client, hidden, updateReady, bannerVars, scanVars>>

\* The user submits the typed code, or resumes the saved session.
Begins ==
  /\ client = 0 /\ ~hidden
  /\ StartSession
  /\ UNCHANGED <<awaits, visit, codeInput, hidden, updateReady, bannerVars>>

Hides ==
  /\ ~hidden
  /\ hidden' = TRUE
  /\ StopScanning
  /\ UNCHANGED <<awaits, visit, client, codeInput, updateReady, bannerVars>>

Shows ==
  /\ hidden
  /\ hidden' = FALSE
  /\ UNCHANGED <<visit, client, codeInput, updateReady, bannerVars, scanVars>>

ScanStep(s) ==
  \/ TapScan(s) \/ CameraAnswers(s) \/ ScanFails(s) \/ Plays(s) \/ Frame(s)
  \/ FindsNothing(s) \/ FindsCode(s) \/ StreamEnds(s)

ScannerNext == (\E s \in Scans : ScanStep(s)) \/ TypesCode \/ Begins \/ Hides \/ Shows

\* A video plays or fails to, a detection answers, and a visible page is painted.
ScannerFairness ==
  \A s \in Scans :
    /\ WF_<<pageVars, scanVars>>(Plays(s) \/ (awaits[s] = "play" /\ ScanFails(s)))
    /\ WF_<<pageVars, scanVars>>(FindsNothing(s) \/ FindsCode(s))
    /\ WF_<<pageVars, scanVars>>(Frame(s))

-----------------------------------------------------------------------------
\* A camera that is on is the one stopScanning knows of, and there is only ever
\* one: "a scan that cannot be stopped is a camera that stays on"
\* (app.js:229-230), also when two taps wait for the permission (264-269).
CameraCanBeStopped == live \subseteq {scanning}

\* A scan that has been stopped, by whomever, ends: its loop does not go on beside
\* the next one's, on the same video element (app.js:281-282).
StoppedScanEnds ==
  \A s \in Scans :
    (awaits[s] \in {"play", "detect", "frame"} /\ scanning # s)
    ~> (awaits[s] = "nothing" \/ hidden \/ scanning = s)

\* What its liveness rests on: a scan that is stopped stays stopped, and after the
\* detection under way, if there is one, it is asked for no further frame (app.js:281-289).
Stopped(s) == awaits[s] \in {"play", "detect", "frame"} /\ scanning # s
StoppedScanGoesNoFurther ==
  [][\A s \in Scans : Stopped(s) =>
       /\ scanning' # s
       /\ \/ awaits'[s] \in {awaits[s], "nothing"}
          \/ awaits[s] = "detect" /\ awaits'[s] = "frame"]_<<pageVars, scanVars>>

-----------------------------------------------------------------------------
(* What comments say, and the code does not do.                            *)

\* "Resuming while the scanner is up leaves the camera running behind the terminal,
\* where nothing will ever turn it off" (app.js:345-346): no camera is on behind a session.
DarkBehindSession == client > 0 => live = {}

\* "Backgrounding the app mid-scan would otherwise leave the camera running, with the
\* indicator light on and nothing watching" (app.js:247-248).
DarkInBackground == hidden => live = {}

\* "A stop between frames ends the loop" (app.js:281): no session is begun by a scan
\* that was stopped.
StoppedScanPairsNothing ==
  [][\A s \in Scans : FindsCode(s) => scanning = s]_<<pageVars, scanVars>>
=============================================================================
