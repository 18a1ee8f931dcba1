----------------------------- MODULE WebAppProofs -----------------------------
(***************************************************************************)
(* Theorems about WebApp, for any scans, pastes, builds and visits.  Each  *)
(* part of the page keeps its own invariant, and what it does to the shared*)
(* page (PageInv) the other two can live with.  WorkerInv orders the       *)
(* workers of the registration, which is why a reload is never for an      *)
(* older one.  PasteInv says how many of a paste's units are with the CLI   *)
(* when so many of its writes are sent: each write takes the text up where *)
(* the one before it ended (Continues), and what was not cut in two of it  *)
(* arrives (EncodedIs).  At the end is what the liveness of the three parts*)
(* rests on; liveness itself is not proved.                                *)
(***************************************************************************)
EXTENDS WebApp, SequenceTheorems, TLAPS

\* Nothing but a worker that waited is ever offered.
PageInv ==
  /\ OfferIsKept
  /\ updateReady \/ banner = "update" => waitingWorker # 0

\* The workers of a registration are in the order of their age, and the page's own
\* is the active one or one before it.
WorkerInv ==
  /\ deployed # 0 /\ 0 \notin posted
  /\ startedUnder <= active
  /\ changed => startedUnder < active
  /\ waiting # 0 => active # 0 /\ active < waiting
  /\ installing # 0 => active < installing /\ waiting < installing
  /\ ReloadsForANewerWorker

\* How many writes planPaste makes of n units, and how many units the first w
\* of them hold.
Pieces(n) == (n + Chunk - 1) \div Chunk
Writes(n, marked) == IF n = 0 THEN 0 ELSE IF marked THEN Pieces(n) + 2 ELSE Pieces(n)
PiecesIn(marked, w) == IF ~marked \/ w = 0 THEN w ELSE w - 1
Upto(n, v) == IF v * Chunk < n THEN v * Chunk ELSE n
HeldBy(n, marked, w) == Upto(n, PiecesIn(marked, w))

Sent(p) == HeldBy(size[p], bracketed[p], written[p])

\* How far a paste is says how many of its writes are sent.
StageInv(p) ==
  /\ stage[p] \in {"idle", "reading", "refused"} => written[p] = 0
  /\ stage[p] \in {"sending", "sealing", "pausing"} =>
       written[p] < Writes(size[p], bracketed[p])
  /\ stage[p] = "done" => written[p] = Writes(size[p], bracketed[p])

\* Of a paste nothing has arrived that is not sent or that was cut in two, and on a line
\* that does not fail everything else.
SentInv(p) ==
  /\ \A c \in Arrived : c[1] = p => c[2] \in (1 .. Sent(p)) \ Astride(p)
  /\ faults = 0 => \A i \in (1 .. Sent(p)) \ Astride(p) : <<p, i>> \in Arrived

\* The opening marker is before all of a wrapped paste, the closing one behind it.
MarkInv(p) ==
  faults = 0 /\ bracketed[p] /\ size[p] > 0 =>
    /\ written[p] > 0 =>
         \E i \in DOMAIN received :
           /\ received[i] = OpenMark
           /\ \A m \in DOMAIN received : Holds(received[m], p) => i < m
    /\ stage[p] = "done" => WrappedAsAWhole(p)

PasteInv ==
  /\ faults = 0 => connected /\ cliOnline /\ through
  /\ \A i \in DOMAIN received : Len(received[i]) <= Chunk
  /\ \A p \in Pastes : StageInv(p) /\ SentInv(p) /\ MarkInv(p)
  /\ \A p \in Pastes : size[p] \notin Wide[p]
  /\ PasteInOrder

AppInv == TypeOK /\ PageInv /\ CameraCanBeStopped /\ WorkerInv /\ PasteInv

-----------------------------------------------------------------------------
(* What a step leaves alone *)

LEMMA VisitIs ==
  ASSUME PageTypeOK
  PROVE  /\ visit.clients \in Nat /\ visit.keys \in Nat /\ visit.faults \in Nat
         /\ visit.builds \in 1 .. MaxBuild
BY VisitAssumption DEF PageTypeOK, VisitAssumption

LEMMA PageStays ==
  ASSUME UNCHANGED pageVars
  PROVE  /\ visit' = visit /\ client' = client /\ codeInput' = codeInput
         /\ hidden' = hidden /\ updateReady' = updateReady
         /\ banner' = banner /\ bannerTimer' = bannerTimer
BY DEF pageVars, placeVars, bannerVars

LEMMA PageTypeStays == PageTypeOK /\ UNCHANGED pageVars => PageTypeOK'
BY PageStays DEF PageTypeOK

LEMMA ScannerStays ==
  ScannerTypeOK /\ CameraCanBeStopped /\ UNCHANGED scanVars
    => ScannerTypeOK' /\ CameraCanBeStopped'
BY DEF scanVars, ScannerTypeOK, CameraCanBeStopped

LEMMA UpdateStays ==
  ASSUME UNCHANGED updateVars, UpdateTypeOK, WorkerInv
  PROVE  UpdateTypeOK' /\ WorkerInv' /\ waitingWorker' = waitingWorker
<1>1. /\ deployed' = deployed /\ active' = active /\ waiting' = waiting
      /\ installing' = installing /\ posted' = posted /\ startedUnder' = startedUnder
      /\ listening' = listening /\ watched' = watched /\ installed' = installed
      /\ changed' = changed /\ waitingWorker' = waitingWorker /\ reloading' = reloading
  BY DEF updateVars, browserVars, updaterVars
<1> QED BY <1>1 DEF UpdateTypeOK, WorkerInv, ReloadsForANewerWorker, Builds

LEMMA InputStays ==
  ASSUME UNCHANGED inputVars, visit' = visit, InputTypeOK
  PROVE  InputTypeOK'
<1>1. /\ connected' = connected /\ cliOnline' = cliOnline /\ through' = through
      /\ faults' = faults /\ stage' = stage /\ written' = written
      /\ size' = size /\ bracketed' = bracketed
      /\ keys' = keys /\ sealing' = sealing /\ ctrlArmed' = ctrlArmed
      /\ received' = received
  BY DEF inputVars, lineVars, pasteVars, keyVars
<1> QED BY <1>1 DEF InputTypeOK

-----------------------------------------------------------------------------
(* The scanner *)

LEMMA StartSessionIs ==
  ASSUME PageTypeOK, StartSession
  PROVE  client' \in 0 .. visit.clients
BY VisitIs DEF PageTypeOK, StartSession

\* Whoever begins or ends a scan, the camera that is on is the one recorded.
LEMMA ScannerStep ==
  ASSUME PageTypeOK, ScannerTypeOK, CameraCanBeStopped, ScannerNext
  PROVE  /\ PageTypeOK' /\ ScannerTypeOK' /\ CameraCanBeStopped'
         /\ UNCHANGED <<visit, updateReady, banner>>
<1> USE DEF StopScanning, Await
<1>1. ASSUME NEW s \in Scans, ScanStep(s), UNCHANGED pageVars
      PROVE  ScannerTypeOK' /\ CameraCanBeStopped'
  <2> USE DEF ScannerTypeOK, CameraCanBeStopped
  <2>1. CASE TapScan(s)
    <3>1. CASE scanning # NoScan
      BY <2>1, <3>1 DEF TapScan
    <3>2. CASE scanning = NoScan
      BY <2>1, <3>2 DEF TapScan
    <3> QED BY <3>1, <3>2
  <2>2. CASE CameraAnswers(s)
    <3>1. CASE scanning # NoScan
      BY <2>2, <3>1 DEF CameraAnswers
    <3>2. CASE scanning = NoScan
      <4>1. live' = live \cup {s} /\ scanning' = s /\ live \subseteq {NoScan}
        BY <2>2, <3>2 DEF CameraAnswers
      <4>2. live = {}
        BY <4>1, ScanAssumption DEF ScanAssumption
      <4>3. awaits' \in [Scans -> {"nothing", "camera", "play", "detect", "frame"}]
        BY <2>2, <3>2 DEF CameraAnswers
      <4> QED BY <4>1, <4>2, <4>3
    <3> QED BY <3>1, <3>2
  <2>3. CASE ScanFails(s)
    BY <1>1, <2>3 DEF ScanFails
  <2>4. CASE Plays(s) \/ Frame(s)
    BY <1>1, <2>4 DEF Plays, Frame, Tick
  <2>5. CASE FindsNothing(s)
    BY <1>1, <2>5 DEF FindsNothing
  <2>6. CASE FindsCode(s)
    BY <1>1, <2>6 DEF FindsCode, StartSession
  <2>7. CASE StreamEnds(s)
    BY <1>1, <2>7 DEF StreamEnds
  <2> QED BY <1>1, <2>1, <2>2, <2>3, <2>4, <2>5, <2>6, <2>7 DEF ScanStep
<1>2. ASSUME NEW s \in Scans, ScanStep(s), ~FindsCode(s)
      PROVE  UNCHANGED pageVars
  BY <1>2 DEF ScanStep, TapScan, CameraAnswers, ScanFails, Plays, Frame, FindsNothing,
              StreamEnds
<1>3. ASSUME NEW s \in Scans, ScanStep(s), ~FindsCode(s)
      PROVE  /\ PageTypeOK' /\ ScannerTypeOK' /\ CameraCanBeStopped'
             /\ UNCHANGED <<visit, updateReady, banner>>
  BY <1>1, <1>2, <1>3, PageStays, PageTypeStays
<1>4. ASSUME NEW s \in Scans, FindsCode(s)
      PROVE  /\ PageTypeOK' /\ ScannerTypeOK' /\ CameraCanBeStopped'
             /\ UNCHANGED <<visit, updateReady, banner>>
  <2>1. PageTypeOK' /\ UNCHANGED <<visit, updateReady, banner>>
    BY <1>4, StartSessionIs DEF FindsCode, PageTypeOK, bannerVars
  <2>2. ScannerTypeOK' /\ CameraCanBeStopped'
    BY <1>4 DEF FindsCode, StartSession, ScannerTypeOK, CameraCanBeStopped
  <2> QED BY <2>1, <2>2
<1>5. CASE TypesCode
  <2>1. PageTypeOK' /\ UNCHANGED <<visit, updateReady, banner, scanVars>>
    BY <1>5 DEF TypesCode, PageTypeOK, bannerVars
  <2> QED BY <2>1, ScannerStays
<1>6. CASE Begins
  <2>1. PageTypeOK' /\ UNCHANGED <<visit, updateReady, banner>>
    BY <1>6, StartSessionIs DEF Begins, PageTypeOK, bannerVars
  <2>2. ScannerTypeOK' /\ CameraCanBeStopped'
    BY <1>6 DEF Begins, StartSession, ScannerTypeOK, CameraCanBeStopped
  <2> QED BY <2>1, <2>2
<1>7. CASE Hides
  <2>1. PageTypeOK' /\ UNCHANGED <<visit, updateReady, banner>>
    BY <1>7 DEF Hides, PageTypeOK, bannerVars
  <2>2. ScannerTypeOK' /\ CameraCanBeStopped'
    BY <1>7 DEF Hides, ScannerTypeOK, CameraCanBeStopped
  <2> QED BY <2>1, <2>2
<1>8. CASE Shows
  <2>1. PageTypeOK' /\ UNCHANGED <<visit, updateReady, banner, scanVars>>
    BY <1>8 DEF Shows, PageTypeOK, bannerVars
  <2> QED BY <2>1, ScannerStays
<1> QED BY <1>3, <1>4, <1>5, <1>6, <1>7, <1>8 DEF ScannerNext

-----------------------------------------------------------------------------
(* The update *)

\* The banner only ever says one of the messages.
LEMMA ShowBannerIs ==
  ASSUME NEW message \in Messages, ShowBanner(message)
  PROVE  /\ banner' \in Messages \cup {"none"} /\ banner' = message /\ banner' # "none"
         /\ bannerTimer' \in BOOLEAN
BY DEF ShowBanner, Messages

LEMMA MessagesAre ==
  {"update", "updating", "line", "retrying", "cli", "notice"} \subseteq Messages
BY DEF Messages

\* What an offer, made or not, leaves.
LEMMA OfferIs ==
  ASSUME PageTypeOK, UpdateTypeOK, PageInv, WorkerInv, OfferUpdate, UNCHANGED placeVars
  PROVE  /\ PageTypeOK' /\ PageInv' /\ visit' = visit
         /\ posted' \subseteq Builds /\ 0 \notin posted'
         /\ waitingWorker' \in Builds
<1>1. /\ visit' = visit /\ client' = client /\ codeInput' = codeInput /\ hidden' = hidden
  BY DEF placeVars
<1>2. CASE waiting = 0 \/ ~hadController \/ updateReady
  <2>1. /\ updateReady' = updateReady /\ waitingWorker' = waitingWorker
        /\ banner' = banner /\ bannerTimer' = bannerTimer /\ posted' = posted
    BY <1>2 DEF OfferUpdate, bannerVars
  <2> QED BY <1>1, <2>1 DEF PageTypeOK, PageInv, OfferIsKept, UpdateTypeOK, WorkerInv
<1>3. CASE ~(waiting = 0 \/ ~hadController \/ updateReady)
  <2>1. updateReady' = TRUE /\ waitingWorker' = waiting /\ waiting # 0
    BY <1>3 DEF OfferUpdate
  <2>2. /\ \E message \in Messages : ShowBanner(message)
        /\ posted' = posted \cup {waiting} \/ posted' = posted
    BY <1>3, MessagesAre DEF OfferUpdate, ApplyUpdate
  <2>3. banner' \in Messages \cup {"none"} /\ banner' # "none" /\ bannerTimer' \in BOOLEAN
    BY <2>2, ShowBannerIs
  <2>4. PageTypeOK' /\ PageInv'
    BY <1>1, <2>1, <2>3 DEF PageTypeOK, PageInv, OfferIsKept
  <2> QED BY <1>1, <2>1, <2>2, <2>4 DEF UpdateTypeOK, WorkerInv
<1> QED BY <1>2, <1>3

LEMMA BuildsAre ==
  ASSUME UpdateTypeOK
  PROVE  /\ deployed \in Nat /\ active \in Nat /\ waiting \in Nat
         /\ installing \in Nat /\ startedUnder \in Nat
         /\ 0 \in Builds
BY BuildAssumption DEF UpdateTypeOK, Builds, BuildAssumption

UpdateKeeps == PageTypeOK /\ UpdateTypeOK /\ PageInv /\ WorkerInv

\* Every step of the update keeps the workers in order, and offers only who waits.
LEMMA UpdateStepIs ==
  ASSUME UpdateKeeps, UpdateStep
  PROVE  UpdateKeeps' /\ visit' = visit
<1> USE DEF UpdateKeeps
<1>0. PageTypeOK /\ UpdateTypeOK /\ PageInv /\ WorkerInv
  OBVIOUS
<1>1. CASE Registers
  <2>1. /\ PageTypeOK' /\ PageInv' /\ visit' = visit
        /\ posted' \subseteq Builds /\ 0 \notin posted'
        /\ waitingWorker' \in Builds
    BY <1>1, OfferIs DEF Registers
  <2>2. /\ listening' = TRUE
        /\ installing' = IF active = 0 /\ installing = 0 THEN deployed ELSE installing
        /\ deployed' = deployed /\ active' = active /\ waiting' = waiting
        /\ startedUnder' = startedUnder /\ watched' = watched /\ installed' = installed
        /\ changed' = changed /\ reloading' = reloading
    BY <1>1 DEF Registers
  <2>3. UpdateTypeOK'
    BY <2>1, <2>2 DEF UpdateTypeOK, Builds
  <2>4. WorkerInv'
    BY <2>1, <2>2, BuildsAre DEF WorkerInv, ReloadsForANewerWorker
  <2> QED BY <2>1, <2>3, <2>4
<1>2. CASE UpdateFound
  <2>1. /\ UNCHANGED pageVars /\ installing' = deployed
        /\ deployed > active /\ deployed > waiting
        /\ watched' = (IF listening THEN deployed ELSE watched) /\ listening' = listening
        /\ deployed' = deployed /\ active' = active /\ waiting' = waiting /\ posted' = posted
        /\ startedUnder' = startedUnder /\ installed' = installed
        /\ changed' = changed /\ waitingWorker' = waitingWorker /\ reloading' = reloading
    BY <1>2 DEF UpdateFound
  <2>2. UpdateTypeOK' /\ WorkerInv'
    BY <2>1, BuildsAre DEF UpdateTypeOK, WorkerInv, ReloadsForANewerWorker, Builds
  <2> QED BY <2>1, <2>2, PageStays, PageTypeStays DEF PageInv, OfferIsKept
<1>3. CASE StateChanges
  <2>1. /\ PageTypeOK' /\ PageInv' /\ visit' = visit
        /\ posted' \subseteq Builds /\ 0 \notin posted'
        /\ waitingWorker' \in Builds
    BY <1>3, OfferIs DEF StateChanges
  <2>2. /\ installed' = FALSE /\ listening' = listening /\ installing' = installing
        /\ deployed' = deployed /\ active' = active /\ waiting' = waiting
        /\ startedUnder' = startedUnder /\ watched' = watched
        /\ changed' = changed /\ reloading' = reloading
    BY <1>3 DEF StateChanges
  <2>3. UpdateTypeOK' /\ WorkerInv'
    BY <2>1, <2>2 DEF UpdateTypeOK, Builds, WorkerInv, ReloadsForANewerWorker
  <2> QED BY <2>1, <2>3
<1>4. CASE TapReload
  <2>1. /\ waitingWorker # 0 /\ ShowBanner("updating") /\ updateReady' = updateReady
        /\ posted' = posted \cup {waitingWorker} /\ UNCHANGED placeVars
    BY <1>4 DEF TapReload, ApplyUpdate, PageInv
  <2>2. /\ installed' = installed /\ listening' = listening /\ installing' = installing
        /\ deployed' = deployed /\ active' = active /\ waiting' = waiting
        /\ startedUnder' = startedUnder /\ watched' = watched
        /\ changed' = changed /\ reloading' = reloading /\ waitingWorker' = waitingWorker
    BY <1>4 DEF TapReload, updaterVars
  <2>3. banner' \in Messages \cup {"none"} /\ banner' = "updating" /\ bannerTimer' \in BOOLEAN
    BY <2>1, ShowBannerIs, MessagesAre
  <2>4. PageTypeOK' /\ PageInv' /\ visit' = visit
    BY <2>1, <2>2, <2>3 DEF PageTypeOK, PageInv, OfferIsKept, placeVars
  <2>5. UpdateTypeOK' /\ WorkerInv'
    BY <2>1, <2>2 DEF UpdateTypeOK, Builds, WorkerInv, ReloadsForANewerWorker
  <2> QED BY <2>4, <2>5
<1>5. CASE ControllerChanges
  <2>1. /\ UNCHANGED <<browserVars, pageVars>> /\ changed /\ changed' = FALSE
        /\ reloading' = (reloading \/ (listening /\ startedUnder # 0))
        /\ startedUnder' = startedUnder /\ listening' = listening /\ watched' = watched
        /\ installed' = installed /\ waitingWorker' = waitingWorker
    BY <1>5 DEF ControllerChanges, hadController
  <2>0. reloading' \in BOOLEAN
    BY <2>1
  <2>2. /\ deployed' = deployed /\ active' = active /\ waiting' = waiting
        /\ installing' = installing /\ posted' = posted
    BY <2>1 DEF browserVars
  <2>3. UpdateTypeOK'
    BY <2>0, <2>1, <2>2 DEF UpdateTypeOK
  <2>4. reloading' => reloading \/ (changed /\ startedUnder # 0)
    BY <2>1
  <2>5. WorkerInv'
    BY <2>1, <2>2, <2>4, BuildsAre DEF WorkerInv, ReloadsForANewerWorker
  <2> QED BY <2>1, <2>3, <2>5, PageStays, PageTypeStays DEF PageInv, OfferIsKept
<1>6. CASE Deploys
  <2>1. /\ UNCHANGED <<updaterVars, pageVars>> /\ deployed < visit.builds
        /\ deployed' = deployed + 1 /\ active' = active /\ waiting' = waiting
        /\ installing' = installing /\ posted' = posted
    BY <1>6 DEF Deploys
  <2>2. /\ startedUnder' = startedUnder /\ listening' = listening /\ watched' = watched
        /\ installed' = installed /\ changed' = changed /\ waitingWorker' = waitingWorker
        /\ reloading' = reloading
    BY <2>1 DEF updaterVars
  <2>3. deployed' \in Builds /\ deployed' # 0
    BY <2>1, BuildsAre, VisitIs, BuildAssumption DEF Builds, BuildAssumption
  <2>4. UpdateTypeOK' /\ WorkerInv'
    BY <2>1, <2>2, <2>3 DEF UpdateTypeOK, WorkerInv, ReloadsForANewerWorker, Builds
  <2> QED BY <2>1, <2>2, <2>4, PageStays, PageTypeStays DEF PageInv, OfferIsKept
<1>7. CASE Installs
  <2>1. /\ UNCHANGED pageVars /\ installing # 0 /\ installing' = 0
        /\ installed' = (installed \/ installing = watched)
        /\ \/ active = 0 /\ active' = installing /\ changed' = TRUE /\ waiting' = waiting
           \/ active # 0 /\ waiting' = installing /\ active' = active /\ changed' = changed
        /\ deployed' = deployed /\ posted' = posted /\ startedUnder' = startedUnder
        /\ listening' = listening /\ watched' = watched
        /\ waitingWorker' = waitingWorker /\ reloading' = reloading
    BY <1>7 DEF Installs, TakesOver
  <2>2. installed' \in BOOLEAN
    BY <2>1
  <2>3. UpdateTypeOK'
    BY <2>1, <2>2, BuildsAre DEF UpdateTypeOK
  <2>4. WorkerInv'
    <3>1. CASE active = 0
      BY <2>1, <3>1, BuildsAre DEF WorkerInv, ReloadsForANewerWorker
    <3>2. CASE active # 0
      BY <2>1, <3>2, BuildsAre DEF WorkerInv, ReloadsForANewerWorker
    <3> QED BY <3>1, <3>2
  <2> QED BY <2>1, <2>3, <2>4, PageStays, PageTypeStays DEF PageInv, OfferIsKept
<1>8. CASE AnotherPageTakes
  <2>1. /\ UNCHANGED <<updaterVars, pageVars>> /\ waiting # 0
        /\ posted' = posted \cup {waiting} /\ deployed' = deployed
        /\ active' = active /\ waiting' = waiting /\ installing' = installing
    BY <1>8 DEF AnotherPageTakes
  <2>2. /\ startedUnder' = startedUnder /\ listening' = listening /\ watched' = watched
        /\ installed' = installed /\ changed' = changed /\ waitingWorker' = waitingWorker
        /\ reloading' = reloading
    BY <2>1 DEF updaterVars
  <2>3. UpdateTypeOK' /\ WorkerInv'
    BY <2>1, <2>2 DEF UpdateTypeOK, WorkerInv, ReloadsForANewerWorker, Builds
  <2> QED BY <2>1, <2>2, <2>3, PageStays, PageTypeStays DEF PageInv, OfferIsKept
<1>9. ASSUME NEW worker \in posted, SkipWaiting(worker)
      PROVE  UpdateKeeps' /\ visit' = visit
  <2>1. /\ UNCHANGED pageVars /\ posted' = posted \ {worker} /\ worker # 0
        /\ \/ worker = waiting /\ active' = worker /\ changed' = TRUE /\ waiting' = 0
           \/ active' = active /\ changed' = changed /\ waiting' = waiting
        /\ deployed' = deployed /\ installing' = installing /\ startedUnder' = startedUnder
        /\ listening' = listening /\ watched' = watched /\ installed' = installed
        /\ waitingWorker' = waitingWorker /\ reloading' = reloading
    BY <1>9 DEF SkipWaiting, TakesOver, WorkerInv
  <2>2. UpdateTypeOK'
    BY <2>1, BuildsAre DEF UpdateTypeOK
  <2>3. 0 \notin posted'
    BY <2>1 DEF WorkerInv
  <2>4. WorkerInv'
    <3>1. CASE worker = waiting /\ active' = worker /\ changed' = TRUE /\ waiting' = 0
      BY <2>1, <2>3, <3>1, BuildsAre DEF WorkerInv, ReloadsForANewerWorker
    <3>2. CASE active' = active /\ changed' = changed /\ waiting' = waiting
      BY <2>1, <2>3, <3>2, BuildsAre DEF WorkerInv, ReloadsForANewerWorker
    <3> QED BY <2>1, <3>1, <3>2
  <2> QED BY <2>1, <2>2, <2>4, PageStays, PageTypeStays DEF PageInv, OfferIsKept
<1> QED BY <1>1, <1>2, <1>3, <1>4, <1>5, <1>6, <1>7, <1>8, <1>9 DEF UpdateStep

-----------------------------------------------------------------------------
(* planPaste *)

LEMMA MinIs ==
  ASSUME NEW a \in Int, NEW b \in Int
  PROVE  Min({a, b}) = IF a < b THEN a ELSE b
<1>1. (IF a < b THEN a ELSE b) \in {a, b} /\ \A y \in {a, b} : (IF a < b THEN a ELSE b) <= y
  OBVIOUS
<1>2. \A x \in {a, b} : (\A y \in {a, b} : x <= y) => x = IF a < b THEN a ELSE b
  OBVIOUS
<1> QED BY <1>1, <1>2 DEF Min

LEMMA PiecesAre ==
  ASSUME NEW n \in Nat, n > 0
  PROVE  /\ Pieces(n) \in Nat \ {0} /\ Pieces(n) * Chunk >= n
         /\ \A v \in Nat : v < Pieces(n) => v * Chunk < n
<1>1. Chunk \in Nat \ {0}
  BY ChunkAssumption DEF ChunkAssumption
<1> DEFINE m == n + Chunk - 1
<1>2. m \in Nat /\ m >= Chunk
  BY <1>1
<1> HIDE DEF m
<1>3. m \div Chunk \in Nat /\ (m \div Chunk) * Chunk <= m /\ m < (m \div Chunk) * Chunk + Chunk
  BY <1>1, <1>2
<1>4. m \div Chunk # 0
  BY <1>1, <1>2, <1>3
<1>5. (m \div Chunk) * Chunk >= n
  BY <1>1, <1>3 DEF m
<1>6. ASSUME NEW v \in Nat, v < m \div Chunk
      PROVE  v * Chunk < n
  <2>1. (v + 1) * Chunk <= (m \div Chunk) * Chunk
    BY <1>1, <1>3, <1>6
  <2>2. (v + 1) * Chunk = v * Chunk + Chunk /\ v * Chunk \in Nat
    BY <1>1
  <2> QED BY <1>1, <1>2, <1>3, <2>1, <2>2 DEF m
<1> QED BY <1>3, <1>4, <1>5, <1>6 DEF Pieces, m

LEMMA UptoIs ==
  ASSUME NEW n \in Nat, NEW v \in Nat
  PROVE  /\ Upto(n, v) \in 0 .. n
         /\ n > 0 /\ v < Pieces(n) => Upto(n, v) = v * Chunk /\ v * Chunk \in Nat
         /\ n > 0 /\ v = Pieces(n) => Upto(n, v) = n
<1>1. Chunk \in Nat \ {0}
  BY ChunkAssumption DEF ChunkAssumption
<1>2. v * Chunk \in Nat
  BY <1>1
<1> QED BY <1>2, PiecesAre DEF Upto

\* Where a write takes up the text of a paste, and where it leaves it: a write that is not
\* full ends with the text, which does not end within a pair.
Continues(write, p, from, upto) ==
  /\ write \in Seq(Units) /\ Len(write) <= Chunk
  /\ \/ from = upto /\ write \in {OpenMark, CloseMark}
     \/ /\ from < upto /\ Len(write) = upto - from
        /\ \A l \in 1 .. Len(write) : write[l] = <<p, from + l>>
        /\ from % Chunk = 0
        /\ Len(write) = Chunk \/ upto \notin Wide[p]

\* The places at which one write ends and the next begins.
LEMMA MultiplesAre ==
  ASSUME NEW a \in Nat, NEW b \in Nat \ {0}
  PROVE  a % b = 0 <=> \E k \in Nat : a = k * b
<1>1. a = b * (a \div b) + (a % b) /\ a \div b \in Nat /\ a % b \in Nat
  OBVIOUS
<1>2. a % b = 0 => a = (a \div b) * b
  BY <1>1
<1>3. \A k \in Nat : a = k * b => a % b = 0
  OBVIOUS
<1> QED BY <1>1, <1>2, <1>3

LEMMA MultipleIs ==
  ASSUME NEW k \in Nat
  PROVE  (k * Chunk) % Chunk = 0
<1>1. Chunk \in Nat \ {0} /\ k * Chunk \in Nat
  BY ChunkAssumption DEF ChunkAssumption
<1> QED BY <1>1, MultiplesAre

Piece(p, n, v) == SubSeq(Text(p, n), (v - 1) * Chunk + 1, Min({v * Chunk, n}))

LEMMA TextIs ==
  ASSUME NEW p \in Pastes, NEW n \in Nat
  PROVE  /\ Text(p, n) \in Seq(Units) /\ Len(Text(p, n)) = n
         /\ \A i \in 1 .. n : Text(p, n)[i] = <<p, i>>
<1>1. \A i \in 1 .. n : <<p, i>> \in Units
  BY DEF Units
<1>2. Text(p, n) \in [1 .. n -> Units]
  BY <1>1 DEF Text
<1> QED BY <1>2, IsASeq, LenProperties DEF Text

LEMMA PieceIs ==
  ASSUME NEW p \in Pastes, NEW n \in Nat \ Wide[p], n > 0, NEW v \in 1 .. Pieces(n)
  PROVE  Continues(Piece(p, n, v), p, Upto(n, v - 1), Upto(n, v))
<1>1. Chunk \in Nat \ {0} /\ Pieces(n) \in Nat /\ v \in Nat /\ v - 1 \in Nat
  BY ChunkAssumption, PiecesAre DEF ChunkAssumption
<1> DEFINE from == (v - 1) * Chunk
           upto == Upto(n, v)
<1>2. from \in Nat /\ v * Chunk = from + Chunk /\ v * Chunk \in Nat
  BY <1>1
<1>3. Upto(n, v - 1) = from /\ from < n
  <2>1. v - 1 < Pieces(n)
    BY <1>1
  <2> QED BY <1>1, <2>1, UptoIs, PiecesAre
<1>4. Min({v * Chunk, n}) = upto
  BY <1>2, MinIs DEF Upto
<1>5. upto \in 0 .. n /\ from < upto /\ upto - from <= Chunk
  BY <1>1, <1>2, <1>3 DEF Upto
<1>11. upto = from + Chunk \/ upto = n
  BY <1>2 DEF Upto
<1>12. from % Chunk = 0
  <2>1. PICK k \in Nat : k = v - 1
    BY <1>1
  <2>2. (k * Chunk) % Chunk = 0
    BY <1>1, MultipleIs
  <2> QED BY <2>1, <2>2
<1> HIDE DEF from, upto
<1>6. from + 1 \in 1 .. n + 1 /\ upto \in from + 1 - 1 .. n
  BY <1>2, <1>3, <1>5
<1> DEFINE piece == SubSeq(Text(p, n), from + 1, upto)
<1>7. /\ piece \in Seq(Units)
      /\ Len(piece) = IF from + 1 <= upto THEN upto - (from + 1) + 1 ELSE 0
      /\ \A i \in 1 .. upto - (from + 1) + 1 : piece[i] = Text(p, n)[from + 1 + i - 1]
  <2>1. /\ Text(p, n) \in Seq(Units) /\ from + 1 \in 1 .. Len(Text(p, n)) + 1
        /\ upto \in from + 1 - 1 .. Len(Text(p, n))
    BY <1>6, TextIs
  <2> QED BY <2>1, SubSeqProperties
<1> HIDE DEF piece
<1>8. Len(piece) = upto - from
  BY <1>2, <1>5, <1>7
<1>9. ASSUME NEW i \in 1 .. Len(piece)
      PROVE  piece[i] = <<p, from + i>>
  <2>1. from + 1 + i - 1 = from + i /\ from + i \in 1 .. n /\ i \in 1 .. upto - (from + 1) + 1
    BY <1>2, <1>5, <1>8, <1>9
  <2> QED BY <1>7, <2>1, TextIs
<1>10. Piece(p, n, v) = piece
  BY <1>4 DEF Piece, piece, from
<1>13. Len(piece) = Chunk \/ upto \notin Wide[p]
  BY <1>1, <1>2, <1>8, <1>11
<1> QED BY <1>3, <1>5, <1>7, <1>8, <1>9, <1>10, <1>12, <1>13 DEF Continues, upto

LEMMA MarksAre ==
  ASSUME NEW mark \in {OpenMark, CloseMark}
  PROVE  /\ mark \in Seq(Units) /\ Len(mark) = 1 /\ Len(mark) <= Chunk
         /\ mark[1][1] = "mark" /\ mark[1] \in Units
<1>1. <<"mark", 200>> \in Units /\ <<"mark", 201>> \in Units
  BY DEF Units
<1> QED BY <1>1, ChunkAssumption DEF OpenMark, CloseMark, ChunkAssumption

LEMMA PlanIs ==
  ASSUME NEW p \in Pastes, NEW n \in Nat \ Wide[p], NEW marked \in BOOLEAN
  PROVE  /\ Writes(n, marked) \in Nat
         /\ Len(PlanPaste(Text(p, n), marked)) = Writes(n, marked)
         /\ n > 0 => Writes(n, marked) > 0
         /\ \A w \in 1 .. Writes(n, marked) :
              PlanPaste(Text(p, n), marked)[w] =
                IF marked /\ w = 1 THEN OpenMark
                ELSE IF marked /\ w = Writes(n, marked) THEN CloseMark
                ELSE Piece(p, n, PiecesIn(marked, w))
<1> DEFINE pieces == [v \in 1 .. Pieces(n) |-> Piece(p, n, v)]
<1>1. Chunk \in Nat \ {0}
  BY ChunkAssumption DEF ChunkAssumption
<1>2. Len(Text(p, n)) = n /\ (Text(p, n) # <<>> <=> n > 0)
  BY TextIs, EmptySeq
<1>3. PlanPaste(Text(p, n), marked) =
        IF marked /\ n > 0 THEN <<OpenMark>> \o pieces \o <<CloseMark>> ELSE pieces
  BY <1>2 DEF PlanPaste, Piece, Pieces
<1>4. CASE n = 0
  <2>1. Pieces(n) = 0
    BY <1>1, <1>4 DEF Pieces
  <2> QED BY <1>3, <1>4, <2>1 DEF Writes
<1>5. CASE n > 0
  <2>1. Pieces(n) \in Nat /\ Pieces(n) > 0
    BY <1>5, PiecesAre
  <2> DEFINE S == Seq(Units)
  <2>2. \A v \in 1 .. Pieces(n) : Piece(p, n, v) \in S
    BY <1>5, PieceIs DEF Continues
  <2>3. pieces \in Seq(S) /\ Len(pieces) = Pieces(n)
    <3>1. pieces \in [1 .. Pieces(n) -> S]
      BY <2>2
    <3> QED BY <2>1, <3>1, IsASeq, LenProperties
  <2>4. \A v \in 1 .. Pieces(n) : pieces[v] = Piece(p, n, v)
    OBVIOUS
  <2> HIDE DEF pieces
  <2>5. CASE ~marked
    BY <1>3, <1>5, <2>1, <2>3, <2>4, <2>5 DEF Writes, PiecesIn
  <2>6. CASE marked
    <3>1. <<OpenMark>> \in Seq(S) /\ <<CloseMark>> \in Seq(S)
          /\ Len(<<OpenMark>>) = 1 /\ Len(<<CloseMark>>) = 1
          /\ <<OpenMark>>[1] = OpenMark /\ <<CloseMark>>[1] = CloseMark
      BY MarksAre
    <3> HIDE DEF S
    <3> DEFINE front == <<OpenMark>> \o pieces
    <3>2. /\ front \in Seq(S) /\ Len(front) = Pieces(n) + 1
          /\ \A w \in 1 .. Pieces(n) + 1 :
               front[w] = IF w <= 1 THEN OpenMark ELSE pieces[w - 1]
      BY <2>1, <2>3, <3>1, ConcatProperties
    <3> HIDE DEF front
    <3> DEFINE plan == front \o <<CloseMark>>
    <3>3. /\ Len(plan) = Pieces(n) + 2
          /\ \A w \in 1 .. Pieces(n) + 2 :
               plan[w] = IF w <= Pieces(n) + 1 THEN front[w] ELSE CloseMark
      BY <2>1, <3>1, <3>2, ConcatProperties
    <3>4. plan = PlanPaste(Text(p, n), marked)
      BY <1>3, <1>5, <2>6 DEF front
    <3> HIDE DEF plan
    <3>5. Writes(n, marked) = Pieces(n) + 2
      BY <1>5, <2>6 DEF Writes
    <3>6. ASSUME NEW w \in 1 .. Pieces(n) + 2
          PROVE  plan[w] = IF w = 1 THEN OpenMark
                           ELSE IF w = Pieces(n) + 2 THEN CloseMark
                           ELSE Piece(p, n, PiecesIn(marked, w))
      <4>1. CASE w = 1
        BY <2>1, <3>2, <3>3, <4>1
      <4>2. CASE w = Pieces(n) + 2
        BY <2>1, <3>3, <4>2
      <4>3. CASE w # 1 /\ w # Pieces(n) + 2
        <5>1. w <= Pieces(n) + 1 /\ ~(w <= 1) /\ w - 1 \in 1 .. Pieces(n) /\ w # 0
              /\ w \in 1 .. Pieces(n) + 1
          BY <2>1, <4>3
        <5>2. PiecesIn(marked, w) = w - 1
          BY <2>6, <5>1 DEF PiecesIn
        <5> QED BY <2>4, <3>2, <3>3, <4>3, <5>1, <5>2
      <4> QED BY <4>1, <4>2, <4>3
    <3>7. Writes(n, marked) \in Nat /\ Writes(n, marked) > 0
      BY <2>1, <3>5
    <3>8. Len(plan) = Writes(n, marked)
      BY <3>3, <3>5
    <3>9. \A w \in 1 .. Writes(n, marked) :
            plan[w] = IF marked /\ w = 1 THEN OpenMark
                      ELSE IF marked /\ w = Writes(n, marked) THEN CloseMark
                      ELSE Piece(p, n, PiecesIn(marked, w))
      BY <2>6, <3>5, <3>6, Zenon
    <3> QED BY <3>4, <3>7, <3>8, <3>9, Zenon
  <2> QED BY <2>5, <2>6
<1> QED BY <1>4, <1>5

LEMMA WriteContinues ==
  ASSUME NEW p \in Pastes, NEW n \in Nat \ Wide[p], NEW marked \in BOOLEAN,
         NEW w \in 1 .. Writes(n, marked)
  PROVE  /\ Continues(PlanPaste(Text(p, n), marked)[w], p,
                      HeldBy(n, marked, w - 1), HeldBy(n, marked, w))
         /\ marked /\ w = 1 => PlanPaste(Text(p, n), marked)[w] = OpenMark
         /\ marked /\ w = Writes(n, marked) =>
              w > 1 /\ PlanPaste(Text(p, n), marked)[w] = CloseMark
<1>1. n > 0
  BY DEF Writes
<1>2. Pieces(n) \in Nat /\ Pieces(n) > 0
  BY <1>1, PiecesAre
<1>3. Writes(n, marked) = IF marked THEN Pieces(n) + 2 ELSE Pieces(n)
  BY <1>1 DEF Writes
<1> DEFINE write == PlanPaste(Text(p, n), marked)[w]
<1>4. write = IF marked /\ w = 1 THEN OpenMark
              ELSE IF marked /\ w = Writes(n, marked) THEN CloseMark
              ELSE Piece(p, n, PiecesIn(marked, w))
  BY PlanIs
<1> HIDE DEF write
<1>5. CASE ~marked
  <2>1. PiecesIn(marked, w) = w /\ PiecesIn(marked, w - 1) = w - 1
    BY <1>5 DEF PiecesIn
  <2> QED BY <1>1, <1>3, <1>4, <1>5, <2>1, PieceIs DEF HeldBy, write
<1>6. CASE marked /\ w = 1
  <2>1. PiecesIn(marked, w) = 0 /\ PiecesIn(marked, w - 1) = 0
    BY <1>6 DEF PiecesIn
  <2>2. write = OpenMark /\ w # Writes(n, marked)
    BY <1>2, <1>3, <1>4, <1>6
  <2> QED BY <1>6, <2>1, <2>2, MarksAre DEF HeldBy, Continues, write
<1>7. CASE marked /\ w = Writes(n, marked)
  <2>0. w = Pieces(n) + 2 /\ w - 1 = Pieces(n) + 1 /\ w # 0 /\ w - 1 # 0 /\ w > 1
    <3>1. w = Pieces(n) + 2
      BY <1>3, <1>7, Zenon
    <3> QED BY <1>2, <3>1
  <2>1. PiecesIn(marked, w) = Pieces(n) + 1 /\ PiecesIn(marked, w - 1) = Pieces(n)
    <3>1. PiecesIn(marked, w) = w - 1 /\ PiecesIn(marked, w - 1) = w - 1 - 1
      BY <1>7, <2>0, Zenon DEF PiecesIn
    <3> QED BY <1>2, <2>0, <3>1
  <2>2. Upto(n, Pieces(n) + 1) = n /\ Upto(n, Pieces(n)) = n
    <3>1. Chunk \in Nat \ {0}
      BY ChunkAssumption DEF ChunkAssumption
    <3>2. (Pieces(n) + 1) * Chunk = Pieces(n) * Chunk + Chunk /\ Pieces(n) * Chunk \in Nat
      BY <1>2, <3>1
    <3> QED BY <1>1, <1>2, <3>1, <3>2, PiecesAre DEF Upto
  <2>3. write = CloseMark
    <3>1. w # 1
      BY <1>2, <2>0
    <3> QED BY <1>4, <1>7, <3>1, Zenon
  <2>4. HeldBy(n, marked, w) = n /\ HeldBy(n, marked, w - 1) = n
    BY <2>1, <2>2, Zenon DEF HeldBy
  <2>5. Continues(write, p, n, n)
    BY <2>3, MarksAre DEF Continues
  <2>6. marked /\ w = 1 => write = OpenMark
    BY <2>0
  <2> QED BY <2>0, <2>3, <2>4, <2>5, <2>6 DEF write
<1>8. CASE marked /\ w # 1 /\ w # Writes(n, marked)
  <2>1. PiecesIn(marked, w) = w - 1 /\ PiecesIn(marked, w - 1) = w - 1 - 1
        /\ w - 1 \in 1 .. Pieces(n)
    BY <1>2, <1>3, <1>8 DEF PiecesIn
  <2>2. write = Piece(p, n, w - 1)
    BY <1>4, <1>8, <2>1
  <2> QED BY <1>1, <1>8, <2>1, <2>2, PieceIs DEF HeldBy, write
<1> QED BY <1>5, <1>6, <1>7, <1>8

LEMMA HeldIs ==
  ASSUME NEW n \in Nat, NEW marked \in BOOLEAN, NEW w \in Nat
  PROVE  /\ HeldBy(n, marked, w) \in 0 .. n
         /\ HeldBy(n, marked, 0) = 0
         /\ w = Writes(n, marked) => HeldBy(n, marked, w) = n
<1>1. Chunk \in Nat \ {0}
  BY ChunkAssumption DEF ChunkAssumption
<1>2. PiecesIn(marked, w) \in Nat /\ PiecesIn(marked, 0) = 0
  BY DEF PiecesIn
<1>3. HeldBy(n, marked, w) \in 0 .. n
  BY <1>2, UptoIs DEF HeldBy
<1>4. HeldBy(n, marked, 0) = 0
  BY <1>1, <1>2 DEF HeldBy, Upto
<1>5. CASE n = 0
  BY <1>3, <1>4, <1>5
<1>6. CASE n > 0
  <2>1. /\ Pieces(n) \in Nat /\ Pieces(n) > 0
        /\ Pieces(n) * Chunk \in Nat /\ Pieces(n) * Chunk >= n
        /\ (Pieces(n) + 1) * Chunk = Pieces(n) * Chunk + Chunk
    BY <1>1, <1>6, PiecesAre
  <2>2. Upto(n, Pieces(n)) = n /\ Upto(n, Pieces(n) + 1) = n
    BY <1>1, <1>6, <2>1 DEF Upto
  <2>3. w = Writes(n, marked) => PiecesIn(marked, w) \in {Pieces(n), Pieces(n) + 1}
    BY <1>6, <2>1 DEF Writes, PiecesIn
  <2> QED BY <1>3, <1>4, <2>2, <2>3 DEF HeldBy
<1> QED BY <1>3, <1>4, <1>5, <1>6

-----------------------------------------------------------------------------
(* What arrives *)

\* The writes that have arrived, after one more or none.
Grows(write) ==
  received' = Append(received, write) /\ write \in Seq(Units)

LEMMA GrowsBy ==
  ASSUME received \in Seq(Seq(Units)), NEW write, Grows(write)
  PROVE  /\ received' \in Seq(Seq(Units))
         /\ Len(received) \in Nat /\ DOMAIN received = 1 .. Len(received)
         /\ DOMAIN received' = 1 .. Len(received) + 1
         /\ \A i \in DOMAIN received : received'[i] = received[i] /\ i \in DOMAIN received'
         /\ received'[Len(received) + 1] = write
         /\ Arrived' = Arrived \cup Range(write)
<1>1. /\ received' \in Seq(Seq(Units))
      /\ Len(received) \in Nat /\ DOMAIN received = 1 .. Len(received)
      /\ DOMAIN received' = 1 .. Len(received) + 1
      /\ received'[Len(received) + 1] = write
  BY DEF Grows
<1>2. \A i \in DOMAIN received : received'[i] = received[i] /\ i \in DOMAIN received'
  BY DEF Grows
<1>3. ASSUME NEW c \in Arrived' PROVE c \in Arrived \cup Range(write)
  <2>1. PICK i \in DOMAIN received' : c \in Range(received'[i])
    BY <1>3 DEF Arrived
  <2>2. CASE i = Len(received) + 1
    BY <1>1, <2>1, <2>2
  <2>3. CASE i \in DOMAIN received
    BY <1>2, <2>1, <2>3 DEF Arrived
  <2> QED BY <1>1, <2>1, <2>2, <2>3
<1>4. ASSUME NEW c \in Arrived \cup Range(write) PROVE c \in Arrived'
  <2>1. CASE c \in Range(write)
    <3>1. Len(received) + 1 \in DOMAIN received' /\ c \in Range(received'[Len(received) + 1])
      BY <1>1, <2>1
    <3> QED BY <3>1 DEF Arrived
  <2>2. CASE c \in Arrived
    <3>1. PICK i \in DOMAIN received : c \in Range(received[i])
      BY <2>2 DEF Arrived
    <3>2. i \in DOMAIN received' /\ c \in Range(received'[i])
      BY <1>2, <3>1
    <3> QED BY <3>2 DEF Arrived
  <2> QED BY <1>4, <2>1, <2>2
<1> QED BY <1>1, <1>2, <1>3, <1>4

\* A write that holds nothing of a paste leaves what has arrived of it alone.
LEMMA OthersStay ==
  ASSUME NEW p \in Pastes, StageInv(p), SentInv(p), MarkInv(p),
         received \in Seq(Seq(Units)),
         stage'[p] = stage[p], written'[p] = written[p],
         size'[p] = size[p], bracketed'[p] = bracketed[p],
         faults' = 0 => faults = 0,
         received' = received \/ \E write : Grows(write) /\ ~Holds(write, p)
  PROVE  StageInv(p)' /\ SentInv(p)' /\ MarkInv(p)'
<1>1. StageInv(p)' /\ Sent(p)' = Sent(p)
  BY DEF StageInv, Sent
<1>2. CASE received' = received
  <2>1. Arrived' = Arrived
    BY <1>2 DEF Arrived
  <2>2. WrappedAsAWhole(p) => WrappedAsAWhole(p)'
    BY <1>2 DEF WrappedAsAWhole
  <2>3. SentInv(p)'
    BY <1>1, <2>1 DEF SentInv
  <2>4. MarkInv(p)'
    BY <1>2, <2>2 DEF MarkInv
  <2> QED BY <1>1, <2>3, <2>4
<1>3. ASSUME NEW write, Grows(write), ~Holds(write, p)
      PROVE  SentInv(p)' /\ MarkInv(p)'
  <2>1. /\ Len(received) \in Nat /\ DOMAIN received = 1 .. Len(received)
        /\ DOMAIN received' = 1 .. Len(received) + 1
        /\ \A i \in DOMAIN received : received'[i] = received[i] /\ i \in DOMAIN received'
        /\ received'[Len(received) + 1] = write
        /\ Arrived' = Arrived \cup Range(write)
    BY <1>3, GrowsBy
  <2>2. \A c \in Range(write) : c[1] # p
    BY <1>3 DEF Holds, Range
  <2>3. \A m \in DOMAIN received' :
          Holds(received'[m], p) => m \in DOMAIN received /\ Holds(received[m], p)
    <3>1. \A m \in DOMAIN received' : m \in DOMAIN received \/ m = Len(received) + 1
      BY <2>1
    <3> QED BY <1>3, <2>1, <3>1
  <2>4. SentInv(p)'
    <3>1. \A c \in Arrived' : c[1] = p => c[2] \in (1 .. Sent(p)) \ Astride(p)
      BY <2>1, <2>2 DEF SentInv
    <3>2. faults' = 0 => \A i \in (1 .. Sent(p)) \ Astride(p) : <<p, i>> \in Arrived'
      BY <2>1 DEF SentInv
    <3> QED BY <1>1, <3>1, <3>2 DEF SentInv
  <2>5. WrappedAsAWhole(p) => WrappedAsAWhole(p)'
    <3>1. SUFFICES ASSUME WrappedAsAWhole(p) PROVE WrappedAsAWhole(p)'
      OBVIOUS
    <3>2. PICK i, j \in DOMAIN received :
            /\ received[i] = OpenMark /\ received[j] = CloseMark
            /\ \A m \in DOMAIN received : Holds(received[m], p) => i < m /\ m < j
      BY <3>1 DEF WrappedAsAWhole
    <3>3. /\ i \in DOMAIN received' /\ j \in DOMAIN received'
          /\ received'[i] = OpenMark /\ received'[j] = CloseMark
          /\ \A m \in DOMAIN received' : Holds(received'[m], p) => i < m /\ m < j
      BY <2>1, <2>3, <3>2
    <3>4. \E a, b \in DOMAIN received' :
            /\ received'[a] = OpenMark /\ received'[b] = CloseMark
            /\ \A m \in DOMAIN received' : Holds(received'[m], p) => a < m /\ m < b
      BY <3>3
    <3> QED BY <3>4 DEF WrappedAsAWhole, Holds, OpenMark, CloseMark
  <2>6. (\E i \in DOMAIN received :
           /\ received[i] = OpenMark
           /\ \A m \in DOMAIN received : Holds(received[m], p) => i < m)
        => \E i \in DOMAIN received' :
             /\ received'[i] = OpenMark
             /\ \A m \in DOMAIN received' : Holds(received'[m], p) => i < m
    BY <2>1, <2>3
  <2>7. MarkInv(p)'
    <3>1. SUFFICES ASSUME faults' = 0, bracketed[p], size[p] > 0
                   PROVE  /\ written[p] > 0 =>
                               \E i \in DOMAIN received' :
                                 /\ received'[i] = OpenMark
                                 /\ \A m \in DOMAIN received' : Holds(received'[m], p) => i < m
                          /\ stage[p] = "done" => WrappedAsAWhole(p)'
      BY DEF MarkInv, OpenMark, Holds
    <3> QED BY <2>5, <2>6, <3>1 DEF MarkInv
  <2> QED BY <2>4, <2>7
<1> QED BY <1>1, <1>2, <1>3

\* A write whose characters follow those of their paste that have arrived, and each
\* other, keeps the order.
LEMMA OrderStays ==
  ASSUME PasteInOrder, received \in Seq(Seq(Units)), NEW write, Grows(write),
         \A k, l \in DOMAIN write :
           write[k][1] \in Pastes /\ write[k][1] = write[l][1] /\ k < l
             => write[k][2] < write[l][2],
         \A c \in Arrived, l \in DOMAIN write :
           c[1] \in Pastes /\ c[1] = write[l][1] => c[2] < write[l][2]
  PROVE  PasteInOrder'
<1>1. /\ Len(received) \in Nat /\ DOMAIN received = 1 .. Len(received)
      /\ DOMAIN received' = 1 .. Len(received) + 1
      /\ \A i \in DOMAIN received : received'[i] = received[i] /\ i \in DOMAIN received'
      /\ received'[Len(received) + 1] = write
  BY GrowsBy
<1>2. SUFFICES ASSUME NEW i \in DOMAIN received', NEW j \in DOMAIN received',
                      NEW k \in DOMAIN received'[i], NEW l \in DOMAIN received'[j],
                      received'[i][k][1] \in Pastes,
                      received'[i][k][1] = received'[j][l][1],
                      i < j \/ (i = j /\ k < l)
               PROVE  received'[i][k][2] < received'[j][l][2]
  BY DEF PasteInOrder
<1>3. CASE j \in DOMAIN received
  <2>1. i \in DOMAIN received
    BY <1>1, <1>2, <1>3
  <2>2. received'[i] = received[i] /\ received'[j] = received[j]
    BY <1>1, <1>3, <2>1
  <2> QED BY <1>2, <1>3, <2>1, <2>2 DEF PasteInOrder
<1>4. CASE j = Len(received) + 1 /\ i = j
  BY <1>1, <1>2, <1>4
<1>5. CASE j = Len(received) + 1 /\ i # j
  <2>1. i \in DOMAIN received /\ received'[i] = received[i] /\ received'[j] = write
    BY <1>1, <1>5
  <2>2. received[i][k] \in Arrived
    BY <1>2, <2>1 DEF Arrived, Range
  <2> QED BY <1>2, <2>1, <2>2
<1> QED BY <1>1, <1>3, <1>4, <1>5

LEMMA ContinuesIs ==
  ASSUME NEW p \in Pastes, NEW write, NEW from \in Nat, NEW upto \in Nat,
         Continues(write, p, from, upto)
  PROVE  /\ from <= upto
         /\ \A k \in DOMAIN write :
              \/ write[k] = <<p, from + k>> /\ from + k \in from + 1 .. upto
              \/ write[k][1] = "mark"
         /\ \A i \in from + 1 .. upto : <<p, i>> \in Range(write)
         /\ write \in {OpenMark, CloseMark} => \A q \in Pastes : ~Holds(write, q)
         /\ \A q \in Pastes : q # p => ~Holds(write, q)
<1>1. write \in Seq(Units) /\ DOMAIN write = 1 .. Len(write)
  BY DEF Continues
<1>2. write \in {OpenMark, CloseMark} => \A k \in DOMAIN write : write[k][1] = "mark"
  <2>1. SUFFICES ASSUME write \in {OpenMark, CloseMark}, NEW k \in DOMAIN write
                 PROVE  write[k][1] = "mark"
    OBVIOUS
  <2>2. Len(write) = 1 /\ write[1][1] = "mark"
    BY <2>1, MarksAre
  <2>3. k = 1
    BY <1>1, <2>1, <2>2
  <2> QED BY <2>2, <2>3
<1>3. write \in {OpenMark, CloseMark} => \A q \in Pastes : ~Holds(write, q)
  BY <1>2, OriginAssumption DEF Holds, OriginAssumption
<1>4. CASE from = upto /\ write \in {OpenMark, CloseMark}
  BY <1>2, <1>3, <1>4
<1>5. CASE /\ from < upto /\ Len(write) = upto - from
           /\ \A l \in 1 .. Len(write) : write[l] = <<p, from + l>>
  <2>1. \A k \in DOMAIN write : write[k] = <<p, from + k>> /\ from + k \in from + 1 .. upto
    BY <1>1, <1>5
  <2>2. ASSUME NEW i \in from + 1 .. upto PROVE <<p, i>> \in Range(write)
    <3>1. i - from \in DOMAIN write /\ from + (i - from) = i
      BY <1>1, <1>5
    <3>2. write[i - from] = <<p, i>>
      BY <2>1, <3>1
    <3> QED BY <3>1, <3>2 DEF Range
  <2>3. \A q \in Pastes : q # p => ~Holds(write, q)
    BY <2>1 DEF Holds
  <2> QED BY <1>3, <1>5, <2>1, <2>2, <2>3
<1> QED BY <1>4, <1>5 DEF Continues

\* Between one such place and the next there is none.
LEMMA NextMultipleIs ==
  ASSUME NEW a \in Nat, NEW b \in Nat, a % Chunk = 0, a <= b, b <= a + Chunk
  PROVE  b % Chunk = 0 <=> b = a \/ b = a + Chunk
<1>1. Chunk \in Nat \ {0}
  BY ChunkAssumption DEF ChunkAssumption
<1>2. PICK x \in Nat : a = x * Chunk
  BY <1>1, MultiplesAre
<1>3. a + Chunk = (x + 1) * Chunk /\ x * Chunk \in Nat
  BY <1>1, <1>2
<1>4. (a + Chunk) % Chunk = 0
  <2>1. PICK y \in Nat : y = x + 1
    OBVIOUS
  <2> QED BY <1>3, <2>1, MultipleIs
<1>5. ASSUME b % Chunk = 0, b # a, b # a + Chunk PROVE FALSE
  <2>2. PICK y \in Nat : b = y * Chunk
    BY <1>1, <1>5, MultiplesAre
  <2>3. CASE y <= x
    <3>1. y * Chunk <= x * Chunk
      BY <1>1, <2>3
    <3> QED BY <1>2, <1>5, <2>2, <3>1
  <2>4. CASE y >= x + 1
    <3>1. (x + 1) * Chunk <= y * Chunk
      BY <1>1, <2>4
    <3> QED BY <1>1, <1>3, <1>5, <2>2, <3>1
  <2> QED BY <2>3, <2>4
<1> QED BY <1>4, <1>5

LEMMA PairsAre ==
  \A pair : pair \in Pairs <=>
    \E q \in Pastes : \E h \in Wide[q] : pair = {<<q, h>>, <<q, h + 1>>}
BY DEF Pairs

\* What does not come from a paste is not torn.
LEMMA WholeIs ==
  ASSUME NEW unit, NEW write, NEW origin \in {"key", "mark", "lost"}, NEW place,
         unit = <<origin, place>>
  PROVE  ~Torn(unit, write)
BY PairsAre, OriginAssumption DEF Torn, OriginAssumption

\* What of a write is torn: the pairs that planPaste cuts in two, and no others.
LEMMA TornIs ==
  ASSUME NEW p \in Pastes, NEW from \in Nat, NEW upto \in Nat, NEW write,
         from < upto, upto - from <= Chunk, from % Chunk = 0,
         upto - from = Chunk \/ upto \notin Wide[p],
         Range(write) = {<<p, j>> : j \in from + 1 .. upto},
         NEW i \in from + 1 .. upto
  PROVE  Torn(<<p, i>>, write) <=> i \in Astride(p)
<1>1. Chunk \in Nat \ {0} /\ Wide[p] \subseteq Nat /\ i \in Nat
  BY ChunkAssumption, WideAssumption DEF ChunkAssumption, WideAssumption
<1>2. \A j \in Nat : <<p, j>> \in Range(write) <=> from < j /\ j <= upto
  OBVIOUS
<1>3. ASSUME Torn(<<p, i>>, write) PROVE i \in Astride(p)
  <2>1. PICK h \in Wide[p] : i \in {h, h + 1} /\ ~({<<p, h>>, <<p, h + 1>>} \subseteq Range(write))
    BY <1>3, PairsAre DEF Torn
  <2>2. h \in Nat /\ h + 1 \in Nat
    BY <1>1
  <2>3. <<p, h>> \notin Range(write) \/ <<p, h + 1>> \notin Range(write)
    BY <2>1
  <2>4. h = upto \/ h = from
    BY <1>1, <1>2, <2>1, <2>2, <2>3
  <2>5. h % Chunk = 0
    <3>1. CASE h = upto
      <4>1. upto = from + Chunk
        BY <1>1, <3>1
      <4>2. from <= upto /\ upto <= from + Chunk
        BY <1>1, <4>1
      <4> QED BY <3>1, <4>1, <4>2, NextMultipleIs
    <3>2. CASE h = from
      BY <3>2
    <3> QED BY <2>4, <3>1, <3>2
  <2> QED BY <2>1, <2>5 DEF Astride
<1>4. ASSUME i \in Astride(p) PROVE Torn(<<p, i>>, write)
  <2>1. PICK h \in Wide[p] : h % Chunk = 0 /\ i \in {h, h + 1}
    BY <1>4 DEF Astride
  <2>2. h \in Nat /\ h + 1 \in Nat
    BY <1>1
  <2>3. from <= h /\ h <= from + Chunk
    BY <1>1, <2>1, <2>2
  <2>4. h = from \/ h = from + Chunk
    BY <2>1, <2>2, <2>3, NextMultipleIs
  <2>5. <<p, h>> \notin Range(write) \/ <<p, h + 1>> \notin Range(write)
    BY <1>1, <1>2, <2>2, <2>4
  <2> DEFINE pair == {<<p, h>>, <<p, h + 1>>}
  <2>6. pair \in Pairs
    BY PairsAre
  <2>7. <<p, i>> \in pair /\ ~(pair \subseteq Range(write))
    BY <2>1, <2>5
  <2> QED BY <2>6, <2>7 DEF Torn
<1> QED BY <1>3, <1>4

\* What arrives of a write.
LEMMA EncodedIs ==
  ASSUME NEW p \in Pastes, NEW write, NEW from \in Nat, NEW upto \in Nat,
         Continues(write, p, from, upto)
  PROVE  /\ from <= upto
         /\ Encoded(write) \in Seq(Units) /\ Len(Encoded(write)) <= Chunk
         /\ \A k \in DOMAIN Encoded(write) :
              \/ /\ Encoded(write)[k] = <<p, from + k>>
                 /\ from + k \in (from + 1 .. upto) \ Astride(p)
              \/ Encoded(write)[k][1] \in {"mark", "lost"}
         /\ \A i \in (from + 1 .. upto) \ Astride(p) : <<p, i>> \in Range(Encoded(write))
         /\ write \in {OpenMark, CloseMark} => Encoded(write) = write
         /\ write \in {OpenMark, CloseMark} => \A q \in Pastes : ~Holds(Encoded(write), q)
         /\ \A q \in Pastes : q # p => ~Holds(Encoded(write), q)
<1>1. /\ write \in Seq(Units) /\ Len(write) \in Nat /\ DOMAIN write = 1 .. Len(write)
      /\ Len(write) <= Chunk
  BY DEF Continues
<1>2. DOMAIN Encoded(write) = 1 .. Len(write)
  BY <1>1 DEF Encoded
<1>3. \A k \in 1 .. Len(write) :
        Encoded(write)[k] = IF Torn(write[k], write) THEN Replacement ELSE write[k]
  BY <1>1 DEF Encoded
<1>4. Replacement \in Units /\ Replacement[1] = "lost"
  BY DEF Replacement, Units
<1>5. Encoded(write) \in Seq(Units) /\ Len(Encoded(write)) = Len(write)
  <2>1. \A k \in 1 .. Len(write) : Encoded(write)[k] \in Units
    BY <1>1, <1>3, <1>4
  <2>2. Encoded(write) \in [1 .. Len(write) -> Units]
    BY <1>1, <2>1 DEF Encoded
  <2> QED BY <1>1, <2>2, IsASeq, LenProperties
<1>6. CASE from = upto /\ write \in {OpenMark, CloseMark}
  <2>1. \A k \in 1 .. Len(write) :
          write[k] \in {<<"mark", 200>>, <<"mark", 201>>} /\ Encoded(write)[k] = write[k]
    <3>1. Len(write) = 1 /\ write[1] \in {<<"mark", 200>>, <<"mark", 201>>}
      BY <1>6 DEF OpenMark, CloseMark
    <3> QED BY <1>3, <3>1, WholeIs
  <2>2. Encoded(write) = write
    <3> DEFINE F == [k \in 1 .. Len(write) |-> write[k]]
    <3>1. write = F
      BY <1>1
    <3>2. Encoded(write) = F
      BY <1>1, <1>3, <2>1 DEF Encoded
    <3> QED BY <3>1, <3>2
  <2> QED BY <1>1, <1>2, <1>5, <1>6, <2>1, <2>2, ContinuesIs DEF Continues
<1>7. CASE /\ from < upto /\ Len(write) = upto - from
           /\ \A l \in 1 .. Len(write) : write[l] = <<p, from + l>>
           /\ from % Chunk = 0
           /\ Len(write) = Chunk \/ upto \notin Wide[p]
  <2>1. Range(write) = {<<p, j>> : j \in from + 1 .. upto}
    <3>1. \A i \in from + 1 .. upto : <<p, i>> \in Range(write)
      BY ContinuesIs
    <3>2. ASSUME NEW c \in Range(write) PROVE c \in {<<p, j>> : j \in from + 1 .. upto}
      <4>1. PICK k \in 1 .. Len(write) : c = write[k]
        BY <1>1, <3>2 DEF Range
      <4>2. c = <<p, from + k>>
        BY <1>7, <4>1
      <4>3. from + k \in from + 1 .. upto
        BY <1>1, <1>7
      <4> QED BY <4>2, <4>3
    <3> QED BY <3>1, <3>2
  <2>2. \A i \in from + 1 .. upto : Torn(<<p, i>>, write) <=> i \in Astride(p)
    <3>1. upto - from <= Chunk /\ (upto - from = Chunk \/ upto \notin Wide[p])
      BY <1>1, <1>7
    <3> QED BY <1>7, <2>1, <3>1, TornIs
  <2>3. \A k \in 1 .. Len(write) :
          /\ from + k \in from + 1 .. upto
          /\ Encoded(write)[k] = IF from + k \in Astride(p) THEN Replacement ELSE <<p, from + k>>
    <3>1. TAKE k \in 1 .. Len(write)
    <3>2. from + k \in from + 1 .. upto /\ write[k] = <<p, from + k>>
      BY <1>1, <1>7
    <3>3. Torn(write[k], write) <=> from + k \in Astride(p)
      BY <2>2, <3>2
    <3> QED BY <1>3, <3>2, <3>3, Zenon
  <2>4. \A k \in DOMAIN Encoded(write) :
          \/ /\ Encoded(write)[k] = <<p, from + k>>
             /\ from + k \in (from + 1 .. upto) \ Astride(p)
          \/ Encoded(write)[k][1] = "lost"
    BY <1>2, <1>4, <2>3
  <2>5. ASSUME NEW i \in (from + 1 .. upto) \ Astride(p) PROVE <<p, i>> \in Range(Encoded(write))
    <3>1. i - from \in 1 .. Len(write) /\ from + (i - from) = i
      BY <1>7
    <3>2. Encoded(write)[i - from] = <<p, i>>
      BY <2>3, <3>1
    <3> QED BY <1>2, <3>1, <3>2 DEF Range
  <2>6. write \notin {OpenMark, CloseMark}
    <3>1. 1 \in 1 .. Len(write) /\ write[1][1] = p
      BY <1>7
    <3>2. p # "mark"
      BY OriginAssumption DEF OriginAssumption
    <3> QED BY <3>1, <3>2, MarksAre
  <2>7. \A q \in Pastes : q # p => ~Holds(Encoded(write), q)
    BY <2>4, OriginAssumption DEF Holds, OriginAssumption
  <2> QED BY <1>1, <1>5, <1>7, <2>4, <2>5, <2>6, <2>7
<1> QED BY <1>6, <1>7 DEF Continues

LEMMA PasteFacts ==
  ASSUME InputTypeOK, PasteInv, NEW p \in Pastes
  PROVE  /\ size[p] \in Nat \ Wide[p] /\ size[p] \in 0 .. Limit /\ bracketed[p] \in BOOLEAN
         /\ written[p] \in Nat
         /\ Sent(p) \in 0 .. size[p]
         /\ Len(Plan(p)) = Writes(size[p], bracketed[p])
         /\ Writes(size[p], bracketed[p]) \in Nat
         /\ size[p] > 0 => Writes(size[p], bracketed[p]) > 0
<1>1. /\ size[p] \in Nat \ Wide[p] /\ size[p] \in 0 .. Limit
      /\ bracketed[p] \in BOOLEAN /\ written[p] \in Nat
  BY ChunkAssumption DEF InputTypeOK, PasteInv, ChunkAssumption
<1> QED BY <1>1, HeldIs, PlanIs DEF Sent, Plan

\* The next write of a paste carries on where the one before it ended.
LEMMA SealedIs ==
  ASSUME InputTypeOK, PasteInv, NEW p \in Pastes, PasteSealed(p)
  PROVE  PasteInv' /\ received' \in Seq(Seq(Units))
<1> DEFINE n == size[p]
           marked == bracketed[p]
           w == written[p] + 1
           plain == Plan(p)[w]
           write == Encoded(plain)
           from == Sent(p)
           upto == HeldBy(n, marked, w)
<1>1. /\ n \in Nat \ Wide[p] /\ marked \in BOOLEAN /\ written[p] \in Nat /\ w \in Nat
      /\ from \in Nat /\ Writes(n, marked) \in Nat /\ Len(Plan(p)) = Writes(n, marked)
  BY PasteFacts
<1>2. /\ stage[p] = "sealing" /\ written' = [written EXCEPT ![p] = w]
      /\ stage' = [stage EXCEPT ![p] = IF w = Writes(n, marked) THEN "done" ELSE "pausing"]
      /\ size' = size /\ bracketed' = bracketed /\ connected' = connected
      /\ cliOnline' = cliOnline /\ through' = through /\ faults' = faults
      /\ received' = IF connected /\ through THEN Append(received, write) ELSE received
  BY <1>1 DEF PasteSealed, Stage, Send, lineVars, InputTypeOK
<1>3. w \in 1 .. Writes(n, marked)
  <2>1. written[p] < Writes(n, marked)
    BY <1>2 DEF PasteInv, StageInv
  <2> QED BY <1>1, <2>1
<1>4. /\ upto \in Nat /\ upto \in 0 .. n /\ from = HeldBy(n, marked, w - 1)
      /\ w - 1 = written[p]
  <2>1. w - 1 = written[p]
    BY <1>1
  <2>2. from = HeldBy(n, marked, w - 1)
    BY <2>1 DEF Sent
  <2>3. upto \in 0 .. n
    BY <1>1, HeldIs, Zenon
  <2> QED BY <1>1, <2>1, <2>2, <2>3
<1>16. /\ Continues(plain, p, from, upto)
       /\ marked /\ w = 1 => plain = OpenMark
       /\ marked /\ w = Writes(n, marked) => w > 1 /\ plain = CloseMark
  BY <1>1, <1>3, <1>4, WriteContinues DEF Plan
<1>17. /\ from <= upto
       /\ write \in Seq(Units) /\ Len(write) <= Chunk
       /\ \A k \in DOMAIN write :
            \/ write[k] = <<p, from + k>> /\ from + k \in (from + 1 .. upto) \ Astride(p)
            \/ write[k][1] \in {"mark", "lost"}
       /\ \A i \in (from + 1 .. upto) \ Astride(p) : <<p, i>> \in Range(write)
       /\ plain \in {OpenMark, CloseMark} => write = plain
       /\ plain \in {OpenMark, CloseMark} => \A q \in Pastes : ~Holds(write, q)
       /\ \A q \in Pastes : q # p => ~Holds(write, q)
  <2>1. from \in Nat /\ upto \in Nat
    BY <1>1, <1>4
  <2> QED BY <1>16, <2>1, EncodedIs, Zenon
<1>5. /\ marked /\ w = 1 => write = OpenMark /\ \A q \in Pastes : ~Holds(write, q)
      /\ marked /\ w = Writes(n, marked) =>
           w > 1 /\ write = CloseMark /\ \A q \in Pastes : ~Holds(write, q)
  BY <1>16, <1>17
<1>6. received \in Seq(Seq(Units))
  BY DEF InputTypeOK
<1>7. write \in Seq(Units) /\ Len(write) <= Chunk
  BY <1>17
<1>8. /\ stage'[p] = (IF w = Writes(n, marked) THEN "done" ELSE "pausing")
      /\ written'[p] = w /\ size'[p] = n /\ bracketed'[p] = marked
  BY <1>2 DEF InputTypeOK
<1>9. StageInv(p)' /\ Sent(p)' = upto
  <2>1. w = Writes(n, marked) \/ w < Writes(n, marked)
    BY <1>1, <1>3
  <2> QED BY <1>8, <2>1 DEF StageInv, Sent
<1>10. /\ faults' = 0 => connected' /\ cliOnline' /\ through'
       /\ \A q \in Pastes : size'[q] \notin Wide[q]
  BY <1>2 DEF PasteInv
<1> HIDE DEF n, marked, w, plain, write, from, upto
<1>11. /\ from <= upto
       /\ \A k \in DOMAIN write :
            \/ write[k] = <<p, from + k>> /\ from + k \in (from + 1 .. upto) \ Astride(p)
            \/ write[k][1] \in {"mark", "lost"}
       /\ \A i \in (from + 1 .. upto) \ Astride(p) : <<p, i>> \in Range(write)
       /\ \A q \in Pastes : q # p => ~Holds(write, q)
  BY <1>17
<1>12. received' = received \/ Grows(write)
  BY <1>2, <1>7 DEF Grows
<1>13. ASSUME NEW q \in Pastes, q # p
       PROVE  StageInv(q)' /\ SentInv(q)' /\ MarkInv(q)'
  <2>1. /\ stage'[q] = stage[q] /\ written'[q] = written[q]
        /\ size'[q] = size[q] /\ bracketed'[q] = bracketed[q]
    BY <1>2, <1>13 DEF InputTypeOK
  <2>2. received' = received \/ \E some : Grows(some) /\ ~Holds(some, q)
    BY <1>11, <1>12, <1>13
  <2>3. StageInv(q) /\ SentInv(q) /\ MarkInv(q)
    BY DEF PasteInv
  <2> QED BY <1>2, <1>6, <2>1, <2>2, <2>3, OthersStay
<1>14. CASE connected /\ through
  <2>1. Grows(write)
    BY <1>2, <1>7, <1>14 DEF Grows
  <2>2. /\ Len(received) \in Nat /\ DOMAIN received = 1 .. Len(received)
        /\ DOMAIN received' = 1 .. Len(received) + 1
        /\ \A i \in DOMAIN received : received'[i] = received[i] /\ i \in DOMAIN received'
        /\ received'[Len(received) + 1] = write
        /\ Arrived' = Arrived \cup Range(write)
    BY <1>6, <2>1, GrowsBy
  <2>0. received' \in Seq(Seq(Units))
    BY <1>6, <2>1, GrowsBy
  <2>3. \A i \in DOMAIN received' : Len(received'[i]) <= Chunk
    <3>1. \A i \in DOMAIN received' : i \in DOMAIN received \/ i = Len(received) + 1
      BY <2>2
    <3> QED BY <1>7, <2>2, <3>1 DEF PasteInv
  <2>4. \A c \in Arrived : c[1] = p => c[2] \in (1 .. from) \ Astride(p)
    BY DEF PasteInv, SentInv, from
  <2>5. PasteInOrder'
    <3>1. \A k, l \in DOMAIN write :
            write[k][1] \in Pastes /\ write[k][1] = write[l][1] /\ k < l
              => write[k][2] < write[l][2]
      <4>1. DOMAIN write = 1 .. Len(write) /\ Len(write) \in Nat
        BY <1>7
      <4> QED BY <1>1, <1>11, <4>1, OriginAssumption DEF OriginAssumption
    <3>2. \A c \in Arrived, l \in DOMAIN write :
            c[1] \in Pastes /\ c[1] = write[l][1] => c[2] < write[l][2]
      <4>1. DOMAIN write = 1 .. Len(write) /\ Len(write) \in Nat
        BY <1>7
      <4> QED BY <1>1, <1>11, <2>4, <4>1, OriginAssumption DEF OriginAssumption
    <3>3. PasteInOrder
      BY DEF PasteInv
    <3> QED BY <1>6, <2>1, <3>1, <3>2, <3>3, OrderStays
  <2>6. SentInv(p)'
    <3>1. \A c \in Arrived' : c[1] = p => c[2] \in (1 .. upto) \ Astride(p)
      <4>1. ASSUME NEW c \in Arrived, c[1] = p PROVE c[2] \in (1 .. upto) \ Astride(p)
        BY <1>1, <1>4, <1>11, <2>4, <4>1
      <4>2. ASSUME NEW c \in Range(write), c[1] = p PROVE c[2] \in (1 .. upto) \ Astride(p)
        <5>1. PICK k \in DOMAIN write : c = write[k]
          BY <4>2 DEF Range
        <5>2. c = <<p, from + k>> /\ from + k \in (from + 1 .. upto) \ Astride(p)
          BY <1>11, <4>2, <5>1, OriginAssumption DEF OriginAssumption
        <5> QED BY <1>1, <1>4, <5>2
      <4> QED BY <2>2, <4>1, <4>2
    <3>2. faults = 0 => \A i \in (1 .. upto) \ Astride(p) : <<p, i>> \in Arrived'
      <4>1. SUFFICES ASSUME faults = 0, NEW i \in (1 .. upto) \ Astride(p) PROVE <<p, i>> \in Arrived'
        OBVIOUS
      <4>2. i \in (1 .. from) \ Astride(p) \/ i \in (from + 1 .. upto) \ Astride(p)
        BY <1>1, <1>4
      <4>3. i \in (1 .. from) \ Astride(p) => <<p, i>> \in Arrived
        BY <4>1 DEF PasteInv, SentInv, from
      <4> QED BY <1>11, <2>2, <4>2, <4>3
    <3> QED BY <1>2, <1>9, <3>1, <3>2 DEF SentInv
  <2>7. MarkInv(p)'
    <3>1. SUFFICES ASSUME faults = 0, marked, n > 0
                   PROVE  /\ \E i \in DOMAIN received' :
                               /\ received'[i] = OpenMark
                               /\ \A m \in DOMAIN received' : Holds(received'[m], p) => i < m
                          /\ w = Writes(n, marked) =>
                               \E i, j \in DOMAIN received' :
                                 /\ received'[i] = OpenMark /\ received'[j] = CloseMark
                                 /\ \A m \in DOMAIN received' :
                                      Holds(received'[m], p) => i < m /\ m < j
      <4>1. /\ faults' = faults /\ size'[p] = n /\ bracketed'[p] = marked
            /\ stage'[p] = "done" => w = Writes(n, marked)
        BY <1>2, <1>8
      <4> QED BY <3>1, <4>1 DEF MarkInv, WrappedAsAWhole, OpenMark, CloseMark, Holds
    <3>2. \A m \in DOMAIN received' :
            \/ m \in DOMAIN received /\ received'[m] = received[m]
            \/ m = Len(received) + 1 /\ received'[m] = write
      BY <2>2
    <3>3. CASE w = 1
      <4>1. write = OpenMark /\ ~Holds(write, p)
        BY <1>5, <3>1, <3>3
      <4>2. from = 0
        BY <1>1, <1>4, <3>3, HeldIs
      <4>3. ASSUME NEW m \in DOMAIN received, Holds(received[m], p) PROVE FALSE
        <5>1. PICK k \in DOMAIN received[m] : received[m][k][1] = p
          BY <4>3 DEF Holds
        <5>2. received[m][k] \in Arrived
          BY <4>3, <5>1 DEF Arrived, Range
        <5> QED BY <2>4, <4>2, <5>1, <5>2
      <4>4. \A m \in DOMAIN received' : ~Holds(received'[m], p)
        BY <3>2, <4>1, <4>3
      <4>5. w # Writes(n, marked)
        <5>1. w = Writes(n, marked) => w > 1
          BY <1>5, <3>1, Zenon
        <5> QED BY <3>3, <5>1
      <4> QED BY <2>2, <4>1, <4>4, <4>5
    <3>4. CASE w # 1
      <4>1. written[p] > 0
        BY <1>1, <1>4, <3>4 DEF w
      <4>2. PICK i \in DOMAIN received :
              /\ received[i] = OpenMark
              /\ \A m \in DOMAIN received : Holds(received[m], p) => i < m
        BY <3>1, <4>1 DEF PasteInv, MarkInv, n, marked
      <4>3. i \in DOMAIN received' /\ received'[i] = OpenMark /\ i < Len(received) + 1
        BY <2>2, <4>2
      <4>4. \A m \in DOMAIN received' : Holds(received'[m], p) => i < m
        BY <3>2, <4>2, <4>3
      <4>5. ASSUME w = Writes(n, marked)
            PROVE  \E j \in DOMAIN received' :
                     /\ received'[j] = CloseMark
                     /\ \A m \in DOMAIN received' : Holds(received'[m], p) => i < m /\ m < j
        <5>1. write = CloseMark /\ ~Holds(write, p)
          BY <1>5, <3>1, <4>5
        <5>2. \A m \in DOMAIN received' : Holds(received'[m], p) => m < Len(received) + 1
          BY <2>2, <3>2, <5>1
        <5> QED BY <2>2, <4>4, <5>1, <5>2
      <4> QED BY <4>3, <4>4, <4>5
    <3> QED BY <3>3, <3>4
  <2> QED BY <1>9, <1>10, <1>13, <2>0, <2>3, <2>5, <2>6, <2>7 DEF PasteInv
<1>15. CASE ~(connected /\ through)
  <2>1. received' = received /\ faults' # 0
    BY <1>2, <1>15 DEF PasteInv
  <2>2. Arrived' = Arrived
    BY <2>1 DEF Arrived
  <2>3. SentInv(p)'
    <3>1. \A c \in Arrived : c[1] = p => c[2] \in (1 .. upto) \ Astride(p)
      <4>1. \A c \in Arrived : c[1] = p => c[2] \in (1 .. from) \ Astride(p)
        BY DEF PasteInv, SentInv, from
      <4> QED BY <1>1, <1>4, <1>11, <4>1
    <3> QED BY <1>9, <2>1, <2>2, <3>1 DEF SentInv
  <2>4. MarkInv(p)'
    BY <2>1 DEF MarkInv
  <2>5. PasteInOrder' /\ \A i \in DOMAIN received' : Len(received'[i]) <= Chunk
    BY <2>1 DEF PasteInv, PasteInOrder
  <2> QED BY <1>6, <1>9, <1>10, <1>13, <2>1, <2>3, <2>4, <2>5 DEF PasteInv
<1> QED BY <1>14, <1>15

\* A step of one paste that sends nothing.
LEMMA UnsentStep ==
  ASSUME InputTypeOK, PasteInv, NEW p \in Pastes,
         TapPaste(p) \/ ClipboardAnswers(p) \/ PasteWrites(p) \/ PauseEnds(p)
  PROVE  PasteInv'
<1>1. /\ received' = received /\ UNCHANGED lineVars /\ written' = written
      /\ \A q \in Pastes : q # p => stage'[q] = stage[q] /\ size'[q] = size[q]
                                  /\ bracketed'[q] = bracketed[q]
  <2>1. CASE TapPaste(p)
    BY <2>1 DEF TapPaste, Stage, InputTypeOK
  <2>2. CASE ClipboardAnswers(p)
    BY <2>2 DEF ClipboardAnswers, Stage, InputTypeOK
  <2>3. CASE PasteWrites(p)
    BY <2>3 DEF PasteWrites, Stage, InputTypeOK
  <2>4. CASE PauseEnds(p)
    BY <2>4 DEF PauseEnds, Stage, InputTypeOK
  <2> QED BY <2>1, <2>2, <2>3, <2>4
<1>2. /\ connected' = connected /\ cliOnline' = cliOnline /\ through' = through
      /\ faults' = faults
  BY <1>1 DEF lineVars
<1>3. /\ PasteInOrder' /\ Arrived' = Arrived
      /\ \A i \in DOMAIN received' : Len(received'[i]) <= Chunk
  BY <1>1 DEF PasteInv, PasteInOrder, Arrived
<1>4. ASSUME NEW q \in Pastes, q # p PROVE StageInv(q)' /\ SentInv(q)' /\ MarkInv(q)'
  BY <1>1, <1>2, <1>4, OthersStay DEF PasteInv, InputTypeOK
<1>5. StageInv(p) /\ SentInv(p) /\ MarkInv(p)
  BY DEF PasteInv
<1>6. /\ size[p] \in Nat /\ bracketed[p] \in BOOLEAN /\ written[p] \in Nat
      /\ size[p] > 0 => Writes(size[p], bracketed[p]) > 0
  BY PasteFacts
<1>8. \A q \in Pastes : size'[q] \notin Wide[q]
  <2>1. size'[p] = size[p] \/ size'[p] \notin Wide[p]
    BY DEF TapPaste, ClipboardAnswers, PasteWrites, PauseEnds, InputTypeOK
  <2> QED BY <1>1, <2>1 DEF PasteInv
<1>7. StageInv(p)' /\ SentInv(p)' /\ MarkInv(p)'
  <2>1. CASE ClipboardAnswers(p)
    <3>1. stage[p] = "reading" /\ written[p] = 0 /\ written'[p] = 0
      BY <1>1, <1>5, <2>1 DEF ClipboardAnswers, StageInv
    <3>2. size'[p] \in Nat \ Wide[p] /\ bracketed'[p] \in BOOLEAN
      BY <1>8, <2>1, ChunkAssumption DEF ClipboardAnswers, InputTypeOK, ChunkAssumption
    <3>3. Sent(p) = 0 /\ Sent(p)' = 0
      BY <1>6, <3>1, <3>2, HeldIs DEF Sent
    <3>4. SentInv(p)'
      BY <1>1, <1>2, <1>3, <1>5, <3>3 DEF SentInv
    <3>5. \/ stage'[p] = (IF size'[p] = 0 THEN "done" ELSE "sending")
          \/ stage'[p] = "refused"
      BY <2>1 DEF ClipboardAnswers, Stage, InputTypeOK
    <3>6. /\ size'[p] > 0 => Writes(size'[p], bracketed'[p]) > 0
          /\ size'[p] = 0 => Writes(size'[p], bracketed'[p]) = 0
      BY <3>2, PlanIs DEF Writes
    <3>7. StageInv(p)'
      BY <3>1, <3>2, <3>5, <3>6 DEF StageInv
    <3>8. MarkInv(p)'
      <4>1. stage'[p] = "done" => ~(size'[p] > 0)
        BY <3>2, <3>5
      <4> QED BY <3>1, <4>1 DEF MarkInv
    <3> QED BY <3>4, <3>7, <3>8
  <2>2. CASE TapPaste(p) \/ PasteWrites(p) \/ PauseEnds(p)
    <3>1. /\ size' = size /\ bracketed' = bracketed
          /\ \/ stage[p] = "idle" /\ stage'[p] = "reading"
             \/ stage[p] = "sending" /\ stage'[p] \in {"interrupted", "sealing"}
             \/ stage[p] = "pausing" /\ stage'[p] = "sending"
      BY <2>2 DEF TapPaste, PasteWrites, PauseEnds, Stage, InputTypeOK, pasteVars
    <3>2. StageInv(p)' /\ Sent(p)' = Sent(p)
      BY <1>1, <1>5, <3>1 DEF StageInv, Sent
    <3>3. SentInv(p)'
      BY <1>2, <1>3, <1>5, <3>2 DEF SentInv
    <3>4. MarkInv(p)'
      BY <1>1, <1>2, <1>5, <3>1 DEF MarkInv
    <3> QED BY <3>2, <3>3, <3>4
  <2> QED BY <2>1, <2>2
<1> QED BY <1>2, <1>3, <1>4, <1>7, <1>8 DEF PasteInv

LEMMA KeyIs ==
  ASSUME InputTypeOK, PasteInv, NEW k \in sealing, KeySealed(k)
  PROVE  PasteInv' /\ received' \in Seq(Seq(Units))
<1> DEFINE write == << <<"key", k>> >>
<1>1. /\ stage' = stage /\ written' = written /\ size' = size /\ bracketed' = bracketed
      /\ connected' = connected /\ cliOnline' = cliOnline /\ through' = through
      /\ faults' = faults /\ keys \in Nat
      /\ received' = IF connected /\ through THEN Append(received, Encoded(write)) ELSE received
  BY DEF KeySealed, Send, pasteVars, lineVars, InputTypeOK
<1>10. Encoded(write) = write
  <2>1. ~Torn(<<"key", k>>, write)
    BY WholeIs
  <2>2. DOMAIN write = {1} /\ write[1] = <<"key", k>>
    OBVIOUS
  <2>3. Encoded(write) = [m \in {1} |-> <<"key", k>>] /\ write = [m \in {1} |-> <<"key", k>>]
    BY <2>1, <2>2 DEF Encoded
  <2> QED BY <2>3
<1>2. write \in Seq(Units) /\ Len(write) = 1 /\ write[1][1] = "key"
  <2>1. k \in Nat
    BY <1>1 DEF InputTypeOK
  <2>2. <<"key", k>> \in Units
    BY <2>1 DEF Units
  <2> QED BY <2>2
<1> HIDE DEF write
<1>3. received' = received \/ Grows(write)
  BY <1>1, <1>2, <1>10 DEF Grows
<1>4. \A m \in DOMAIN write : write[m][1] = "key"
  BY <1>2
<1>5. \A q \in Pastes : ~Holds(write, q)
  BY <1>4, OriginAssumption DEF Holds, OriginAssumption
<1>6. received \in Seq(Seq(Units))
  BY DEF InputTypeOK
<1>7. ASSUME NEW q \in Pastes PROVE StageInv(q)' /\ SentInv(q)' /\ MarkInv(q)'
  <2>1. StageInv(q) /\ SentInv(q) /\ MarkInv(q)
    BY DEF PasteInv
  <2>2. received' = received \/ \E some : Grows(some) /\ ~Holds(some, q)
    BY <1>3, <1>5
  <2> QED BY <1>1, <1>6, <2>1, <2>2, OthersStay
<1>8. CASE received' = received
  BY <1>1, <1>6, <1>7, <1>8 DEF PasteInv, PasteInOrder
<1>9. CASE Grows(write)
  <2>1. /\ received' \in Seq(Seq(Units))
        /\ DOMAIN received' = 1 .. Len(received) + 1 /\ DOMAIN received = 1 .. Len(received)
        /\ Len(received) \in Nat
        /\ \A i \in DOMAIN received : received'[i] = received[i]
        /\ received'[Len(received) + 1] = write
    BY <1>6, <1>9, GrowsBy
  <2>2. \A i \in DOMAIN received' : Len(received'[i]) <= Chunk
    <3>1. \A i \in DOMAIN received' : i \in DOMAIN received \/ i = Len(received) + 1
      BY <2>1
    <3>2. Len(write) <= Chunk
      BY <1>2, ChunkAssumption DEF ChunkAssumption
    <3> QED BY <2>1, <3>1, <3>2 DEF PasteInv
  <2>3. PasteInOrder'
    <3>1. \A l \in DOMAIN write : write[l][1] \notin Pastes
      BY <1>4, OriginAssumption DEF OriginAssumption
    <3>2. PasteInOrder
      BY DEF PasteInv
    <3>3. \A m, l \in DOMAIN write :
            write[m][1] \in Pastes /\ write[m][1] = write[l][1] /\ m < l
              => write[m][2] < write[l][2]
      BY <3>1
    <3>4. \A c \in Arrived, l \in DOMAIN write :
            c[1] \in Pastes /\ c[1] = write[l][1] => c[2] < write[l][2]
      BY <3>1
    <3> QED BY <1>6, <1>9, <3>2, <3>3, <3>4, OrderStays
  <2> QED BY <1>1, <1>7, <2>1, <2>2, <2>3 DEF PasteInv
<1> QED BY <1>3, <1>8, <1>9

\* What is neither a paste's nor a write leaves the pastes alone; the line may fail.
LEMMA PastesStay ==
  ASSUME InputTypeOK, PasteInv, UNCHANGED <<pasteVars, received>>,
         faults' = 0 => faults = 0 /\ UNCHANGED <<connected, cliOnline, through>>
  PROVE  PasteInv'
<1>1. /\ stage' = stage /\ written' = written /\ size' = size /\ bracketed' = bracketed
      /\ received' = received
  BY DEF pasteVars
<1>2. /\ PasteInOrder' /\ \A i \in DOMAIN received' : Len(received'[i]) <= Chunk
      /\ \A p \in Pastes : size'[p] \notin Wide[p]
  BY <1>1 DEF PasteInv, PasteInOrder
<1>3. faults' = 0 => connected' /\ cliOnline' /\ through'
  BY DEF PasteInv
<1>4. ASSUME NEW q \in Pastes PROVE StageInv(q)' /\ SentInv(q)' /\ MarkInv(q)'
  BY <1>1, OthersStay DEF PasteInv, InputTypeOK
<1> QED BY <1>2, <1>3, <1>4 DEF PasteInv

LEMMA PasteInvStep ==
  ASSUME InputTypeOK, PasteInv, visit.faults \in Nat, InputNext
  PROVE  PasteInv'
<1>1. ASSUME NEW p \in Pastes, PasteStep(p) PROVE PasteInv'
  BY <1>1, SealedIs, UnsentStep DEF PasteStep
<1>2. ASSUME NEW k \in sealing, KeySealed(k) PROVE PasteInv'
  BY <1>2, KeyIs
<1>3. CASE TypeKey \/ PressCtrl \/ TapRetry \/ CopySelection
           \/ (BannerTimerFires /\ UNCHANGED inputVars)
  <2>1. UNCHANGED <<pasteVars, received, lineVars>>
    BY <1>3 DEF TypeKey, PressCtrl, TapRetry, CopySelection, inputVars
  <2> QED BY <2>1, PastesStay DEF lineVars
<1>4. CASE Fails
  <2>1. faults' # 0 /\ UNCHANGED <<pasteVars, received>>
    BY <1>4 DEF Fails, InputTypeOK
  <2> QED BY <2>1, PastesStay
<1>5. CASE LearnsOfFailure \/ LineReturns
  <2>1. faults # 0 /\ faults' = faults /\ UNCHANGED <<pasteVars, received>>
    BY <1>5 DEF LearnsOfFailure, LineReturns, Refused, PasteInv
  <2> QED BY <2>1, PastesStay
<1> QED BY <1>1, <1>2, <1>3, <1>4, <1>5 DEF InputNext

\* Nothing has arrived at a CLI that a page has not written to.
LEMMA PasteStarts ==
  ASSUME stage = [p \in Pastes |-> "idle"], written = [p \in Pastes |-> 0],
         size = [p \in Pastes |-> 0], bracketed = [p \in Pastes |-> FALSE],
         received = <<>>, connected, cliOnline, through
  PROVE  PasteInv
<1>1. Arrived = {} /\ DOMAIN received = {}
  BY DEF Arrived
<1>2. ASSUME NEW p \in Pastes PROVE StageInv(p) /\ SentInv(p) /\ MarkInv(p)
  <2>1. stage[p] = "idle" /\ written[p] = 0 /\ size[p] = 0 /\ bracketed[p] = FALSE
    BY <1>2
  <2>2. Sent(p) = 0
    BY <2>1, HeldIs DEF Sent
  <2> QED BY <1>1, <2>1, <2>2 DEF StageInv, SentInv, MarkInv
<1>3. PasteInOrder
  BY <1>1 DEF PasteInOrder
<1>4. \A p \in Pastes : size[p] \notin Wide[p]
  BY WideAssumption DEF WideAssumption
<1> QED BY <1>1, <1>2, <1>3, <1>4 DEF PasteInv

LEMMA UndisturbedIs ==
  ASSUME InputTypeOK, PasteInv
  PROVE  UndisturbedPasteArrives
<1>1. SUFFICES ASSUME NEW p \in Pastes, stage[p] = "done", faults = 0
               PROVE  /\ {c \in Arrived : c[1] = p} =
                           {<<p, i>> : i \in (1 .. size[p]) \ Astride(p)}
                      /\ bracketed[p] /\ size[p] > 0 => WrappedAsAWhole(p)
  BY DEF UndisturbedPasteArrives, PasteInv
<1>2. StageInv(p) /\ SentInv(p) /\ MarkInv(p)
  BY DEF PasteInv
<1>3. size[p] \in Nat /\ bracketed[p] \in BOOLEAN /\ written[p] \in Nat
  BY PasteFacts
<1>4. Sent(p) = size[p]
  <2>1. written[p] = Writes(size[p], bracketed[p])
    BY <1>1, <1>2 DEF StageInv
  <2> QED BY <1>3, <2>1, HeldIs DEF Sent
<1>5. \A c \in Arrived : c \in Units
  BY DEF Arrived, InputTypeOK, Range
<1>6. {c \in Arrived : c[1] = p} = {<<p, i>> : i \in (1 .. size[p]) \ Astride(p)}
  <2>1. ASSUME NEW c \in Arrived, c[1] = p
        PROVE  c \in {<<p, i>> : i \in (1 .. size[p]) \ Astride(p)}
    <3>1. c = <<p, c[2]>> /\ c[2] \in (1 .. size[p]) \ Astride(p)
      BY <1>2, <1>4, <1>5, <2>1 DEF SentInv, Units
    <3> QED BY <3>1
  <2>2. ASSUME NEW i \in (1 .. size[p]) \ Astride(p) PROVE <<p, i>> \in Arrived
    BY <1>1, <1>2, <1>4, <2>2 DEF SentInv
  <2> QED BY <2>1, <2>2
<1> QED BY <1>1, <1>2, <1>6 DEF MarkInv

-----------------------------------------------------------------------------
(* Keys, pastes and the line *)

\* What a banner of the line, the paste or the timer leaves of the page.
BannerStep ==
  /\ UNCHANGED <<placeVars, updateReady>>
  /\ \/ UNCHANGED bannerVars
     \/ \E message \in Messages \ {"update"} : ShowBanner(message)
     \/ HideBanner

LEMMA BannerStepIs ==
  ASSUME PageTypeOK, PageInv, BannerStep, waitingWorker' = waitingWorker
  PROVE  PageTypeOK' /\ PageInv' /\ visit' = visit /\ client' = client
<1>1. /\ visit' = visit /\ client' = client /\ codeInput' = codeInput /\ hidden' = hidden
      /\ updateReady' = updateReady
  BY DEF BannerStep, placeVars
<1>2. CASE UNCHANGED bannerVars
  BY <1>1, <1>2 DEF bannerVars, PageTypeOK, PageInv, OfferIsKept
<1>3. CASE \E message \in Messages \ {"update"} : ShowBanner(message)
  <2>1. /\ banner' \in Messages \cup {"none"} /\ banner' # "none" /\ banner' # "update"
        /\ bannerTimer' \in BOOLEAN
    BY <1>3, ShowBannerIs
  <2> QED BY <1>1, <2>1 DEF PageTypeOK, PageInv, OfferIsKept
<1>4. CASE HideBanner
  <2>1. banner' = (IF updateReady THEN "update" ELSE "none") /\ bannerTimer' = FALSE
    BY <1>4 DEF HideBanner
  <2> QED BY <1>1, <2>1, MessagesAre DEF PageTypeOK, PageInv, OfferIsKept
<1> QED BY <1>2, <1>3, <1>4 DEF BannerStep

LEMMA InputBanner == ASSUME InputNext PROVE BannerStep
<1> USE MessagesAre DEF BannerStep
<1>1. ASSUME NEW p \in Pastes, PasteStep(p) PROVE BannerStep
  BY <1>1 DEF PasteStep, TapPaste, ClipboardAnswers, PasteWrites, PasteSealed, PauseEnds,
              pageVars
<1>2. ASSUME NEW k \in sealing, KeySealed(k) PROVE BannerStep
  BY <1>2 DEF KeySealed, pageVars
<1>3. CASE TypeKey \/ PressCtrl \/ Fails
  BY <1>3 DEF TypeKey, PressCtrl, Fails, pageVars
<1>4. CASE LearnsOfFailure \/ LineReturns \/ TapRetry \/ CopySelection
  BY <1>4 DEF LearnsOfFailure, LineReturns, TapRetry, CopySelection
<1>5. CASE BannerTimerFires
  BY <1>5 DEF BannerTimerFires
<1> QED BY <1>1, <1>2, <1>3, <1>4, <1>5 DEF InputNext

\* A paste touches nothing of the keys and the line.
LEMMA PasteTypes ==
  ASSUME InputTypeOK, PasteInv, NEW p \in Pastes, PasteStep(p), visit' = visit
  PROVE  InputTypeOK'
<1> USE DEF Stage, InputTypeOK
<1>1. CASE TapPaste(p)
  BY <1>1 DEF TapPaste, lineVars, keyVars
<1>2. CASE ClipboardAnswers(p)
  BY <1>2 DEF ClipboardAnswers, lineVars, keyVars
<1>3. CASE PasteWrites(p)
  BY <1>3 DEF PasteWrites, lineVars, keyVars
<1>4. CASE PasteSealed(p)
  <2>1. stage' = [stage EXCEPT ![p] = IF written'[p] = Len(Plan(p)) THEN "done" ELSE "pausing"]
    BY <1>4 DEF PasteSealed
  <2>2. /\ written' = [written EXCEPT ![p] = @ + 1]
        /\ UNCHANGED <<lineVars, size, bracketed, keyVars>>
    BY <1>4 DEF PasteSealed
  <2>3. written' \in [Pastes -> Nat]
    BY <2>2
  <2>4. stage' \in [Pastes -> {"idle", "reading", "sending", "sealing", "pausing", "done",
                               "interrupted", "refused"}]
    BY <2>1
  <2>5. received' \in Seq(Seq(Units))
    BY <1>4, SealedIs
  <2> QED BY <2>2, <2>3, <2>4, <2>5 DEF lineVars, keyVars
<1>5. CASE PauseEnds(p)
  BY <1>5 DEF PauseEnds, lineVars, keyVars
<1> QED BY <1>1, <1>2, <1>3, <1>4, <1>5 DEF PasteStep

LEMMA InputTypes ==
  ASSUME PageTypeOK, InputTypeOK, PasteInv, InputNext, visit' = visit
  PROVE  InputTypeOK'
<1>1. keys \in Nat /\ visit.keys \in Nat /\ visit.faults \in Nat /\ faults \in Nat
  BY VisitIs DEF InputTypeOK
<1>2. ASSUME NEW p \in Pastes, PasteStep(p) PROVE InputTypeOK'
  BY <1>2, PasteTypes
<1>3. ASSUME NEW k \in sealing, KeySealed(k) PROVE InputTypeOK'
  BY <1>3, KeyIs DEF KeySealed, lineVars, pasteVars, InputTypeOK
<1>4. CASE TypeKey
  <2>1. /\ keys < visit.keys /\ keys' = keys + 1
        /\ ctrlArmed' \in {FALSE, ctrlArmed}
        /\ sealing' = sealing \/ sealing' = sealing \cup {keys'}
        /\ UNCHANGED <<lineVars, pasteVars, received>>
    BY <1>4 DEF TypeKey
  <2>2. keys' \in 0 .. visit.keys /\ sealing' \subseteq 1 .. keys'
    <3>1. keys + 1 \in 0 .. visit.keys /\ 1 .. keys \subseteq 1 .. keys + 1
          /\ keys + 1 \in 1 .. keys + 1
      BY <1>1, <2>1
    <3> QED BY <2>1, <3>1 DEF InputTypeOK
  <2> QED BY <2>1, <2>2 DEF lineVars, pasteVars, InputTypeOK
<1>5. CASE PressCtrl
  BY <1>5 DEF PressCtrl, lineVars, pasteVars, InputTypeOK
<1>6. CASE Fails
  <2>1. faults' \in 0 .. visit.faults
    BY <1>1, <1>6 DEF Fails
  <2> QED BY <1>6, <2>1 DEF Fails, pasteVars, keyVars, InputTypeOK
<1>7. CASE LearnsOfFailure
  BY <1>7 DEF LearnsOfFailure, pasteVars, keyVars, InputTypeOK
<1>8. CASE LineReturns
  BY <1>8 DEF LineReturns, pasteVars, keyVars, InputTypeOK
<1>9. CASE TapRetry \/ CopySelection \/ (BannerTimerFires /\ UNCHANGED inputVars)
  <2>1. UNCHANGED inputVars
    BY <1>9 DEF TapRetry, CopySelection
  <2> QED BY <2>1, InputStays
<1> QED BY <1>2, <1>3, <1>4, <1>5, <1>6, <1>7, <1>8, <1>9 DEF InputNext

-----------------------------------------------------------------------------
(* The page as a whole *)

LEMMA InitApp == Init => AppInv
<1> SUFFICES ASSUME Init PROVE AppInv
  OBVIOUS
<1>1. PageTypeOK /\ PageInv
  <2>1. PageTypeOK
    <3>1. visit \in Visits /\ visit.clients \in Nat
      BY VisitAssumption DEF Init, PageInit, VisitAssumption
    <3>2. 0 \in 0 .. visit.clients
      BY <3>1
    <3> QED BY <3>1, <3>2 DEF Init, PageInit, PageTypeOK
  <2> QED BY <2>1 DEF Init, PageInit, PageInv, OfferIsKept
<1>2. ScannerTypeOK /\ CameraCanBeStopped
  BY DEF Init, ScannerInit, ScannerTypeOK, CameraCanBeStopped
<1>3. UpdateTypeOK /\ WorkerInv
  <2>1. 0 \in Builds /\ 1 \in Builds /\ 0 .. 1 \subseteq Builds
    BY BuildAssumption DEF Builds, BuildAssumption
  <2>2. UpdateTypeOK
    BY <2>1 DEF Init, UpdateInit, UpdateTypeOK
  <2>3. WorkerInv
    BY DEF Init, UpdateInit, WorkerInv, ReloadsForANewerWorker
  <2> QED BY <2>2, <2>3
<1>4. InputTypeOK
  <2>1. visit.keys \in Nat /\ visit.faults \in Nat
    BY <1>1, VisitIs
  <2>2. 0 \in 0 .. Limit /\ 0 \in 0 .. visit.keys /\ 0 \in 0 .. visit.faults
    BY <2>1, ChunkAssumption DEF ChunkAssumption
  <2>3. <<>> \in Seq(Seq(Units))
    BY EmptySeq
  <2> QED BY <2>2, <2>3 DEF Init, InputInit, InputTypeOK
<1>5. PasteInv
  BY PasteStarts DEF Init, InputInit
<1> QED BY <1>1, <1>2, <1>3, <1>4, <1>5 DEF AppInv, TypeOK

\* A page that starts in the place of this one starts with nothing, under the worker
\* that is active.
LEMMA StartsStep ==
  ASSUME AppInv, StartsAgain
  PROVE  AppInv'
<1>1. /\ PageTypeOK /\ ScannerTypeOK /\ UpdateTypeOK /\ InputTypeOK
      /\ WorkerInv /\ CameraCanBeStopped /\ PageInv
  BY DEF AppInv, TypeOK
<1>2. /\ Starts /\ UNCHANGED <<deployed, installing, posted, visit, hidden>>
      /\ \/ active' = active /\ waiting' = waiting
         \/ waiting # 0 /\ active' = waiting /\ waiting' = 0
  BY DEF StartsAgain, Reloads, Reopens, browserVars
<1>3. PageTypeOK' /\ PageInv'
  <2>1. 0 \in 0 .. visit.clients
    BY <1>1, VisitIs
  <2> QED BY <1>1, <1>2, <2>1 DEF Starts, PageTypeOK, PageInv, OfferIsKept
<1>4. UpdateTypeOK'
  BY <1>1, <1>2, BuildsAre DEF Starts, UpdateTypeOK
<1>5. WorkerInv'
  <2>1. startedUnder' = active' /\ changed' = FALSE /\ reloading' = FALSE
        /\ deployed' = deployed /\ posted' = posted /\ installing' = installing
    BY <1>2 DEF Starts
  <2>2. CASE active' = active /\ waiting' = waiting
    BY <1>1, <2>1, <2>2, BuildsAre DEF WorkerInv, ReloadsForANewerWorker
  <2>3. CASE waiting # 0 /\ active' = waiting /\ waiting' = 0
    BY <1>1, <2>1, <2>3, BuildsAre DEF WorkerInv, ReloadsForANewerWorker
  <2> QED BY <1>2, <2>2, <2>3
<1>6. ScannerTypeOK' /\ CameraCanBeStopped'
  BY DEF StartsAgain, ScannerTypeOK, CameraCanBeStopped
<1>7. InputTypeOK'
  <2>1. /\ 0 \in 0 .. visit.keys /\ 0 \in 0 .. Limit
        /\ visit' = visit /\ faults' = faults
    BY <1>1, <1>2, VisitIs, ChunkAssumption DEF ChunkAssumption, StartsAgain
  <2>2. /\ connected' = TRUE /\ cliOnline' = TRUE /\ through' = TRUE /\ ctrlArmed' = FALSE
        /\ keys' = 0 /\ sealing' = {}
        /\ stage' = [p \in Pastes |-> "idle"] /\ written' = [p \in Pastes |-> 0]
        /\ size' = [p \in Pastes |-> 0] /\ bracketed' = [p \in Pastes |-> FALSE]
        /\ received' = <<>>
    BY DEF StartsAgain
  <2>3. <<>> \in Seq(Seq(Units))
    BY EmptySeq
  <2> QED BY <1>1, <2>1, <2>2, <2>3 DEF InputTypeOK
<1>8. PasteInv'
  <2>1. Arrived' = {} /\ DOMAIN received' = {} /\ connected' /\ cliOnline' /\ through'
    BY DEF StartsAgain, Arrived
  <2>2. ASSUME NEW p \in Pastes PROVE StageInv(p)' /\ SentInv(p)' /\ MarkInv(p)'
    <3>1. stage'[p] = "idle" /\ written'[p] = 0 /\ size'[p] = 0 /\ bracketed'[p] = FALSE
      BY <2>2 DEF StartsAgain
    <3>2. Sent(p)' = 0
      BY <3>1, HeldIs DEF Sent
    <3> QED BY <2>1, <3>1, <3>2 DEF StageInv, SentInv, MarkInv
  <2>3. PasteInOrder'
    BY <2>1 DEF PasteInOrder
  <2>4. \A p \in Pastes : size'[p] \notin Wide[p]
    BY WideAssumption DEF StartsAgain, WideAssumption
  <2> QED BY <2>1, <2>2, <2>3, <2>4 DEF PasteInv
<1> QED BY <1>3, <1>4, <1>5, <1>6, <1>7, <1>8 DEF AppInv, TypeOK

LEMMA AppStep == AppInv /\ [Next]_vars => AppInv'
<1> SUFFICES ASSUME AppInv, [Next]_vars PROVE AppInv'
  OBVIOUS
<1>1. /\ PageTypeOK /\ ScannerTypeOK /\ UpdateTypeOK /\ InputTypeOK
      /\ WorkerInv /\ CameraCanBeStopped /\ PageInv /\ PasteInv
  BY DEF AppInv, TypeOK
<1>0. UNCHANGED inputVars => PasteInv'
  BY <1>1, PastesStay DEF inputVars, lineVars
<1>2. CASE ScannerNext /\ UNCHANGED <<updateVars, inputVars>>
  <2>1. /\ PageTypeOK' /\ ScannerTypeOK' /\ CameraCanBeStopped'
        /\ UNCHANGED <<visit, updateReady, banner>>
    BY <1>1, <1>2, ScannerStep
  <2>2. UpdateTypeOK' /\ WorkerInv' /\ waitingWorker' = waitingWorker
    BY <1>1, <1>2, UpdateStays
  <2>3. InputTypeOK'
    BY <1>1, <1>2, <2>1, InputStays
  <2> QED BY <1>0, <1>1, <1>2, <2>1, <2>2, <2>3 DEF AppInv, TypeOK, PageInv, OfferIsKept
<1>3. CASE UpdateStep /\ UNCHANGED <<scanVars, inputVars>>
  <2>1. PageTypeOK' /\ UpdateTypeOK' /\ PageInv' /\ WorkerInv' /\ visit' = visit
    BY <1>1, <1>3, UpdateStepIs DEF UpdateKeeps
  <2> QED BY <1>0, <1>1, <1>3, <2>1, ScannerStays, InputStays DEF AppInv, TypeOK
<1>4. CASE InputNext /\ UNCHANGED <<scanVars, updateVars>>
  <2>1. UpdateTypeOK' /\ WorkerInv' /\ waitingWorker' = waitingWorker
    BY <1>1, <1>4, UpdateStays
  <2>2. PageTypeOK' /\ PageInv' /\ visit' = visit
    BY <1>1, <1>4, <2>1, InputBanner, BannerStepIs
  <2>3. PasteInv'
    BY <1>1, <1>4, VisitIs, PasteInvStep
  <2> QED BY <1>1, <1>4, <2>1, <2>2, <2>3, InputTypes, ScannerStays DEF AppInv, TypeOK
<1>5. CASE StartsAgain
  BY <1>5, StartsStep
<1>6. CASE UNCHANGED vars
  <2>1. UNCHANGED pageVars /\ UNCHANGED scanVars /\ UNCHANGED updateVars /\ UNCHANGED inputVars
    BY <1>6 DEF vars
  <2>2. UpdateTypeOK' /\ WorkerInv' /\ waitingWorker' = waitingWorker
    BY <1>1, <2>1, UpdateStays
  <2>3. PageInv' /\ PageTypeOK' /\ visit' = visit
    BY <1>1, <2>1, <2>2, PageStays, PageTypeStays DEF PageInv, OfferIsKept
  <2> QED BY <1>0, <1>1, <2>1, <2>2, <2>3, ScannerStays, InputStays DEF AppInv, TypeOK
<1> QED BY <1>2, <1>3, <1>4, <1>5, <1>6 DEF Next

-----------------------------------------------------------------------------
(* Theorems *)

THEOREM AppInvariant == SafeSpec => []AppInv
BY InitApp, AppStep, PTL DEF SafeSpec

\* Whatever the user, the camera, the line and the browser do, the page keeps its shape
\* (app.js:229-419, 478-612, 800-974).
THEOREM TypeSafety == SafeSpec => []TypeOK
<1>1. AppInv => TypeOK
  BY DEF AppInv
<1> QED BY AppInvariant, <1>1, PTL

\* The camera that is on is the one that stopScanning knows of (app.js:229-230, 264-269).
THEOREM CameraCanAlwaysBeStopped == SafeSpec => []CameraCanBeStopped
<1>1. AppInv => CameraCanBeStopped
  BY DEF AppInv
<1> QED BY AppInvariant, <1>1, PTL

\* An update on offer is not lost to what came and went over it (app.js:854-856).
THEOREM OfferIsAlwaysKept == SafeSpec => []OfferIsKept
<1>1. AppInv => OfferIsKept
  BY DEF AppInv, PageInv
<1> QED BY AppInvariant, <1>1, PTL

\* A page reloads by itself only to run under a newer worker (app.js:939, 951-957).
THEOREM AlwaysReloadsForANewerWorker == SafeSpec => []ReloadsForANewerWorker
<1>1. AppInv => ReloadsForANewerWorker
  BY DEF AppInv, WorkerInv
<1> QED BY AppInvariant, <1>1, PTL

\* Whatever else is typed and pasted and whatever the line does, no character of a paste
\* arrives twice or before an earlier one of it (app.js:494-501).
THEOREM PasteAlwaysInOrder == SafeSpec => []PasteInOrder
<1>1. AppInv => PasteInOrder
  BY DEF AppInv, PasteInv
<1> QED BY AppInvariant, <1>1, PTL

\* On a line that has not failed, a paste that is over has arrived, whole, in writes no
\* longer than a tty takes and wrapped once (paste.js:17-31, app.js:494-501).
THEOREM UndisturbedPasteAlwaysArrives == SafeSpec => []UndisturbedPasteArrives
<1>1. AppInv => UndisturbedPasteArrives
  BY UndisturbedIs DEF AppInv, TypeOK
<1> QED BY AppInvariant, <1>1, PTL
-----------------------------------------------------------------------------
(* What the liveness rests on: the scanner *)

\* Only a scan whose camera answers becomes the recorded one.
LEMMA RecordedIs ==
  ASSUME ScannerNext
  PROVE  \/ scanning' \in {scanning, NoScan}
         \/ \E q \in Scans : awaits[q] = "camera" /\ scanning' = q
<1> USE DEF StopScanning
<1>1. ASSUME NEW q \in Scans, ScanStep(q)
      PROVE  scanning' \in {scanning, NoScan} \/ (awaits[q] = "camera" /\ scanning' = q)
  BY <1>1 DEF ScanStep, TapScan, CameraAnswers, ScanFails, Plays, Frame, FindsNothing,
              FindsCode, StartSession, StreamEnds
<1>2. CASE TypesCode \/ Begins \/ Hides \/ Shows
  BY <1>2 DEF TypesCode, Begins, StartSession, Hides, Shows, scanVars
<1> QED BY <1>1, <1>2 DEF ScannerNext

\* What a step of the scanner leaves of a scan that is stopped.
LEMMA StoppedStep ==
  ASSUME ScannerTypeOK, ScannerNext, NEW s \in Scans, Stopped(s)
  PROVE  \/ awaits'[s] \in {awaits[s], "nothing"}
         \/ awaits[s] = "detect" /\ awaits'[s] = "frame"
<1> USE DEF Await, ScannerTypeOK, Stopped
<1>1. ASSUME NEW q \in Scans, ScanStep(q), q # s PROVE awaits'[s] = awaits[s]
  BY <1>1 DEF ScanStep, TapScan, CameraAnswers, ScanFails, Plays, Frame, Tick,
              FindsNothing, FindsCode, StreamEnds
<1>2. CASE TapScan(s) \/ StreamEnds(s)
  BY <1>2 DEF TapScan, StreamEnds
<1>3. ~CameraAnswers(s)
  BY DEF CameraAnswers
<1>4. CASE ScanFails(s) \/ FindsNothing(s) \/ FindsCode(s)
  BY <1>4 DEF ScanFails, FindsNothing, FindsCode
<1>5. CASE Plays(s) \/ Frame(s)
  BY <1>5 DEF Plays, Frame, Tick
<1>6. CASE TypesCode \/ Begins \/ Hides \/ Shows
  BY <1>6 DEF TypesCode, Begins, Hides, Shows, scanVars
<1> QED BY <1>1, <1>2, <1>3, <1>4, <1>5, <1>6 DEF ScannerNext, ScanStep

\* A scan that is stopped stays so, and is asked for no further frame (app.js:281-289).
THEOREM StoppedScanNeverGoesFurther == SafeSpec => StoppedScanGoesNoFurther
<1> DEFINE A == \A s \in Scans : Stopped(s) =>
                  /\ scanning' # s
                  /\ \/ awaits'[s] \in {awaits[s], "nothing"}
                     \/ awaits[s] = "detect" /\ awaits'[s] = "frame"
<1>1. ASSUME AppInv, [Next]_vars PROVE [A]_<<pageVars, scanVars>>
  <2> SUFFICES ASSUME NEW s \in Scans, Stopped(s)
               PROVE  /\ scanning' # s
                      /\ \/ awaits'[s] \in {awaits[s], "nothing"}
                         \/ awaits[s] = "detect" /\ awaits'[s] = "frame"
    OBVIOUS
  <2>1. ScannerTypeOK /\ s # NoScan /\ scanning # s /\ awaits[s] # "camera"
    BY <1>1, ScanAssumption DEF AppInv, TypeOK, ScanAssumption, Stopped
  <2>2. CASE ScannerNext
    BY <2>1, <2>2, RecordedIs, StoppedStep
  <2>3. CASE UNCHANGED scanVars
    BY <2>1, <2>3 DEF scanVars
  <2>4. CASE StartsAgain
    BY <2>1, <2>4 DEF StartsAgain
  <2> QED BY <1>1, <2>2, <2>3, <2>4 DEF Next, vars
<1> QED BY <1>1, AppInvariant, PTL DEF SafeSpec, StoppedScanGoesNoFurther

-----------------------------------------------------------------------------
(* What the liveness rests on: the paste *)

LEMMA NearerIs ==
  ASSUME InputTypeOK, PasteInv, NEW p \in Pastes, UnderWay(p)
  PROVE  /\ Len(Plan(p)) \in Nat /\ written[p] \in Nat /\ written[p] < Len(Plan(p))
         /\ stage[p] \in {"sending", "sealing", "pausing"}
BY PasteFacts DEF PasteInv, StageInv, UnderWay

\* A step of a paste that is under way brings it nearer to its end, or is its end.
LEMMA PasteStepNearer ==
  ASSUME InputTypeOK, PasteInv, NEW p \in Pastes, PasteStep(p), UnderWay(p)
  PROVE  \/ stage'[p] \in {"done", "interrupted"}
         \/ UnderWay(p)' /\ 0 < StepsLeft(p)' /\ StepsLeft(p)' < StepsLeft(p)
<1>1. /\ stage \in [Pastes -> {"idle", "reading", "sending", "sealing", "pausing", "done",
                               "interrupted", "refused"}]
      /\ written \in [Pastes -> Nat]
  BY DEF InputTypeOK
<1>2. PICK n \in Nat, w \in Nat :
         /\ n = Len(Plan(p)) /\ w = written[p] /\ w < n
         /\ stage[p] \in {"sending", "sealing", "pausing"}
  BY NearerIs
<1>3. CASE PasteWrites(p)
  <2>1. /\ stage[p] = "sending" /\ stage'[p] \in {"interrupted", "sealing"}
        /\ written' = written /\ size' = size /\ bracketed' = bracketed
    BY <1>1, <1>3 DEF PasteWrites, Stage
  <2>2. Plan(p)' = Plan(p)
    BY <2>1 DEF Plan
  <2>3. CASE stage'[p] = "sealing"
    <3>1. StepsLeft(p) = 3 * (n - w) - 1 /\ StepsLeft(p)' = 3 * (n - w) - 2
      BY <1>2, <2>1, <2>2, <2>3 DEF StepsLeft
    <3> QED BY <1>2, <2>3, <3>1 DEF UnderWay
  <2> QED BY <2>1, <2>3
<1>4. CASE PasteSealed(p)
  <2>1. /\ stage[p] = "sealing" /\ stage'[p] = IF w + 1 = n THEN "done" ELSE "pausing"
        /\ written'[p] = w + 1 /\ size' = size /\ bracketed' = bracketed
    BY <1>1, <1>2, <1>4 DEF PasteSealed, Stage
  <2>2. Plan(p)' = Plan(p)
    BY <2>1 DEF Plan
  <2>3. w + 1 # n => w + 1 < n
    BY <1>2
  <2> QED BY <1>2, <2>1, <2>2, <2>3 DEF StepsLeft, UnderWay
<1>5. CASE PauseEnds(p)
  <2>1. /\ stage[p] = "pausing" /\ stage'[p] = "sending"
        /\ written' = written /\ size' = size /\ bracketed' = bracketed
    BY <1>1, <1>5 DEF PauseEnds, Stage
  <2>2. Plan(p)' = Plan(p)
    BY <2>1 DEF Plan
  <2> QED BY <1>2, <2>1, <2>2 DEF StepsLeft, UnderWay
<1>6. ~TapPaste(p) /\ ~ClipboardAnswers(p)
  BY <1>2 DEF TapPaste, ClipboardAnswers
<1> QED BY <1>3, <1>4, <1>5, <1>6 DEF PasteStep

\* One paste, the keys and the line leave another paste where it is.
LEMMA OtherPastesWait ==
  ASSUME InputTypeOK, NEW p \in Pastes, InputNext, ~PasteStep(p)
  PROVE  UNCHANGED <<stage[p], written[p], size[p], bracketed[p]>>
<1>1. ASSUME NEW q \in Pastes, PasteStep(q)
      PROVE  UNCHANGED <<stage[p], written[p], size[p], bracketed[p]>>
  BY <1>1 DEF PasteStep, TapPaste, ClipboardAnswers, PasteWrites, PasteSealed, PauseEnds,
              Stage, InputTypeOK
<1>2. ASSUME NEW k \in sealing, KeySealed(k) PROVE UNCHANGED pasteVars
  BY <1>2 DEF KeySealed
<1>3. CASE TypeKey \/ PressCtrl \/ Fails \/ LearnsOfFailure \/ LineReturns
  BY <1>3 DEF TypeKey, PressCtrl, Fails, LearnsOfFailure, LineReturns, pasteVars
<1>4. CASE TapRetry \/ CopySelection \/ (BannerTimerFires /\ UNCHANGED inputVars)
  BY <1>4 DEF TapRetry, CopySelection, inputVars, pasteVars
<1> QED BY <1>1, <1>2, <1>3, <1>4 DEF InputNext, pasteVars

\* Once its text is known, a paste only ever gets nearer to its end, whatever is typed,
\* pasted or shown meanwhile (app.js:494-504).
THEOREM PasteAlwaysComesNearer == SafeSpec => PasteComesNearer
<1> DEFINE A == \A p \in Pastes : UnderWay(p) =>
                  \/ UNCHANGED <<stage[p], written[p], size[p], bracketed[p]>>
                  \/ stage'[p] \in {"done", "interrupted", "idle"}
                  \/ UnderWay(p)' /\ 0 < StepsLeft(p)' /\ StepsLeft(p)' < StepsLeft(p)
<1>1. ASSUME AppInv, [Next]_vars PROVE [A]_<<inputVars, pageVars>>
  <2> SUFFICES ASSUME NEW p \in Pastes, UnderWay(p)
               PROVE  \/ UNCHANGED <<stage[p], written[p], size[p], bracketed[p]>>
                      \/ stage'[p] \in {"done", "interrupted", "idle"}
                      \/ UnderWay(p)' /\ 0 < StepsLeft(p)' /\ StepsLeft(p)' < StepsLeft(p)
    OBVIOUS
  <2>1. InputTypeOK /\ PasteInv
    BY <1>1 DEF AppInv, TypeOK
  <2>2. CASE InputNext /\ PasteStep(p)
    BY <2>1, <2>2, PasteStepNearer
  <2>3. CASE InputNext /\ ~PasteStep(p)
    BY <2>1, <2>3, OtherPastesWait
  <2>4. CASE UNCHANGED inputVars
    BY <2>4 DEF inputVars, pasteVars
  <2>5. CASE StartsAgain
    BY <2>5 DEF StartsAgain
  <2> QED BY <1>1, <2>2, <2>3, <2>4, <2>5 DEF Next, vars
<1> QED BY <1>1, AppInvariant, PTL DEF SafeSpec, PasteComesNearer
-----------------------------------------------------------------------------
(* What the liveness rests on: the update *)

\* No worker is newer than the server's build, which the visit bounds.
BuildsInv ==
  /\ deployed <= visit.builds
  /\ active <= deployed /\ waiting <= deployed /\ installing <= deployed

\* A worker that was offered waits still, or has taken over, or gave way to a newer one;
\* once it or a newer one is active the page has an event to hear of, or reloads.
TakenInv ==
  /\ watched # 0 \/ installed => listening
  /\ waitingWorker # 0 =>
       /\ listening /\ hadController
       /\ waitingWorker <= waiting \/ waitingWorker <= active
       /\ waitingWorker <= active => changed \/ reloading

LEMMA BuildsStep ==
  ASSUME PageTypeOK, UpdateTypeOK, BuildsInv, UpdateStep, visit' = visit
  PROVE  BuildsInv'
<1> USE DEF BuildsInv, browserVars, pageVars, placeVars
<1>1. deployed \in Nat /\ active \in Nat /\ waiting \in Nat /\ installing \in Nat
      /\ visit.builds \in Nat
  BY BuildsAre, VisitIs
<1>2. CASE Registers
  BY <1>1, <1>2 DEF Registers
<1>3. CASE UpdateFound
  BY <1>1, <1>3 DEF UpdateFound
<1>4. CASE StateChanges \/ TapReload \/ ControllerChanges \/ AnotherPageTakes
  BY <1>4 DEF StateChanges, TapReload, ControllerChanges, AnotherPageTakes
<1>5. CASE Deploys
  BY <1>1, <1>5 DEF Deploys
<1>6. CASE Installs
  BY <1>1, <1>6 DEF Installs, TakesOver
<1>7. ASSUME NEW worker \in posted, SkipWaiting(worker) PROVE BuildsInv'
  BY <1>1, <1>7 DEF SkipWaiting, TakesOver
<1> QED BY <1>2, <1>3, <1>4, <1>5, <1>6, <1>7 DEF UpdateStep

\* An offer is made by a page that listens, of a worker that waits.
LEMMA OfferKeepsTaken ==
  ASSUME UpdateTypeOK, WorkerInv, TakenInv, OfferUpdate, listening',
         watched # 0 \/ installed' => listening,
         UNCHANGED <<active, waiting, startedUnder, watched, changed, reloading>>
  PROVE  TakenInv'
<1>1. active \in Nat /\ waiting \in Nat
  BY BuildsAre
<1>2. CASE waitingWorker' = waitingWorker
  BY <1>2 DEF TakenInv, hadController
<1>3. CASE waitingWorker' = waiting /\ waiting # 0 /\ hadController
  BY <1>1, <1>3 DEF TakenInv, hadController, WorkerInv
<1> QED BY <1>2, <1>3 DEF OfferUpdate

LEMMA TakenStep ==
  ASSUME UpdateTypeOK, WorkerInv, TakenInv, UpdateStep
  PROVE  TakenInv'
<1>1. /\ active \in Nat /\ waiting \in Nat /\ installing \in Nat /\ waitingWorker \in Nat
      /\ deployed # 0
  BY BuildsAre DEF UpdateTypeOK, Builds, WorkerInv
<1>2. CASE Registers
  BY <1>2, OfferKeepsTaken DEF Registers, TakenInv
<1>3. CASE UpdateFound
  BY <1>1, <1>3 DEF UpdateFound, TakenInv, hadController
<1>4. CASE StateChanges
  BY <1>4, OfferKeepsTaken DEF StateChanges, TakenInv
<1>5. CASE TapReload \/ Deploys \/ AnotherPageTakes
  BY <1>5 DEF TapReload, Deploys, AnotherPageTakes, updaterVars, TakenInv, hadController
<1>6. CASE ControllerChanges
  <2>1. UNCHANGED <<active, waiting, startedUnder, listening, watched, installed,
                    waitingWorker>>
    BY <1>6 DEF ControllerChanges, browserVars
  <2>2. listening /\ hadController => reloading'
    BY <1>6, Zenon DEF ControllerChanges
  <2> QED BY <2>1, <2>2 DEF TakenInv, hadController
<1>7. CASE Installs
  <2>1. /\ installing # 0
        /\ UNCHANGED <<startedUnder, listening, watched, waitingWorker, reloading>>
        /\ installed' => installed \/ installing = watched
    BY <1>7 DEF Installs
  <2>2. CASE active = 0
    BY <1>1, <1>7, <2>1, <2>2 DEF Installs, TakesOver, TakenInv, WorkerInv, hadController
  <2>3. CASE active # 0
    <3>1. waiting' = installing /\ active' = active /\ changed' = changed
      BY <1>7, <2>3 DEF Installs
    <3> QED BY <1>1, <2>1, <3>1 DEF TakenInv, WorkerInv, hadController
  <2> QED BY <2>2, <2>3
<1>8. ASSUME NEW worker \in posted, SkipWaiting(worker) PROVE TakenInv'
  <2>1. UNCHANGED <<startedUnder, listening, watched, installed, waitingWorker, reloading>>
    BY <1>8 DEF SkipWaiting
  <2>2. CASE worker = waiting
    <3>1. waiting # 0 /\ active' = waiting /\ changed' = TRUE /\ waiting' = 0
      BY <1>8, <2>2 DEF SkipWaiting, TakesOver, WorkerInv
    <3> QED BY <1>1, <2>1, <3>1 DEF TakenInv, WorkerInv, hadController
  <2>3. CASE worker # waiting
    <3>1. UNCHANGED <<active, changed, waiting>>
      BY <1>8, <2>3 DEF SkipWaiting
    <3> QED BY <2>1, <3>1 DEF TakenInv, hadController
  <2> QED BY <2>2, <2>3
<1> QED BY <1>2, <1>3, <1>4, <1>5, <1>6, <1>7, <1>8 DEF UpdateStep

\* An update that was taken has always something under way that brings it nearer, the
\* message, the event or the navigation (app.js:908-909, 951-957).
THEOREM TakenIsAlwaysUnderWay == SafeSpec => []TakenIsUnderWay
<1> DEFINE Inv == AppInv /\ BuildsInv /\ TakenInv
<1>1. Init => Inv
  <2> SUFFICES ASSUME Init PROVE BuildsInv /\ TakenInv
    BY InitApp
  <2>1. active \in {0, 1} /\ deployed = 1 /\ waiting = 0 /\ installing = 0
    BY DEF Init, UpdateInit
  <2>2. visit.builds \in 1 .. MaxBuild
    BY InitApp, VisitIs DEF AppInv, TypeOK
  <2> QED BY <2>1, <2>2 DEF Init, UpdateInit, BuildsInv, TakenInv
<1>2. Inv /\ [Next]_vars => Inv'
  <2> SUFFICES ASSUME Inv, [Next]_vars PROVE Inv'
    OBVIOUS
  <2>1. AppInv' /\ PageTypeOK /\ UpdateTypeOK /\ InputTypeOK /\ WorkerInv /\ PageInv
    BY AppStep DEF AppInv, TypeOK
  <2>2. CASE UNCHANGED updateVars /\ visit' = visit
    BY <2>1, <2>2 DEF updateVars, browserVars, updaterVars, BuildsInv, TakenInv, hadController
  <2>3. CASE ScannerNext /\ UNCHANGED updateVars
    BY <2>1, <2>2, <2>3, ScannerStep DEF AppInv, TypeOK
  <2>4. CASE InputNext /\ UNCHANGED updateVars
    BY <2>2, <2>4, InputBanner DEF BannerStep, placeVars
  <2>5. CASE UpdateStep
    <3>1. visit' = visit
      BY <2>1, <2>5, UpdateStepIs DEF UpdateKeeps
    <3> QED BY <2>1, <2>5, <3>1, BuildsStep, TakenStep
  <2>6. CASE StartsAgain
    <3>1. /\ Starts /\ UNCHANGED <<deployed, installing, visit>>
          /\ active' \in {active, waiting} /\ waiting' \in {waiting, 0}
      BY <2>6 DEF StartsAgain, Reloads, Reopens, browserVars
    <3>2. deployed \in Nat
      BY <2>1, BuildsAre
    <3> QED BY <2>1, <3>1, <3>2 DEF Starts, BuildsInv, TakenInv
  <2>7. CASE UNCHANGED vars
    BY <2>2, <2>7 DEF vars, pageVars, placeVars
  <2> QED BY <2>3, <2>4, <2>5, <2>6, <2>7 DEF Next
<1>3. Inv => TakenIsUnderWay
  <2> SUFFICES ASSUME Inv, waitingWorker = visit.builds,
                      waitingWorker \in posted \/ active = visit.builds
               PROVE  TakenIsUnderWay
    BY DEF TakenIsUnderWay
  <2>1. /\ UpdateTypeOK /\ PageTypeOK /\ WorkerInv
    BY DEF AppInv, TypeOK
  <2>2. /\ active \in Nat /\ waiting \in Nat /\ deployed \in Nat
        /\ visit.builds \in Nat /\ visit.builds # 0
    BY <2>1, BuildsAre, VisitIs
  <2>3. /\ active <= visit.builds /\ waiting <= visit.builds
    BY <2>2 DEF BuildsInv
  <2>4. /\ listening /\ hadController
        /\ waitingWorker <= waiting \/ waitingWorker <= active
        /\ waitingWorker <= active => changed \/ reloading
    BY <2>2 DEF TakenInv
  <2>5. CASE waiting = visit.builds
    <3>1. active # visit.builds
      BY <2>1, <2>2, <2>5 DEF WorkerInv
    <3> QED BY <2>5, <3>1 DEF TakenIsUnderWay
  <2>6. CASE active = visit.builds
    <3>1. waitingWorker <= active
      BY <2>2, <2>6
    <3> QED BY <2>4, <2>6, <3>1 DEF TakenIsUnderWay
  <2> QED BY <2>2, <2>3, <2>4, <2>5, <2>6
<1> QED BY <1>1, <1>2, <1>3, PTL DEF SafeSpec
=============================================================================
