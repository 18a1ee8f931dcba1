----------------------------- MODULE UpdateFlow ------------------------------
(***************************************************************************)
(* How a new build reaches the page (public/app.js:881-974): a worker is   *)
(* installed, waits, is offered, is asked to take over, and the page       *)
(* reloads once it has.  Builds are numbered; the browser's registration   *)
(* (which worker is active, waiting, installing) is external, as is another*)
(* page of the same origin, which may be a landing page or a tapped banner.*)
(* A visit's builds bound the deployments.                                 *)
(***************************************************************************)
EXTENDS PageState

CONSTANTS MaxBuild   \* no visit has more builds

ASSUME BuildAssumption == MaxBuild \in Nat \ {0}

VARIABLES
  deployed,                     \* the newest build on the server
  active, waiting, installing,  \* the registration's workers; 0 is none
  posted,                       \* workers with a skip-waiting message on its way
  startedUnder,                 \* the page's controller when it started
  listening,                    \* register() has answered and the listeners are there
  watched,                      \* the installing worker whose state the page follows
  installed,                    \* its state change is queued
  changed,                      \* a controllerchange event is queued
  waitingWorker, reloading      \* of the page; 0 is null

browserVars == <<deployed, active, waiting, installing, posted>>
updaterVars == <<startedUnder, listening, watched, installed, changed, waitingWorker,
                 reloading>>
updateVars == <<browserVars, updaterVars>>

Builds == 0 .. MaxBuild

UpdateTypeOK ==
  /\ deployed \in Builds /\ active \in Builds /\ waiting \in Builds /\ installing \in Builds
  /\ startedUnder \in Builds /\ watched \in Builds /\ waitingWorker \in Builds
  /\ posted \subseteq Builds
  /\ listening \in BOOLEAN /\ installed \in BOOLEAN
  /\ changed \in BOOLEAN /\ reloading \in BOOLEAN

\* A first visit, or one of an installed app.
UpdateInit ==
  /\ deployed = 1
  /\ active \in 0 .. 1 /\ waiting = 0 /\ installing = 0
  /\ posted = {}
  /\ startedUnder = active /\ listening = FALSE
  /\ watched = 0 /\ installed = FALSE /\ changed = FALSE
  /\ waitingWorker = 0 /\ reloading = FALSE

hadController == startedUnder # 0

-----------------------------------------------------------------------------
\* applyUpdate.
ApplyUpdate(worker) ==
  /\ ShowBanner("updating")
  /\ posted' = posted \cup {worker}

\* offerUpdate.  Where there is nothing to lose the update is taken at once.
OfferUpdate ==
  IF waiting = 0 \/ ~hadController \/ updateReady
  THEN UNCHANGED <<updateReady, waitingWorker, bannerVars, posted>>
  ELSE /\ updateReady' = TRUE
       /\ waitingWorker' = waiting
       /\ IF client = 0 /\ ~codeInput THEN ApplyUpdate(waiting)
          ELSE ShowBanner("update") /\ UNCHANGED posted

\* register() answers: what waits already is offered, and later workers are followed.
\* Where there is no worker yet, it has one installed.
Registers ==
  /\ ~listening
  /\ listening' = TRUE
  /\ installing' = IF active = 0 /\ installing = 0 THEN deployed ELSE installing
  /\ OfferUpdate
  /\ UNCHANGED <<deployed, active, waiting, startedUnder, watched, installed, changed,
                 reloading, placeVars>>

\* The browser looks for a newer build: on a navigation, for update(), which the page
\* calls whenever it is seen again, or for another page.  Once it listens, the page
\* follows what is found.
UpdateFound ==
  /\ active # 0 /\ installing = 0
  /\ deployed > active /\ deployed > waiting
  /\ installing' = deployed
  /\ watched' = IF listening THEN deployed ELSE watched
  /\ UNCHANGED <<deployed, active, waiting, posted, startedUnder, listening, installed,
                 changed, waitingWorker, reloading, pageVars>>

\* statechange: whatever waits by now is offered.
StateChanges ==
  /\ installed
  /\ installed' = FALSE
  /\ OfferUpdate
  /\ UNCHANGED <<deployed, active, waiting, installing, startedUnder, listening, watched,
                 changed, reloading, placeVars>>

\* The banner's button; the banner lies inside the session.
TapReload ==
  /\ banner = "update" /\ client > 0
  /\ ApplyUpdate(waitingWorker)
  /\ UNCHANGED <<deployed, active, waiting, installing, updaterVars, placeVars, updateReady>>

SlipControllerChanges ==
  /\ changed
  /\ changed' = FALSE
  /\ reloading' = (reloading \/ (listening /\ hadController /\ client = 0))
  /\ UNCHANGED <<browserVars, startedUnder, listening, watched, installed, waitingWorker,
                 pageVars>>

SlipControllerFirst ==
  /\ changed
  /\ changed' = FALSE
  /\ reloading' = (reloading \/ listening)
  /\ UNCHANGED <<browserVars, startedUnder, listening, watched, installed, waitingWorker,
                 pageVars>>

\* controllerchange.  The page goes on until the navigation replaces it.
ControllerChanges ==
  /\ changed
  /\ changed' = FALSE
  /\ reloading' = (reloading \/ (listening /\ hadController))
  /\ UNCHANGED <<browserVars, startedUnder, listening, watched, installed, waitingWorker,
                 pageVars>>

-----------------------------------------------------------------------------
\* The browser and the server.
Deploys ==
  /\ deployed < visit.builds
  /\ deployed' = deployed + 1
  /\ UNCHANGED <<active, waiting, installing, posted, updaterVars, pageVars>>

TakesOver(worker) ==
  /\ active' = worker
  /\ changed' = TRUE

\* An installed worker waits, in the place of one that waited before; the first one
\* has nobody to wait for, and claims the page.
Installs ==
  /\ installing # 0
  /\ installing' = 0
  /\ installed' = (installed \/ installing = watched)
  /\ IF active = 0 THEN TakesOver(installing) /\ UNCHANGED waiting
     ELSE waiting' = installing /\ UNCHANGED <<active, changed>>
  /\ UNCHANGED <<deployed, posted, startedUnder, listening, watched, waitingWorker,
                 reloading, pageVars>>

\* The message reaches the worker: one that does not wait any more ignores it.
SkipWaiting(worker) ==
  /\ worker \in posted
  /\ posted' = posted \ {worker}
  /\ IF worker = waiting THEN TakesOver(worker) /\ waiting' = 0
     ELSE UNCHANGED <<active, changed, waiting>>
  /\ UNCHANGED <<deployed, installing, startedUnder, listening, watched, installed,
                 waitingWorker, reloading, pageVars>>

AnotherPageTakes ==
  /\ waiting # 0
  /\ posted' = posted \cup {waiting}
  /\ UNCHANGED <<deployed, active, waiting, installing, updaterVars, pageVars>>

\* A page starts in the place of this one.
Starts ==
  /\ startedUnder' = active' /\ listening' = FALSE
  /\ watched' = 0 /\ installed' = FALSE /\ changed' = FALSE
  /\ waitingWorker' = 0 /\ reloading' = FALSE
  /\ client' = 0 /\ codeInput' = FALSE /\ updateReady' = FALSE
  /\ banner' = "none" /\ bannerTimer' = FALSE

Reloads ==
  /\ reloading
  /\ UNCHANGED <<browserVars, visit, hidden>>
  /\ Starts

\* The user reloads the page, or closes every page of the app, which is what a waiting
\* worker waits for, and opens it again.
Reopens ==
  /\ ~hidden
  /\ \/ UNCHANGED <<active, waiting>>
     \/ waiting # 0 /\ active' = waiting /\ waiting' = 0
  /\ UNCHANGED <<deployed, installing, posted, visit, hidden>>
  /\ Starts

UpdateStep ==
  \/ Registers \/ UpdateFound \/ StateChanges \/ TapReload \/ ControllerChanges
  \/ Deploys \/ Installs \/ AnotherPageTakes
  \/ \E worker \in posted : SkipWaiting(worker)

\* Workers install, messages and events are delivered, and a navigation is carried out.
UpdateFairness ==
  LET v == <<updateVars, pageVars>>
  IN /\ WF_v(Registers) /\ WF_v(StateChanges) /\ WF_v(ControllerChanges)
     /\ WF_v(Installs) /\ WF_v(Reloads)
     /\ \A worker \in Builds : WF_v(SkipWaiting(worker))

-----------------------------------------------------------------------------
\* A page reloads by itself only to run under a newer worker than it started under,
\* and not when the first worker ever claims it (app.js:939, 951-957): no reload is
\* for nothing, and none follows another without a take-over between them.
ReloadsForANewerWorker == reloading => 0 < startedUnder /\ startedUnder < active

\* An update on offer is not lost to a message of the line or a notice that came and
\* went over it: whatever is hidden, it shows again (app.js:854-856).
OfferIsKept == updateReady => banner # "none"

\* An update that was taken lands: once the page has asked the newest build there is
\* to take over, it does, and the page is replaced (app.js:891-892, 908-909, 953-957).
TakenUpdateLands ==
  (waitingWorker = visit.builds /\ waitingWorker \in posted)
  ~> (active = visit.builds /\ waitingWorker = 0)

\* What its liveness rests on: an update that was taken has always something under way
\* that brings it nearer, the message, the event or the navigation (app.js:908-909, 951-957).
TakenIsUnderWay ==
  waitingWorker = visit.builds /\ (waitingWorker \in posted \/ active = visit.builds) =>
    \/ waiting = visit.builds /\ visit.builds \in posted
    \/ active = visit.builds /\ (reloading \/ (changed /\ listening /\ hadController))

-----------------------------------------------------------------------------
(* What comments say, and the code does not do.                            *)

\* "The page offers the update, and asks for the swap only once the user takes it"
\* (sw.js:95-96): no page is reloaded while it has a session whose user took nothing.
SessionIsNotReloaded == reloading /\ client > 0 => banner = "updating"

\* "It waits behind whatever the line has to say" (app.js:854-855): an offer does not
\* displace what the line or the CLI has to say.
LineComesFirst ==
  [][updateReady' /\ ~updateReady => banner \notin {"line", "cli"}]_<<updateVars, pageVars>>

\* "The worker waits, this asks the user, and the swap and the reload happen together"
\* (app.js:891-892): a tap on Reload is followed by one.
TapReloads == (banner = "updating" /\ client > 0) ~> (client = 0)

\* "A worker that finished installing while the page was closed is already waiting by
\* the time this runs" (app.js:959-960): of what waits, a controlled page is told.
WaitingIsOffered == (waiting # 0 /\ hadController) ~> (updateReady \/ waiting = 0)
=============================================================================
