------------------------------ MODULE PageState ------------------------------
(***************************************************************************)
(* What the parts of the page (public/app.js) share: the client that a     *)
(* session begins, the code field, whether the page is visible, and the    *)
(* one banner they all write to.                                           *)
(***************************************************************************)
EXTENDS Naturals

\* The bounds a visit may have: the scans and pastes it may begin, and how many
\* clients, keys, failures of the line and builds it may see.
CONSTANTS Visits

VARIABLES
  visit,         \* the bounds of this one
  client,        \* how many were constructed on this page; 0 is null
  codeInput,     \* whether the code field holds anything
  hidden,        \* document.hidden
  updateReady,   \* an update has been offered
  banner,        \* what the banner shows
  bannerTimer    \* whether it hides by itself

bannerVars == <<banner, bannerTimer>>
placeVars == <<visit, client, codeInput, hidden>>
pageVars == <<placeVars, updateReady, bannerVars>>

\* The messages: an update, one being applied, the line (with its retry button),
\* the CLI's absence, and a notice that is taken down after a while.
Messages == {"update", "updating", "line", "retrying", "cli", "notice"}

PageTypeOK ==
  /\ visit \in Visits /\ client \in 0 .. visit.clients
  /\ codeInput \in BOOLEAN /\ hidden \in BOOLEAN
  /\ updateReady \in BOOLEAN /\ bannerTimer \in BOOLEAN
  /\ banner \in Messages \cup {"none"}

PageInit ==
  /\ visit \in Visits
  /\ hidden = FALSE
  /\ client = 0 /\ codeInput = FALSE /\ updateReady = FALSE
  /\ banner = "none" /\ bannerTimer = FALSE

ShowBanner(message) == banner' = message /\ bannerTimer' = (message = "notice")

SlipHideBanner == banner' = "none" /\ bannerTimer' = FALSE

\* hideBanner: an update on offer takes the banner back.
HideBanner ==
  /\ banner' = IF updateReady THEN "update" ELSE "none"
  /\ bannerTimer' = FALSE

BannerTimerFires ==
  /\ bannerTimer
  /\ HideBanner
  /\ UNCHANGED <<placeVars, updateReady>>
=============================================================================
