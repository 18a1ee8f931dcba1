------------------------------ MODULE ShellCache ------------------------------
(***************************************************************************)
(* The service worker's answers (public/sw.js): sources network-first with *)
(* a deadline and a stall window, vendored files from the cache first, both*)
(* refreshing one cache that a new worker's install writes to as well.  The*)
(* network is external: it answers, is absent, or holds a request and says *)
(* nothing; an answer carries the build deployed when the server gave it,  *)
(* and may arrive after one that was given later.  Storing a response is   *)
(* nobody's to wait for: it may end late, or never, for want of room, of   *)
(* the rest of the body or of a worker, which the browser stops as it sees *)
(* fit once every request is answered.                                     *)
(*                                                                         *)
(* A request is a pair of a page load and a file; Requests bounds them,    *)
(* MaxBuild the deployments.                                               *)
(***************************************************************************)
EXTENDS Naturals

CONSTANTS Sources, Vendor, Root, Links, Requests, MaxBuild

Files == Sources \cup Vendor
Install == 0                                 \* the load that fills the cache

Loads == {r \in Requests : r[1] # Install}   \* those a page makes

ASSUME FileAssumption ==
  Root \in Sources /\ Links \subseteq Sources /\ Sources \cap Vendor = {}
ASSUME RequestAssumption == Requests \subseteq Nat \X Files
ASSUME BuildAssumption == MaxBuild \in Nat \ {0}

VARIABLES
  deployed,            \* outside
  cache,               \* the build of each file cached; 0 is none
  stalled,             \* Date.now() < stalledUntil
  fetched,             \* the fetch of each request: how far it is
  brings,              \* and the build it brings; 0 is a response that is not ok
  put,                 \* what became of storing it
  answer,              \* what a request waits for, or was answered from
  copy,                \* the build of the copy it found, or was answered with
  timedOut             \* whether a deadline has ever passed

requestVars == <<fetched, brings, put, answer, copy>>
vars == <<deployed, cache, stalled, timedOut, requestVars>>

Answered == {"cache", "network", "unavailable"}

TypeOK ==
  /\ deployed \in 1 .. MaxBuild
  /\ cache \in [Files -> 0 .. MaxBuild]
  /\ stalled \in BOOLEAN /\ timedOut \in BOOLEAN
  /\ fetched \in [Requests -> {"no", "sent", "answered", "arrived", "lost"}]
  /\ brings \in [Requests -> 0 .. MaxBuild] /\ copy \in [Requests -> 0 .. MaxBuild]
  /\ put \in [Requests -> {"no", "pending", "done", "failed"}]
  /\ answer \in [Requests -> {"unasked", "match", "race", "network only"} \cup Answered]

\* An earlier visit may have cached any of the files.
Init ==
  /\ deployed = 1
  /\ cache \in [Files -> 0 .. 1] /\ stalled = FALSE /\ timedOut = FALSE
  /\ fetched = [r \in Requests |-> "no"] /\ put = fetched
  /\ answer = [r \in Requests |-> "unasked"]
  /\ brings = [r \in Requests |-> 0] /\ copy = brings

-----------------------------------------------------------------------------
\* A source is fetched before the cache is asked, a vendored file after.
Asks(r) ==
  /\ answer[r] = "unasked" /\ r \in Loads
  /\ answer' = [answer EXCEPT ![r] = "match"]
  /\ fetched' = IF r[2] \in Sources THEN [fetched EXCEPT ![r] = "sent"] ELSE fetched
  /\ UNCHANGED <<deployed, cache, stalled, timedOut, brings, put, copy>>

\* install: cache.add for each file of the shell, the failures ignored.
InstallAdds(r) ==
  /\ fetched[r] = "no" /\ r \notin Loads
  /\ fetched' = [fetched EXCEPT ![r] = "sent"]
  /\ UNCHANGED <<deployed, cache, stalled, timedOut, brings, put, answer, copy>>

\* cache.match: a pairing link falls back to the page it opens.
CachedFor(f) == IF cache[f] = 0 /\ f \in Links THEN cache[Root] ELSE cache[f]

AnswerFrom(r, source, b) ==
  /\ answer' = [answer EXCEPT ![r] = source]
  /\ copy' = [copy EXCEPT ![r] = b]

\* What a request is answered with once its fetch is over.
Settles(r, outcome, found) ==
  IF outcome = "arrived" THEN AnswerFrom(r, "network", brings[r])
  ELSE IF found # 0 THEN AnswerFrom(r, "cache", found)
  ELSE AnswerFrom(r, "unavailable", 0)

\* networkFirst and staleWhileRevalidate, once the cache has been looked up.
Matches(r) ==
  LET found == CachedFor(r[2])
  IN /\ answer[r] = "match"
     /\ IF found # 0 /\ (r[2] \in Vendor \/ stalled) THEN AnswerFrom(r, "cache", found)
        ELSE IF fetched[r] \in {"arrived", "lost"} THEN Settles(r, fetched[r], found)
        ELSE AnswerFrom(r, IF found # 0 THEN "race" ELSE "network only", found)
     /\ fetched' = IF r[2] \in Vendor THEN [fetched EXCEPT ![r] = "sent"] ELSE fetched
     /\ UNCHANGED <<deployed, cache, stalled, timedOut, brings, put>>

SlipTimesOut(r) ==
  /\ answer[r] = "race" /\ ~stalled
  /\ timedOut' = TRUE
  /\ stalled' = TRUE
  /\ AnswerFrom(r, "cache", copy[r])
  /\ UNCHANGED <<deployed, cache, fetched, brings, put>>

\* NETWORK_DEADLINE passes first.
TimesOut(r) ==
  /\ answer[r] = "race"
  /\ timedOut' = TRUE
  /\ stalled' = TRUE
  /\ AnswerFrom(r, "cache", copy[r])
  /\ UNCHANGED <<deployed, cache, fetched, brings, put>>

WindowEnds ==
  /\ stalled
  /\ stalled' = FALSE
  /\ UNCHANGED <<deployed, cache, timedOut, requestVars>>

\* A fetch is over; the request that still waits for it is answered.
Over(r, outcome) ==
  /\ fetched' = [fetched EXCEPT ![r] = outcome]
  /\ IF answer[r] \in {"race", "network only"} THEN Settles(r, outcome, copy[r])
     ELSE UNCHANGED <<answer, copy>>

SlipArrives(r) ==
  /\ fetched[r] = "answered"
  /\ Over(r, "arrived")
  /\ put' = IF answer[r] \in Answered THEN put ELSE [put EXCEPT ![r] = "pending"]
  /\ UNCHANGED <<deployed, cache, stalled, timedOut, brings>>

\* The response arrives and is to be cached, whatever else is cached by now and whether
\* or not the request still waits.
Arrives(r) ==
  /\ fetched[r] = "answered"
  /\ Over(r, "arrived")
  /\ put' = [put EXCEPT ![r] = "pending"]
  /\ UNCHANGED <<deployed, cache, stalled, timedOut, brings>>

SlipRefused(r) ==
  /\ fetched[r] = "sent"
  /\ Over(r, "arrived")
  /\ put' = [put EXCEPT ![r] = "pending"]
  /\ UNCHANGED <<deployed, cache, stalled, timedOut, brings>>

\* A response arrives that is not ok: it answers, and is not cached.
Refused(r) ==
  /\ fetched[r] = "sent"
  /\ Over(r, "arrived")
  /\ UNCHANGED <<deployed, cache, stalled, timedOut, brings, put>>

\* cache.put, and cache.add after its fetch: the copy takes the place of the one before.
Stores(r) ==
  /\ put[r] = "pending"
  /\ put' = [put EXCEPT ![r] = "done"]
  /\ cache' = [cache EXCEPT ![r[2]] = brings[r]]
  /\ UNCHANGED <<deployed, stalled, timedOut, fetched, brings, answer, copy>>

\* It rejects, or the worker is stopped first: nobody notices.
PutFails(r) ==
  /\ put[r] = "pending"
  /\ put' = [put EXCEPT ![r] = "failed"]
  /\ UNCHANGED <<deployed, cache, stalled, timedOut, fetched, brings, answer, copy>>

SlipRejects(r) ==
  /\ fetched[r] = "sent"
  /\ Over(r, "lost")
  /\ stalled' = TRUE
  /\ UNCHANGED <<deployed, cache, timedOut, brings, put>>

\* An absent network rejects at once, which arms nothing.
Rejects(r) ==
  /\ fetched[r] = "sent"
  /\ Over(r, "lost")
  /\ UNCHANGED <<deployed, cache, stalled, timedOut, brings, put>>

-----------------------------------------------------------------------------
\* The network and the server.
ServerAnswers(r) ==
  /\ fetched[r] = "sent"
  /\ fetched' = [fetched EXCEPT ![r] = "answered"]
  /\ brings' = [brings EXCEPT ![r] = deployed]
  /\ UNCHANGED <<deployed, cache, stalled, timedOut, put, answer, copy>>

Deploys ==
  /\ deployed < MaxBuild
  /\ deployed' = deployed + 1
  /\ UNCHANGED <<cache, stalled, timedOut, requestVars>>

Next ==
  \/ \E r \in Requests :
       \/ Asks(r) \/ InstallAdds(r) \/ Matches(r) \/ TimesOut(r)
       \/ Arrives(r) \/ Refused(r) \/ Rejects(r) \/ ServerAnswers(r)
       \/ Stores(r) \/ PutFails(r)
  \/ WindowEnds \/ Deploys

\* The cache answers and deadlines pass; of the network nothing is assumed.
Fairness == \A r \in Loads : WF_vars(Matches(r)) /\ WF_vars(TimesOut(r))

SafeSpec == Init /\ [][Next]_vars
Spec == SafeSpec /\ Fairness

-----------------------------------------------------------------------------
\* A network that says nothing does not hold the shell back: a request of which there
\* is a copy is answered (sw.js:45-53, 150-160).
CachedIsAnswered ==
  \A r \in Loads :
    (answer[r] = "match" /\ CachedFor(r[2]) # 0) ~> (answer[r] \in Answered)

\* What its liveness rests on: a request that waits with a copy at hand keeps it at hand
\* until it is answered, and is not told that there is none (sw.js:150-165).
CopyAtHand(r) ==
  \/ answer[r] = "match" /\ CachedFor(r[2]) # 0
  \/ answer[r] = "race" /\ copy[r] # 0
CopyStaysAtHand ==
  [][\A r \in Requests :
       CopyAtHand(r) => CopyAtHand(r)' \/ answer'[r] \in {"cache", "network"}]_vars

\* "Only a timeout arms it" (sw.js:73): a source whose own fetch did not fail is taken
\* from the cache only after a deadline has passed, so a network that was absent for a
\* while keeps nobody on old sources.
OnlyTimeoutsServeOldSources ==
  \A r \in Requests :
    (answer[r] = "cache" /\ r[2] \in Sources /\ fetched[r] # "lost") => timedOut

\* What could be opened without a network still can: no copy is lost, to an error page
\* in particular (sw.js:140, 145-148).
StaysOpenable == [][\A f \in Files : CachedFor(f) # 0 => CachedFor(f)' # 0]_vars

\* A fetch is never abandoned (sw.js:134): also where the request was answered without
\* it, what it brings is cached, unless the cache is still to take it or has refused to,
\* and stays so until another fetch of the file is cached.
FetchedIsKept ==
  \A r \in Requests :
    (fetched[r] = "arrived" /\ brings[r] # 0)
    => \/ put[r] \in {"pending", "failed"}
       \/ \E o \in Requests :
            o[2] = r[2] /\ put[o] = "done" /\ cache[r[2]] = brings[o]

-----------------------------------------------------------------------------
(* What comments say, and the code does not do.                            *)

\* "The page is assembled out of two builds that were never tested together. So the
\* first timeout puts the worker in cache-answering mode for long enough to cover the
\* rest of the burst" (sw.js:67-70).
OneBuildPerLoad ==
  \A r, o \in Requests :
    (r[1] = o[1] /\ answer[r] \in {"cache", "network"} /\ answer[o] \in {"cache", "network"}
     /\ timedOut) => copy[r] = 0 \/ copy[o] = 0 \/ copy[r] = copy[o]

\* "Whichever copy is served, the cache ends up holding the newest one the network
\* managed to deliver" (sw.js:134-136).
CacheHoldsTheNewest ==
  \A r \in Requests : put[r] = "done" => cache[r[2]] >= brings[r]
=============================================================================
