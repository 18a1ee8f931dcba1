--------------------------- MODULE ShellCacheProofs ---------------------------
(***************************************************************************)
(* Theorems about ShellCache, for any files, links and requests, and any   *)
(* number of builds.  Its safety properties are inductive, once it is said *)
(* that only a deadline opens the stall window, and that only what has     *)
(* arrived and is a build is stored (PutInv).  What the answering of a     *)
(* cached request rests on is a property of its steps.                     *)
(***************************************************************************)
EXTENDS ShellCache, TLAPS

StallInv == stalled => timedOut

PutInv == \A r \in Requests : put[r] # "no" => fetched[r] = "arrived" /\ brings[r] # 0

BringsInv ==
  \A r \in Requests : /\ fetched[r] \in {"no", "sent"} => brings[r] = 0
                      /\ fetched[r] = "answered" => brings[r] # 0

\* A vendored file is not fetched before the cache has been asked for it.
UnaskedInv ==
  \A r \in Requests :
    /\ answer[r] = "match" => r \in Loads
    /\ (r \in Loads /\ (answer[r] = "unasked" \/ (answer[r] = "match" /\ r[2] \in Vendor)))
         => fetched[r] = "no"

ShellInv ==
  /\ TypeOK /\ StallInv /\ UnaskedInv /\ PutInv /\ BringsInv
  /\ OnlyTimeoutsServeOldSources /\ FetchedIsKept

Outcomes == {"no", "sent", "answered", "arrived", "lost"}
Puts == {"no", "pending", "done", "failed"}
Answers == {"unasked", "match", "race", "network only"} \cup Answered

-----------------------------------------------------------------------------
(* Types *)

LEMMA ZeroIsABuild == 0 \in 0 .. MaxBuild /\ 1 .. MaxBuild \subseteq 0 .. MaxBuild
BY BuildAssumption DEF BuildAssumption

LEMMA RequestIs == ASSUME NEW r \in Requests PROVE r[2] \in Files
BY RequestAssumption DEF RequestAssumption

LEMMA CachedIs ==
  ASSUME TypeOK, NEW f \in Files
  PROVE  CachedFor(f) \in 0 .. MaxBuild
<1>1. Root \in Files
  BY FileAssumption DEF FileAssumption, Files
<1> QED BY <1>1 DEF CachedFor, TypeOK

LEMMA AnswerFromTypes ==
  ASSUME TypeOK, NEW r \in Requests, NEW source \in Answers, NEW b \in 0 .. MaxBuild,
         AnswerFrom(r, source, b)
  PROVE  answer' \in [Requests -> Answers] /\ copy' \in [Requests -> 0 .. MaxBuild]
BY DEF AnswerFrom, TypeOK, Answers

LEMMA SettlesTypes ==
  ASSUME TypeOK, NEW r \in Requests, NEW outcome, NEW found \in 0 .. MaxBuild,
         Settles(r, outcome, found)
  PROVE  answer' \in [Requests -> Answers] /\ copy' \in [Requests -> 0 .. MaxBuild]
<1>1. 0 \in 0 .. MaxBuild /\ brings[r] \in 0 .. MaxBuild
  BY ZeroIsABuild DEF TypeOK
<1>2. {"network", "cache", "unavailable"} \subseteq Answers
  BY DEF Answers, Answered
<1>3. \E source \in Answers, b \in 0 .. MaxBuild : AnswerFrom(r, source, b)
  BY <1>1, <1>2 DEF Settles
<1> QED BY <1>3, AnswerFromTypes

LEMMA OverTypes ==
  ASSUME TypeOK, NEW r \in Requests, NEW outcome \in Outcomes, Over(r, outcome)
  PROVE  /\ answer' \in [Requests -> Answers] /\ copy' \in [Requests -> 0 .. MaxBuild]
         /\ fetched' \in [Requests -> Outcomes]
<1>1. fetched' \in [Requests -> Outcomes]
  BY DEF Over, TypeOK, Outcomes
<1>2. copy[r] \in 0 .. MaxBuild
  BY DEF TypeOK
<1>3. CASE answer[r] \in {"race", "network only"}
  BY <1>1, <1>2, <1>3, SettlesTypes DEF Over
<1>4. CASE ~(answer[r] \in {"race", "network only"})
  BY <1>1, <1>4 DEF Over, TypeOK, Answers
<1> QED BY <1>3, <1>4

LEMMA TypeStep == TypeOK /\ [Next]_vars => TypeOK'
<1> SUFFICES ASSUME TypeOK, [Next]_vars PROVE TypeOK'
  OBVIOUS
<1>0. /\ answer \in [Requests -> Answers] /\ fetched \in [Requests -> Outcomes]
      /\ put \in [Requests -> Puts]
      /\ {"match", "race", "network only", "cache"} \subseteq Answers
      /\ {"sent", "answered", "arrived", "lost"} \subseteq Outcomes
  BY DEF TypeOK, Answers, Answered, Outcomes, Puts
<1>a. ASSUME answer' \in [Requests -> Answers], fetched' \in [Requests -> Outcomes],
             copy' \in [Requests -> 0 .. MaxBuild], brings' \in [Requests -> 0 .. MaxBuild],
             cache' \in [Files -> 0 .. MaxBuild], deployed' \in 1 .. MaxBuild,
             put' \in [Requests -> Puts], stalled' \in BOOLEAN, timedOut' \in BOOLEAN
      PROVE  TypeOK'
  BY <1>a DEF TypeOK, Answers, Outcomes, Puts
<1>1. ASSUME NEW r \in Requests, Asks(r) PROVE TypeOK'
  <2>1. answer' \in [Requests -> Answers] /\ fetched' \in [Requests -> Outcomes]
    BY <1>0, <1>1 DEF Asks
  <2>2. UNCHANGED <<deployed, cache, stalled, timedOut, brings, put, copy>>
    BY <1>1 DEF Asks
  <2> QED BY <2>1, <2>2, <1>0, <1>a DEF TypeOK
<1>2. ASSUME NEW r \in Requests, InstallAdds(r) PROVE TypeOK'
  <2>1. fetched' \in [Requests -> Outcomes]
    BY <1>0, <1>2 DEF InstallAdds
  <2>2. UNCHANGED <<deployed, cache, stalled, timedOut, brings, put, answer, copy>>
    BY <1>2 DEF InstallAdds
  <2> QED BY <2>1, <2>2, <1>0, <1>a DEF TypeOK
<1>3. ASSUME NEW r \in Requests, Matches(r) PROVE TypeOK'
  <2>1. CachedFor(r[2]) \in 0 .. MaxBuild
    BY RequestIs, CachedIs
  <2>2. \/ \E source \in Answers : AnswerFrom(r, source, CachedFor(r[2]))
        \/ Settles(r, fetched[r], CachedFor(r[2]))
    BY <1>0, <1>3 DEF Matches
  <2>3. answer' \in [Requests -> Answers] /\ copy' \in [Requests -> 0 .. MaxBuild]
    BY <2>1, <2>2, AnswerFromTypes, SettlesTypes
  <2>4. /\ fetched' \in [Requests -> Outcomes]
        /\ UNCHANGED <<deployed, cache, stalled, timedOut, brings, put>>
    BY <1>0, <1>3 DEF Matches
  <2> QED BY <2>3, <2>4, <1>0, <1>a DEF TypeOK
<1>4. ASSUME NEW r \in Requests, TimesOut(r) PROVE TypeOK'
  <2>1. AnswerFrom(r, "cache", copy[r]) /\ copy[r] \in 0 .. MaxBuild
    BY <1>4 DEF TimesOut, TypeOK
  <2>2. answer' \in [Requests -> Answers] /\ copy' \in [Requests -> 0 .. MaxBuild]
    BY <1>0, <2>1, AnswerFromTypes
  <2>3. /\ stalled' = TRUE /\ timedOut' = TRUE
        /\ UNCHANGED <<deployed, cache, fetched, brings, put>>
    BY <1>4 DEF TimesOut
  <2> QED BY <2>2, <2>3, <1>0, <1>a DEF TypeOK
<1>5. ASSUME NEW r \in Requests, Arrives(r) \/ Refused(r) \/ Rejects(r) PROVE TypeOK'
  <2>1. /\ answer' \in [Requests -> Answers] /\ copy' \in [Requests -> 0 .. MaxBuild]
        /\ fetched' \in [Requests -> Outcomes]
    BY <1>0, <1>5, OverTypes DEF Arrives, Refused, Rejects
  <2>2. put' \in [Requests -> Puts]
    BY <1>0, <1>5 DEF Arrives, Refused, Rejects, Puts
  <2>3. UNCHANGED <<deployed, cache, stalled, timedOut, brings>>
    BY <1>5 DEF Arrives, Refused, Rejects
  <2> QED BY <2>1, <2>2, <2>3, <1>a DEF TypeOK
<1>6. ASSUME NEW r \in Requests, Stores(r) \/ PutFails(r) PROVE TypeOK'
  <2>1. cache' \in [Files -> 0 .. MaxBuild]
    BY <1>6 DEF Stores, PutFails, TypeOK
  <2>2. put' \in [Requests -> Puts]
    BY <1>0, <1>6 DEF Stores, PutFails, Puts
  <2>3. UNCHANGED <<deployed, stalled, timedOut, fetched, brings, answer, copy>>
    BY <1>6 DEF Stores, PutFails
  <2> QED BY <2>1, <2>2, <2>3, <1>0, <1>a DEF TypeOK
<1>7. ASSUME NEW r \in Requests, ServerAnswers(r) PROVE TypeOK'
  <2>1. deployed \in 0 .. MaxBuild
    BY ZeroIsABuild DEF TypeOK
  <2>2. brings' \in [Requests -> 0 .. MaxBuild] /\ fetched' \in [Requests -> Outcomes]
    BY <1>0, <1>7, <2>1 DEF ServerAnswers, TypeOK
  <2>3. UNCHANGED <<deployed, cache, stalled, timedOut, put, answer, copy>>
    BY <1>7 DEF ServerAnswers
  <2> QED BY <2>2, <2>3, <1>0, <1>a DEF TypeOK
<1>8. CASE WindowEnds
  BY <1>8 DEF WindowEnds, requestVars, TypeOK
<1>9. CASE Deploys
  <2>1. deployed \in 1 .. MaxBuild /\ deployed < MaxBuild /\ deployed' = deployed + 1
    BY <1>9 DEF Deploys, TypeOK
  <2>2. deployed' \in 1 .. MaxBuild
    BY <2>1, BuildAssumption DEF BuildAssumption
  <2> QED BY <1>9, <2>2 DEF Deploys, requestVars, TypeOK
<1>10. CASE UNCHANGED vars
  BY <1>10 DEF vars, requestVars, TypeOK
<1> QED BY <1>1, <1>2, <1>3, <1>4, <1>5, <1>6, <1>7, <1>8, <1>9, <1>10 DEF Next

-----------------------------------------------------------------------------
(* What a request is answered with *)

LEMMA StallStep == StallInv /\ [Next]_vars => StallInv'
BY DEF StallInv, Next, vars, Asks, InstallAdds, Matches, TimesOut, Arrives, Refused,
       Rejects, ServerAnswers, Stores, PutFails, WindowEnds, Deploys

\* A request settled by a fetch that arrived is not answered from the cache.
LEMMA SettlesLeaves ==
  ASSUME TypeOK, NEW r \in Requests, NEW outcome, NEW found, Settles(r, outcome, found)
  PROVE  /\ \A o \in Requests \ {r} : answer'[o] = answer[o]
         /\ outcome = "arrived" => answer'[r] = "network"
BY DEF Settles, AnswerFrom, TypeOK

LEMMA SourcesStep ==
  TypeOK /\ StallInv /\ OnlyTimeoutsServeOldSources /\ [Next]_vars
    => OnlyTimeoutsServeOldSources'
<1> SUFFICES ASSUME TypeOK, StallInv, OnlyTimeoutsServeOldSources, [Next]_vars,
                    NEW o \in Requests,
                    answer'[o] = "cache", o[2] \in Sources, fetched'[o] # "lost", ~timedOut'
             PROVE  FALSE
  BY DEF OnlyTimeoutsServeOldSources
<1>0. ~(answer[o] = "cache" /\ fetched[o] # "lost") \/ timedOut
  BY DEF OnlyTimeoutsServeOldSources
<1>a. o[2] \notin Vendor
  BY FileAssumption DEF FileAssumption
<1>1. ASSUME NEW r \in Requests, Asks(r) PROVE FALSE
  BY <1>0, <1>1 DEF Asks, TypeOK
<1>2. ASSUME NEW r \in Requests, InstallAdds(r) PROVE FALSE
  BY <1>0, <1>2 DEF InstallAdds, TypeOK
<1>3. ASSUME NEW r \in Requests, Matches(r) PROVE FALSE
  <2>1. timedOut' = timedOut
    BY <1>3 DEF Matches
  <2>2. CASE r # o
    <3>1. answer'[o] = answer[o] /\ fetched'[o] = fetched[o]
      BY <1>3, <2>2 DEF Matches, Settles, AnswerFrom, TypeOK
    <3> QED BY <1>0, <2>1, <3>1
  <2>3. CASE r = o
    <3>1. o[2] \notin Vendor
      BY <1>a
    <3>2. fetched' = fetched /\ fetched[o] # "lost"
      BY <1>3, <2>3, <3>1 DEF Matches
    <3>3. ~stalled
      BY <2>1 DEF StallInv
    <3>4. \/ fetched[o] = "arrived" /\ Settles(o, "arrived", CachedFor(o[2]))
          \/ \E source \in {"race", "network only"} : AnswerFrom(o, source, CachedFor(o[2]))
      BY <1>3, <2>3, <3>1, <3>2, <3>3 DEF Matches
    <3> QED BY <3>4, SettlesLeaves DEF AnswerFrom, TypeOK
  <2> QED BY <2>2, <2>3
<1>4. ASSUME NEW r \in Requests, TimesOut(r) PROVE FALSE
  BY <1>4 DEF TimesOut
<1>5. ASSUME NEW r \in Requests, Arrives(r) \/ Refused(r) \/ Rejects(r) PROVE FALSE
  BY <1>0, <1>5 DEF Arrives, Refused, Rejects, Over, Settles, AnswerFrom, TypeOK
<1>6. ASSUME NEW r \in Requests, Stores(r) \/ PutFails(r) PROVE FALSE
  BY <1>0, <1>6 DEF Stores, PutFails
<1>7. ASSUME NEW r \in Requests, ServerAnswers(r) PROVE FALSE
  BY <1>0, <1>7 DEF ServerAnswers, TypeOK
<1>8. CASE WindowEnds \/ Deploys \/ UNCHANGED vars
  BY <1>0, <1>8 DEF WindowEnds, Deploys, vars, requestVars
<1> QED BY <1>1, <1>2, <1>3, <1>4, <1>5, <1>6, <1>7, <1>8 DEF Next

-----------------------------------------------------------------------------
(* What the cache keeps *)

\* The steps of one request.
StepOf(r) ==
  \/ Asks(r) \/ InstallAdds(r) \/ Matches(r) \/ TimesOut(r)
  \/ Arrives(r) \/ Refused(r) \/ Rejects(r) \/ ServerAnswers(r)
  \/ Stores(r) \/ PutFails(r)

\* What one request does leaves the others alone.
LEMMA OthersStay ==
  ASSUME TypeOK, NEW q \in Requests, NEW r \in Requests, q # r, StepOf(q)
  PROVE  /\ fetched'[r] = fetched[r] /\ brings'[r] = brings[r] /\ put'[r] = put[r]
         /\ answer'[r] = answer[r] /\ copy'[r] = copy[r]
<1>1. CASE Asks(q) \/ InstallAdds(q) \/ ServerAnswers(q) \/ Stores(q) \/ PutFails(q)
  BY <1>1 DEF Asks, InstallAdds, ServerAnswers, Stores, PutFails, TypeOK
<1>2. CASE Matches(q) \/ TimesOut(q)
  BY <1>2 DEF Matches, TimesOut, Settles, AnswerFrom, TypeOK
<1>3. CASE Arrives(q) \/ Refused(q) \/ Rejects(q)
  BY <1>3 DEF Arrives, Refused, Rejects, Over, Settles, AnswerFrom, TypeOK
<1> QED BY <1>1, <1>2, <1>3 DEF StepOf

\* How far the fetch of a request gets in a step, and the storing of what it brings: what
\* has arrived neither changes nor is undone.
Gets(r) ==
  \/ fetched'[r] = fetched[r] /\ brings'[r] = brings[r] /\ put'[r] = put[r]
  \/ /\ fetched[r] \in {"no", "sent"} /\ fetched'[r] \in {"sent", "lost", "arrived"}
     /\ brings'[r] = brings[r] /\ put'[r] = put[r]
  \/ /\ fetched[r] = "sent" /\ fetched'[r] = "answered"
     /\ brings'[r] = deployed /\ put'[r] = put[r]
  \/ /\ fetched[r] = "answered" /\ fetched'[r] = "arrived"
     /\ brings'[r] = brings[r] /\ put'[r] = "pending"
  \/ /\ put[r] = "pending" /\ put'[r] = "failed"
     /\ fetched'[r] = fetched[r] /\ brings'[r] = brings[r]
  \/ /\ put[r] = "pending" /\ put'[r] = "done"
     /\ fetched'[r] = fetched[r] /\ brings'[r] = brings[r] /\ cache'[r[2]] = brings[r]

LEMMA GetsIs ==
  ASSUME TypeOK, UnaskedInv, [Next]_vars, NEW r \in Requests
  PROVE  Gets(r)
<1>0. r[2] \in Files /\ DOMAIN cache = Files
  BY RequestIs DEF TypeOK
<1>1. ASSUME NEW q \in Requests, q # r, StepOf(q) PROVE Gets(r)
  BY <1>1, OthersStay DEF Gets
<1>2. CASE Asks(r) \/ InstallAdds(r) \/ Matches(r) \/ TimesOut(r)
  BY <1>2 DEF Asks, InstallAdds, Matches, TimesOut, UnaskedInv, Gets, TypeOK
<1>3. CASE Arrives(r) \/ Refused(r) \/ Rejects(r)
  BY <1>3 DEF Arrives, Refused, Rejects, Over, Gets, TypeOK
<1>4. CASE ServerAnswers(r) \/ Stores(r) \/ PutFails(r)
  BY <1>0, <1>4 DEF ServerAnswers, Stores, PutFails, Gets, TypeOK
<1>5. CASE WindowEnds \/ Deploys \/ UNCHANGED vars
  BY <1>5 DEF WindowEnds, Deploys, vars, requestVars, Gets
<1> QED BY <1>1, <1>2, <1>3, <1>4, <1>5 DEF Next, StepOf

LEMMA UnaskedStep == TypeOK /\ UnaskedInv /\ [Next]_vars => UnaskedInv'
<1> SUFFICES ASSUME TypeOK, UnaskedInv, [Next]_vars, NEW r \in Requests
             PROVE  /\ answer'[r] = "match" => r \in Loads
                    /\ (r \in Loads /\ (answer'[r] = "unasked"
                                       \/ (answer'[r] = "match" /\ r[2] \in Vendor)))
                         => fetched'[r] = "no"
  BY DEF UnaskedInv
<1>0. ~(r[2] \in Sources /\ r[2] \in Vendor)
  BY FileAssumption DEF FileAssumption
<1>1. CASE answer'[r] = answer[r] /\ fetched'[r] = fetched[r]
  BY <1>1 DEF UnaskedInv
<1>2. ASSUME NEW q \in Requests, q # r, StepOf(q)
      PROVE  answer'[r] = answer[r] /\ fetched'[r] = fetched[r]
  BY <1>2, OthersStay
<1>3. CASE Asks(r)
  BY <1>0, <1>3 DEF Asks, UnaskedInv, TypeOK
<1>4. CASE InstallAdds(r)
  BY <1>4 DEF InstallAdds, UnaskedInv, TypeOK
<1>5. CASE Matches(r)
  <2>1. answer'[r] \notin {"unasked", "match"}
    BY <1>5 DEF Matches, Settles, AnswerFrom, TypeOK
  <2> QED BY <2>1
<1>6. CASE TimesOut(r)
  BY <1>6 DEF TimesOut, AnswerFrom, TypeOK
<1>7. CASE Arrives(r) \/ Refused(r) \/ Rejects(r)
  <2>1. /\ fetched[r] # "no"
        /\ answer'[r] = answer[r] \/ answer'[r] \notin {"unasked", "match"}
    BY <1>7 DEF Arrives, Refused, Rejects, Over, Settles, AnswerFrom, TypeOK
  <2> QED BY <2>1 DEF UnaskedInv
<1>8. CASE ServerAnswers(r)
  BY <1>8 DEF ServerAnswers, UnaskedInv
<1>9. CASE Stores(r) \/ PutFails(r) \/ WindowEnds \/ Deploys \/ UNCHANGED vars
  BY <1>1, <1>9 DEF Stores, PutFails, WindowEnds, Deploys, vars, requestVars
<1> QED BY <1>1, <1>2, <1>3, <1>4, <1>5, <1>6, <1>7, <1>8, <1>9 DEF Next, StepOf

LEMMA PutStep ==
  TypeOK /\ UnaskedInv /\ PutInv /\ BringsInv /\ [Next]_vars => PutInv' /\ BringsInv'
<1> SUFFICES ASSUME TypeOK, UnaskedInv, PutInv, BringsInv, [Next]_vars, NEW r \in Requests
             PROVE  /\ put'[r] # "no" => fetched'[r] = "arrived" /\ brings'[r] # 0
                    /\ fetched'[r] \in {"no", "sent"} => brings'[r] = 0
                    /\ fetched'[r] = "answered" => brings'[r] # 0
  BY DEF PutInv, BringsInv
<1>1. Gets(r)
  BY GetsIs
<1>2. deployed # 0
  <2>1. deployed \in 1 .. MaxBuild /\ MaxBuild \in Nat
    BY BuildAssumption DEF BuildAssumption, TypeOK
  <2> QED BY <2>1
<1> QED BY <1>1, <1>2 DEF Gets, PutInv, BringsInv

LEMMA OnlyStoringCaches ==
  ASSUME [Next]_vars, cache' # cache
  PROVE  \E q \in Requests : Stores(q)
BY DEF Next, vars, Asks, InstallAdds, Matches, TimesOut, Arrives, Refused, Rejects,
       ServerAnswers, PutFails, WindowEnds, Deploys

LEMMA KeptStep ==
  TypeOK /\ UnaskedInv /\ PutInv /\ BringsInv /\ FetchedIsKept /\ [Next]_vars => FetchedIsKept'
<1> SUFFICES ASSUME TypeOK, UnaskedInv, PutInv, BringsInv, FetchedIsKept, [Next]_vars,
                    NEW r \in Requests, fetched'[r] = "arrived", brings'[r] # 0,
                    put'[r] \notin {"pending", "failed"}
             PROVE  \E o \in Requests :
                      o[2] = r[2] /\ put'[o] = "done" /\ cache'[r[2]] = brings'[o]
  BY DEF FetchedIsKept
<1>0. r[2] \in Files /\ DOMAIN cache = Files
  BY RequestIs DEF TypeOK
<1>1. ASSUME NEW q \in Requests, Stores(q), q[2] = r[2]
      PROVE  q[2] = r[2] /\ put'[q] = "done" /\ cache'[r[2]] = brings'[q]
  BY <1>0, <1>1 DEF Stores, TypeOK
<1>2. CASE cache'[r[2]] = cache[r[2]] /\ ~\E q \in Requests : q[2] = r[2] /\ Stores(q)
  <2>1. Gets(r) /\ put'[r] # "failed" /\ put'[r] # "pending"
    BY GetsIs
  <2>2. put[r] = "pending" => put'[r] # "done"
    <3>1. ASSUME put[r] = "pending", put'[r] = "done" PROVE FALSE
      <4>1. put' # put
        BY <3>1
      <4>2. PICK q \in Requests : Stores(q)
        <5>1. \/ \E q \in Requests : Arrives(q)
              \/ \E q \in Requests : PutFails(q)
              \/ \E q \in Requests : Stores(q)
          BY <4>1 DEF Next, vars, requestVars, Asks, InstallAdds, Matches, TimesOut,
                      Refused, Rejects, ServerAnswers, WindowEnds, Deploys
        <5>2. ASSUME NEW q \in Requests, Arrives(q) \/ PutFails(q) PROVE FALSE
          BY <3>1, <5>2 DEF Arrives, PutFails, TypeOK
        <5> QED BY <5>1, <5>2
      <4>3. q = r
        BY <3>1, <4>2 DEF Stores, TypeOK
      <4> QED BY <1>2, <4>2, <4>3
    <3> QED BY <3>1
  <2>3. /\ fetched[r] = "arrived" /\ brings[r] # 0
        /\ put[r] \notin {"pending", "failed"}
    BY <2>1, <2>2 DEF Gets, BringsInv
  <2>4. PICK o \in Requests : o[2] = r[2] /\ put[o] = "done" /\ cache[r[2]] = brings[o]
    BY <2>3 DEF FetchedIsKept
  <2>5. fetched[o] = "arrived"
    BY <2>4 DEF PutInv
  <2>6. put'[o] = "done" /\ brings'[o] = brings[o]
    BY <2>4, <2>5, GetsIs DEF Gets
  <2> QED BY <1>2, <2>4, <2>6
<1>3. ASSUME NEW q \in Requests, Stores(q), q[2] # r[2]
      PROVE  cache'[r[2]] = cache[r[2]] /\ ~\E p \in Requests : p[2] = r[2] /\ Stores(p)
  <2>1. cache'[r[2]] = cache[r[2]]
    BY <1>0, <1>3 DEF Stores, TypeOK
  <2>2. ASSUME NEW p \in Requests, p[2] = r[2], Stores(p) PROVE FALSE
    BY <1>3, <2>2 DEF Stores, TypeOK
  <2> QED BY <2>1, <2>2
<1>4. CASE ~\E q \in Requests : Stores(q)
  <2>1. cache' = cache
    BY <1>4, OnlyStoringCaches
  <2> QED BY <1>2, <1>4, <2>1
<1> QED BY <1>1, <1>2, <1>3, <1>4

\* A step never loses the last copy of a file.
LEMMA OpenableStep ==
  TypeOK /\ PutInv /\ [Next]_vars => \A f \in Files : CachedFor(f) # 0 => CachedFor(f)' # 0
<1> SUFFICES ASSUME TypeOK, PutInv, [Next]_vars, NEW f \in Files, CachedFor(f) # 0
             PROVE  CachedFor(f)' # 0
  OBVIOUS
<1>1. Root \in Files
  BY FileAssumption DEF FileAssumption, Files
<1>2. \A g \in Files : cache[g] # 0 => cache'[g] # 0
  <2>1. CASE cache' = cache
    BY <2>1
  <2>2. ASSUME NEW q \in Requests, Stores(q)
        PROVE  \A g \in Files : cache[g] # 0 => cache'[g] # 0
    <3>1. brings[q] # 0
      BY <2>2 DEF Stores, PutInv
    <3> QED BY <2>2, <3>1 DEF Stores, TypeOK
  <2> QED BY <2>1, <2>2, OnlyStoringCaches
<1> QED BY <1>1, <1>2 DEF CachedFor

\* What a request with a copy at hand is settled with is its copy, or what the network
\* brought.
LEMMA SettledWithACopy ==
  ASSUME TypeOK, NEW r \in Requests, NEW outcome, NEW found \in Nat \ {0},
         Settles(r, outcome, found)
  PROVE  answer'[r] \in {"cache", "network"}
BY DEF Settles, AnswerFrom, TypeOK

LEMMA CopyStep ==
  ASSUME TypeOK, PutInv, [Next]_vars, NEW r \in Requests, CopyAtHand(r)
  PROVE  CopyAtHand(r)' \/ answer'[r] \in {"cache", "network"}
<1>1. CachedFor(r[2]) # 0 => CachedFor(r[2])' # 0
  BY RequestIs, OpenableStep
<1>2. CASE answer'[r] = answer[r] /\ copy'[r] = copy[r]
  BY <1>1, <1>2 DEF CopyAtHand
<1>3. ASSUME NEW q \in Requests, q # r, StepOf(q)
      PROVE  answer'[r] = answer[r] /\ copy'[r] = copy[r]
  BY <1>3, OthersStay
<1>4. ~Asks(r)
  BY DEF CopyAtHand, Asks
<1>5. CASE InstallAdds(r) \/ ServerAnswers(r) \/ Stores(r) \/ PutFails(r)
  BY <1>2, <1>5 DEF InstallAdds, ServerAnswers, Stores, PutFails
<1>6. CASE Matches(r)
  <2> DEFINE found == CachedFor(r[2])
  <2>1. found \in Nat \ {0}
    BY <1>6, RequestIs, CachedIs, BuildAssumption DEF CopyAtHand, Matches, BuildAssumption
  <2>2. \/ AnswerFrom(r, "cache", found) \/ AnswerFrom(r, "race", found)
        \/ Settles(r, fetched[r], found)
    BY <1>6, <2>1 DEF Matches
  <2>3. CASE AnswerFrom(r, "cache", found) \/ AnswerFrom(r, "race", found)
    BY <2>1, <2>3 DEF AnswerFrom, CopyAtHand, TypeOK
  <2>4. CASE Settles(r, fetched[r], found)
    BY <2>1, <2>4, SettledWithACopy
  <2> QED BY <2>2, <2>3, <2>4
<1>7. CASE TimesOut(r)
  BY <1>7 DEF TimesOut, AnswerFrom, TypeOK
<1>8. ASSUME NEW outcome, Over(r, outcome)
      PROVE  \/ answer'[r] = answer[r] /\ copy'[r] = copy[r]
             \/ answer'[r] \in {"cache", "network"}
  <2>1. CASE answer[r] = "race"
    <3>1. copy[r] # 0
      BY <2>1 DEF CopyAtHand
    <3>2. copy[r] \in 0 .. MaxBuild
      BY DEF TypeOK
    <3>3. copy[r] \in Nat \ {0}
      BY <3>1, <3>2
    <3> QED BY <1>8, <2>1, <3>3, SettledWithACopy DEF Over
  <2>2. CASE answer[r] = "match"
    BY <1>8, <2>2 DEF Over
  <2> QED BY <2>1, <2>2 DEF CopyAtHand
<1>9. CASE Arrives(r) \/ Refused(r) \/ Rejects(r)
  BY <1>2, <1>8, <1>9 DEF Arrives, Refused, Rejects
<1>10. CASE WindowEnds \/ Deploys \/ UNCHANGED vars
  BY <1>2, <1>10 DEF WindowEnds, Deploys, vars, requestVars
<1> QED BY <1>2, <1>3, <1>4, <1>5, <1>6, <1>7, <1>9, <1>10 DEF Next, StepOf

-----------------------------------------------------------------------------
(* Theorems *)

LEMMA InitShell == Init => ShellInv
<1> SUFFICES ASSUME Init PROVE ShellInv
  OBVIOUS
<1>1. 0 .. 1 \subseteq 0 .. MaxBuild /\ 1 \in 1 .. MaxBuild /\ 0 \in 0 .. MaxBuild
  BY BuildAssumption DEF BuildAssumption
<1>2. TypeOK
  BY <1>1 DEF Init, TypeOK
<1>3. UnaskedInv /\ PutInv /\ BringsInv
  BY DEF Init, UnaskedInv, PutInv, BringsInv
<1> QED BY <1>2, <1>3 DEF Init, ShellInv, StallInv, OnlyTimeoutsServeOldSources, FetchedIsKept

THEOREM ShellInvariant == SafeSpec => []ShellInv
<1>1. ShellInv /\ [Next]_vars => ShellInv'
  BY TypeStep, StallStep, UnaskedStep, PutStep, SourcesStep, KeptStep DEF ShellInv
<1> QED BY InitShell, <1>1, PTL DEF SafeSpec

\* Whatever the network does, every copy and every answer is a build that was deployed
\* (sw.js:116-185).
THEOREM TypeSafety == SafeSpec => []TypeOK
<1>1. ShellInv => TypeOK
  BY DEF ShellInv
<1> QED BY ShellInvariant, <1>1, PTL

\* Only a deadline makes the worker answer a source from the cache while its fetch may
\* still succeed (sw.js:73).
THEOREM OnlyTimeoutsEverServeOldSources == SafeSpec => []OnlyTimeoutsServeOldSources
<1>1. ShellInv => OnlyTimeoutsServeOldSources
  BY DEF ShellInv
<1> QED BY ShellInvariant, <1>1, PTL

\* What a fetch brings is cached, whoever was answered with it, unless storing it goes on
\* or has failed; only another fetch of the file takes its place (sw.js:134, 140, 179).
THEOREM FetchedIsAlwaysKept == SafeSpec => []FetchedIsKept
<1>1. ShellInv => FetchedIsKept
  BY DEF ShellInv
<1> QED BY ShellInvariant, <1>1, PTL

\* What could be opened without a network still can (sw.js:140, 145-148).
THEOREM AlwaysStaysOpenable == SafeSpec => StaysOpenable
<1>1. ShellInv /\ [Next]_vars => [\A f \in Files : CachedFor(f) # 0 => CachedFor(f)' # 0]_vars
  BY OpenableStep DEF ShellInv
<1> QED BY ShellInvariant, <1>1, PTL DEF SafeSpec, StaysOpenable

\* A request that waits with a copy at hand is answered with it or with what the network
\* brings, and waits for nothing else (sw.js:150-165).
THEOREM CopyAlwaysStaysAtHand == SafeSpec => CopyStaysAtHand
<1>1. ShellInv /\ [Next]_vars =>
        [\A r \in Requests :
           CopyAtHand(r) => CopyAtHand(r)' \/ answer'[r] \in {"cache", "network"}]_vars
  BY CopyStep DEF ShellInv
<1> QED BY ShellInvariant, <1>1, PTL DEF SafeSpec, CopyStaysAtHand
=============================================================================
