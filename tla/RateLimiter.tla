---------------------------- MODULE RateLimiter -----------------------------
(***************************************************************************)
(* The relay's fixed-window counters (server.js, rateLimited and the       *)
(* sweep): one entry for each bucket, which is a kind of request and the   *)
(* address it comes from.  A bucket's limit and window never change.       *)
(*                                                                         *)
(* Time is Date.now() in ticks, and does not go back; MaxTime bounds the   *)
(* model.  accepted is history, for the properties only.                   *)
(***************************************************************************)
EXTENDS Naturals, Sequences

CONSTANTS Buckets, NoEntry, Limit, Window,
          Longest,  \* the longest of the windows, which the sweep goes by
          MaxTime

ASSUME LimitAssumption == Limit \in [Buckets -> Nat \ {0}]
ASSUME WindowAssumption ==
  /\ Window \in [Buckets -> Nat \ {0}]
  /\ Longest \in Nat /\ \A b \in Buckets : Window[b] <= Longest
ASSUME TimeAssumption == MaxTime \in Nat

Times == 0 .. MaxTime
Entry == [start : Times, count : Nat \ {0}]

ASSUME EntryAssumption == NoEntry \notin Entry

VARIABLES
  now,
  rateBuckets,  \* bucket -> its entry, or NoEntry
  accepted      \* bucket -> the times of the calls let through, in their order

limiterVars == <<now, rateBuckets, accepted>>

LimiterTypeOK ==
  /\ now \in Times
  /\ rateBuckets \in [Buckets -> Entry \cup {NoEntry}]
  /\ \A b \in Buckets : rateBuckets[b] # NoEntry => rateBuckets[b].count <= Limit[b] + 1
  /\ accepted \in [Buckets -> Seq(Times)]

LimiterInit ==
  /\ now = 0
  /\ rateBuckets = [b \in Buckets |-> NoEntry]
  /\ accepted = [b \in Buckets |-> <<>>]

-----------------------------------------------------------------------------
Age(b) == now - rateBuckets[b].start

SlipRollsOver(b) == rateBuckets[b] = NoEntry \/ Age(b) > Window[b]

\* The first call of a window.
RollsOver(b) == rateBuckets[b] = NoEntry \/ Age(b) >= Window[b]

\* Past the ceiling the counter stands still.
CountedUp(entry, b) ==
  IF entry.count > Limit[b] THEN entry ELSE [entry EXCEPT !.count = @ + 1]

EntryAfter(b) ==
  IF RollsOver(b) THEN [start |-> now, count |-> 1] ELSE CountedUp(rateBuckets[b], b)

\* What rateLimited answers.
Limited(b) == EntryAfter(b).count > Limit[b]

RateLimited(b) ==
  /\ rateBuckets' = [rateBuckets EXCEPT ![b] = EntryAfter(b)]
  /\ accepted' = IF Limited(b) THEN accepted ELSE [accepted EXCEPT ![b] = Append(@, now)]
  /\ UNCHANGED now

SlipStale(b) == rateBuckets[b] # NoEntry /\ Age(b) < Longest

\* The sweep drops entries older than any window.
Stale(b) == rateBuckets[b] # NoEntry /\ Age(b) > Longest

Sweep ==
  /\ rateBuckets' = [b \in Buckets |-> IF Stale(b) THEN NoEntry ELSE rateBuckets[b]]
  /\ UNCHANGED <<now, accepted>>

Tick ==
  /\ now < MaxTime
  /\ now' = now + 1
  /\ UNCHANGED <<rateBuckets, accepted>>

LimiterNext == Tick \/ Sweep \/ \E b \in Buckets : RateLimited(b)

LimiterSpec == LimiterInit /\ [][LimiterNext]_limiterVars

-----------------------------------------------------------------------------
\* Within a bucket's window at most twice its limit is let through, "a factor of two
\* on a flood ceiling" (server.js:421-424), and no sweep makes it more: of the calls let
\* through, any that come less than a window apart have fewer than that between them.
AtMostTwiceTheLimit ==
  \A b \in Buckets : \A i, j \in DOMAIN accepted[b] :
    accepted[b][j] < accepted[b][i] + Window[b] => j - i < 2 * Limit[b]

\* A caller is refused only on account of a full limit let through within the last
\* window: calls that were themselves refused never prolong it (server.js:414-417).
RefusalIsEarned ==
  [][\A b \in Buckets : RateLimited(b) /\ Limited(b) =>
       \E i \in DOMAIN accepted[b] :
         /\ Len(accepted[b]) - i + 1 >= Limit[b]
         /\ \A j \in i .. Len(accepted[b]) : accepted[b][j] + Window[b] > now]_limiterVars
=============================================================================
