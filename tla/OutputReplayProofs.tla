-------------------------- MODULE OutputReplayProofs --------------------------
(***************************************************************************)
(* Theorems about OutputReplay, for any bounds: live output is drawn in    *)
(* order; in the CLI's first life every hole is marked, and a synchronised *)
(* line that has fallen quiet is complete.                                 *)
(*                                                                         *)
(* The frames under way, from the handler over the inbox to the wire, are  *)
(* in the order the CLI sent them (OrderInv), and none is behind what has  *)
(* been taken up (FrameInv, BehindInv).  A sync_complete raises lastSeq    *)
(* over what the batch before it holds, so it must come behind that batch  *)
(* (FollowInv) and find it handled (CoverInv).  And what is under way to a *)
(* seated phone goes on, without a hole, from what it has heard to the     *)
(* last chunk (EndInv): what of that lies beyond lastSeq does not decrypt. *)
(***************************************************************************)
EXTENDS OutputReplay, Integers, TLAPS

\* The number a frame leaves lastSeq at, if it was not beyond it.
Top(f) == IF f.type = "sync_complete" THEN f.currentSeq ELSE f.hi

LiveBefore(a, b) ==
  a.type = "output" /\ b.type = "output" =>
    a.life < b.life \/ (a.life = b.life /\ a.lo < b.lo)

TopBefore(a, b) == IF b.type = "output" THEN Top(a) < Top(b) ELSE Top(a) <= Top(b)

\* In the CLI's life l, frame a was sent before b.
Precedes(l, a, b) == LiveBefore(a, b) /\ (l = 1 => TopBefore(a, b))

Sorted(l, s) == \A i, j \in DOMAIN s : i < j => Precedes(l, s[i], s[j])
Ahead(l, s, t) == \A i \in DOMAIN s, j \in DOMAIN t : Precedes(l, s[i], t[j])

\* A live frame, with n the newest drawn and p the last produced.
LiveIs(l, p, n, f) ==
  f.type = "output" =>
    /\ f.lo = f.hi
    /\ f.life < l \/ (f.life = l /\ f.lo <= p)
    /\ n[1] < f.life \/ (n[1] = f.life /\ n[2] < f.lo)

\* A frame of the first life, with q the client's lastSeq.
FirstIs(p, q, f) ==
  /\ f.type # "cli_reconnected"
  /\ f.type # "sync_complete" => f.life = 1
  /\ q <= Top(f) /\ Top(f) <= p
  /\ f.type = "output" => q < f.lo
  /\ f.type = "catchup_batch" /\ f.lo > f.hi => f.hi <= q

Fine(l, p, q, n, s) ==
  \A i \in DOMAIN s : LiveIs(l, p, n, s[i]) /\ (l = 1 => FirstIs(p, q, s[i]))

OrderInv ==
  /\ Sorted(life, received) /\ Sorted(life, uplink)
  /\ Ahead(life, handlers, received) /\ Ahead(life, handlers, uplink)
  /\ Ahead(life, received, uplink)

FrameInv ==
  /\ Fine(life, produced, lastSeq, newest, handlers)
  /\ Fine(life, produced, lastSeq, newest, received)
  /\ Fine(life, produced, lastSeq, newest, uplink)
  /\ newest[1] < life \/ (newest[1] = life /\ newest[2] <= produced)

\* The handlers are one at a time.
OneHandler ==
  /\ Len(handlers) <= 1
  /\ \A i \in DOMAIN handlers : handlers[i].type \in {"output", "catchup_batch"}

\* In the first life, what is asked for and drawn is not beyond lastSeq.
BehindInv ==
  life = 1 =>
    /\ lastSeq <= produced
    /\ \A i \in DOMAIN requests : requests[i] <= lastSeq
    /\ \A t \in Seqs : <<1, t>> \in drawn => t <= lastSeq

QueueInv == OneHandler /\ OrderInv /\ FrameInv /\ BehindInv

\* What is accounted for, or cannot be decrypted.
Known == Accounted \cup garbled

\* Every chunk up to n is known, or is before the first drawn.
Covers(accounted, shown, n) ==
  \A s \in 1 .. n : <<1, s>> \in accounted \/ \A t \in 1 .. s : <<1, t>> \notin shown

CoveredTo(n) == Covers(Known, drawn, n)

Answers(b, f) == b.type = "catchup_batch" /\ b.hi = f.currentSeq

\* The batch before a sync_complete has been taken up.
BatchTaken(n) ==
  CoveredTo(n)
  /\ \A i \in DOMAIN handlers : handlers[i].type = "catchup_batch" /\ handlers[i].hi = n

SyncFollows(s) ==
  \A k \in DOMAIN s :
    k > 1 /\ s[k].type = "sync_complete" => Answers(s[k - 1], s[k])

\* What a seated phone last got is the batch, if the wire has its sync_complete next.
SyncIsNext == uplink # <<>> /\ uplink[1].type = "sync_complete"

BatchIsLast ==
  seated /\ SyncIsNext /\ received # <<>> => Answers(received[Len(received)], uplink[1])

SyncNext ==
  /\ received # <<>> /\ received[1].type = "sync_complete" => BatchTaken(received[1].currentSeq)
  /\ seated /\ SyncIsNext /\ received = <<>> => BatchTaken(uplink[1].currentSeq)

FollowInv == life = 1 => SyncFollows(uplink) /\ SyncFollows(received) /\ BatchIsLast

CoverInv ==
  life = 1 /\ ~parted =>
    /\ CoveredTo(lastSeq)
    /\ \A i \in DOMAIN handlers :
         handlers[i].type = "catchup_batch" => CoveredTo(handlers[i].hi)
    /\ SyncNext

\* No frame is more than one chunk further than the one before it.
StepsUp(s) == \A k \in DOMAIN s : k > 1 => Top(s[k]) <= Top(s[k - 1]) + 1

\* How far what has left the inbox of a seated phone goes.
Passed(r, u, p) ==
  IF r # <<>> THEN Top(r[1]) - 1 ELSE IF u # <<>> THEN Top(u[1]) - 1 ELSE p

\* Beyond q and up to n there are only chunks that do not decrypt.
HeardTo(g, q, n) == \A s \in Seqs : q < s /\ s <= n => <<1, s>> \in g

Heard(n) == HeardTo(garbled, lastSeq, n)

\* What is under way to a phone in its seat goes on from what it has heard, and up to the
\* last chunk.
EndInv ==
  life = 1 =>
    /\ uplink # <<>> => Top(uplink[Len(uplink)]) = produced
    /\ StepsUp(uplink)
    /\ seated =>
         /\ uplink = <<>> /\ received # <<>> => Top(received[Len(received)]) = produced
         /\ StepsUp(received)
         /\ received # <<>> /\ uplink # <<>> =>
              Top(uplink[1]) <= Top(received[Len(received)]) + 1
         /\ synced =>
              IF handlers # <<>>
              THEN /\ Passed(received, uplink, produced) <= Top(handlers[1])
                   /\ Heard(Top(handlers[1]) - 1)
              ELSE Heard(Passed(received, uplink, produced))

ReplayInv == TypeOK /\ QueueInv /\ FollowInv /\ CoverInv /\ EndInv

-----------------------------------------------------------------------------
(* Sequences *)

LEMMA EmptyIs ==
  /\ \A S : <<>> \in Seq(S)
  /\ Len(<<>>) = 0 /\ DOMAIN <<>> = {}
  /\ \A S : \A s \in Seq(S) : s # <<>> <=> Len(s) > 0
OBVIOUS

LEMMA AppendIs ==
  ASSUME NEW S, NEW s \in Seq(S), NEW e \in S
  PROVE  /\ Append(s, e) \in Seq(S) /\ Append(s, e) # <<>>
         /\ Len(Append(s, e)) = Len(s) + 1 /\ DOMAIN Append(s, e) = 1 .. Len(s) + 1
         /\ DOMAIN s = 1 .. Len(s) /\ Len(s) \in Nat
         /\ \A i \in 1 .. Len(s) : Append(s, e)[i] = s[i]
         /\ Append(s, e)[Len(s) + 1] = e
<1>1. Append(s, e) \in Seq(S) /\ Len(Append(s, e)) = Len(s) + 1 /\ Len(s) \in Nat
  OBVIOUS
<1>2. Append(s, e) # <<>>
  <2>1. Len(<<>>) = 0
    OBVIOUS
  <2> QED BY <1>1, <2>1
<1> QED BY <1>1, <1>2

LEMMA TailIs ==
  ASSUME NEW S, NEW s \in Seq(S), s # <<>>
  PROVE  /\ Tail(s) \in Seq(S) /\ Head(s) = s[1] /\ s[1] \in S
         /\ Len(s) \in Nat /\ Len(s) > 0 /\ DOMAIN s = 1 .. Len(s)
         /\ Len(Tail(s)) = Len(s) - 1 /\ DOMAIN Tail(s) = 1 .. Len(s) - 1
         /\ \A i \in 1 .. Len(s) - 1 : Tail(s)[i] = s[i + 1]
         /\ Tail(s) = <<>> => Len(s) = 1
<1>1. Len(s) \in Nat /\ Len(s) > 0
  OBVIOUS
<1>2. Tail(s) \in Seq(S) /\ Len(Tail(s)) = Len(s) - 1
  BY <1>1
<1>3. \A i \in 1 .. Len(s) - 1 : Tail(s)[i] = s[i + 1]
  BY <1>1
<1>4. \A u \in Seq(S), n \in Nat : Len(u) = n /\ u = <<>> => n = 0
  BY EmptyIs
<1>5. Len(s) - 1 \in Nat
  BY <1>1
<1>6. Tail(s) = <<>> => Len(s) - 1 = 0
  BY <1>2, <1>4, <1>5, Zenon
<1>7. Tail(s) = <<>> => Len(s) = 1
  BY <1>1, <1>6
<1> QED BY <1>1, <1>2, <1>3, <1>7

\* Two more at the end.
LEMMA TwoMoreIs ==
  ASSUME NEW S, NEW s \in Seq(S), NEW a \in S, NEW b \in S
  PROVE  /\ s \o <<a, b>> \in Seq(S) /\ s \o <<a, b>> # <<>> /\ Len(s) \in Nat
         /\ Len(s \o <<a, b>>) = Len(s) + 2 /\ DOMAIN (s \o <<a, b>>) = 1 .. Len(s) + 2
         /\ DOMAIN s = 1 .. Len(s)
         /\ \A i \in 1 .. Len(s) : (s \o <<a, b>>)[i] = s[i]
         /\ (s \o <<a, b>>)[Len(s) + 1] = a /\ (s \o <<a, b>>)[Len(s) + 2] = b
<1>1. <<a, b>> \in Seq(S) /\ Len(<<a, b>>) = 2
  OBVIOUS
<1>2. s \o <<a, b>> \in Seq(S) /\ Len(s \o <<a, b>>) = Len(s) + 2 /\ Len(s) \in Nat
  BY <1>1
<1>3. s \o <<a, b>> # <<>>
  <2>1. Len(<<>>) = 0
    OBVIOUS
  <2> QED BY <1>2, <2>1
<1> QED BY <1>1, <1>2, <1>3

LEMMA PrefixIs ==
  ASSUME NEW S, NEW s \in Seq(S), NEW n \in 0 .. Len(s)
  PROVE  /\ SubSeq(s, 1, n) \in Seq(S) /\ Len(SubSeq(s, 1, n)) = n
         /\ Len(s) \in Nat /\ DOMAIN s = 1 .. Len(s) /\ DOMAIN SubSeq(s, 1, n) = 1 .. n
         /\ \A i \in 1 .. n : SubSeq(s, 1, n)[i] = s[i]
OBVIOUS

LEMMA SingleIs ==
  ASSUME NEW S, NEW e \in S
  PROVE  /\ Append(<<>>, e) \in Seq(S) /\ Len(Append(<<>>, e)) = 1
         /\ DOMAIN Append(<<>>, e) = {1} /\ Append(<<>>, e)[1] = e /\ Append(<<>>, e) # <<>>
<1>1. <<>> \in Seq(S) /\ Len(<<>>) = 0
  OBVIOUS
<1> QED BY <1>1, AppendIs

\* The one handler is done.
LEMMA DoneIs ==
  ASSUME NEW S, NEW s \in Seq(S), Len(s) <= 1, NEW i \in DOMAIN s
  PROVE  /\ i = 1 /\ Len(s) = 1 /\ s # <<>> /\ s[1] \in S
         /\ SubSeq(s, 1, i - 1) \o SubSeq(s, i + 1, Len(s)) = <<>>
<1>1. i = 1 /\ Len(s) = 1 /\ s[1] \in S
  OBVIOUS
<1>2. SubSeq(s, 1, 0) = <<>> /\ SubSeq(s, 2, 1) = <<>>
  OBVIOUS
<1>3. <<>> \o <<>> = <<>>
  OBVIOUS
<1>4. s # <<>>
  BY <1>1, EmptyIs
<1> QED BY <1>1, <1>2, <1>3, <1>4

-----------------------------------------------------------------------------
(* Types *)

LEMMA BoundsAre ==
  /\ MaxSeq \in Nat \ {0} /\ MaxLives \in Nat \ {0} /\ MaxDrops \in Nat \ {0}
  /\ MaxFlight \in Nat \ {0} /\ Replay \in Nat \ {0} /\ MaxGarbled \in Nat
BY BoundAssumption DEF BoundAssumption

LEMMA FrameIs ==
  ASSUME NEW f \in Frames
  PROVE  /\ f.type \in {"output", "catchup_batch", "sync_complete", "cli_reconnected"}
         /\ f.type \in {"output", "catchup_batch"} =>
              f.life \in 1 .. MaxLives /\ f.lo \in 1 .. MaxSeq + 1 /\ f.hi \in 0 .. MaxSeq
         /\ f.type = "sync_complete" => f.currentSeq \in 0 .. MaxSeq
BY DEF Frames

LEMMA TopType ==
  ASSUME NEW f \in Frames, f.type # "cli_reconnected"
  PROVE  Top(f) \in 0 .. MaxSeq
BY FrameIs DEF Top

LEMMA SentType ==
  ASSUME TypeOK
  PROVE  /\ produced < MaxSeq => [type |-> "output", life |-> life, lo |-> produced + 1,
                                  hi |-> produced + 1] \in Frames
         /\ \A n \in 1 .. MaxSeq + 1 :
              [type |-> "catchup_batch", life |-> life, lo |-> n, hi |-> produced] \in Frames
         /\ [type |-> "sync_complete", currentSeq |-> produced] \in Frames
         /\ [type |-> "cli_reconnected"] \in Frames
BY BoundsAre DEF TypeOK, Frames

\* What the CLI answers a request with.
Evicted == IF produced > Replay THEN produced - Replay ELSE 0
Batch == [type |-> "catchup_batch", life |-> life,
          lo |-> Greater(Head(requests), Evicted) + 1, hi |-> produced]
Sync == [type |-> "sync_complete", currentSeq |-> produced]

LEMMA AnswerType ==
  ASSUME TypeOK, CliAnswers
  PROVE  /\ requests[1] \in 0 .. MaxSeq /\ Head(requests) = requests[1]
         /\ Batch \in Frames /\ Sync \in Frames
         /\ uplink' = uplink \o <<Batch, Sync>>
         /\ Batch.lo > produced => requests[1] >= produced
<1>1. requests # <<>> /\ requests \in Seq(0 .. MaxSeq)
  BY DEF CliAnswers, TypeOK
<1>2. requests[1] \in 0 .. MaxSeq /\ Head(requests) = requests[1]
  BY <1>1, TailIs
<1>3. Evicted \in 0 .. MaxSeq /\ (produced > 0 => Evicted < produced) /\ Evicted <= produced
  BY BoundsAre DEF Evicted, TypeOK
<1>4. Greater(Head(requests), Evicted) + 1 \in 1 .. MaxSeq + 1
  BY <1>2, <1>3, BoundsAre DEF Greater
<1>5. Batch \in Frames /\ Sync \in Frames
  BY <1>4, SentType DEF Batch, Sync
<1>6. Batch.lo = Greater(requests[1], Evicted) + 1 /\ produced \in Nat
  BY <1>2, BoundsAre DEF Batch, TypeOK
<1>7. Batch.lo > produced => requests[1] >= produced
  BY <1>2, <1>3, <1>6, BoundsAre DEF Greater
<1> QED BY <1>2, <1>5, <1>7 DEF CliAnswers, Batch, Sync, Evicted

-----------------------------------------------------------------------------
(* The order of frames *)

LEMMA OrderGrows ==
  ASSUME NEW l, NEW s \in Seq(Frames), NEW t \in Seq(Frames), NEW e \in Frames,
         \A i \in DOMAIN s : Precedes(l, s[i], e)
  PROVE  /\ Sorted(l, s) => Sorted(l, Append(s, e))
         /\ Ahead(l, s, t) => Ahead(l, s, Append(t, e))
<1>1. Sorted(l, s) => Sorted(l, Append(s, e))
  BY AppendIs DEF Sorted
<1>2. Ahead(l, s, t) => Ahead(l, s, Append(t, e))
  <2>1. DOMAIN Append(t, e) = 1 .. Len(t) + 1 /\ DOMAIN t = 1 .. Len(t) /\ Len(t) \in Nat
        /\ (\A i \in 1 .. Len(t) : Append(t, e)[i] = t[i]) /\ Append(t, e)[Len(t) + 1] = e
    BY AppendIs
  <2> QED BY <2>1 DEF Ahead
<1> QED BY <1>1, <1>2

LEMMA AheadGrows ==
  ASSUME NEW l, NEW s \in Seq(Frames), NEW t \in Seq(Frames), NEW e \in Frames,
         Ahead(l, s, t), \A j \in DOMAIN t : Precedes(l, e, t[j])
  PROVE  Ahead(l, Append(s, e), t)
<1>1. DOMAIN Append(s, e) = 1 .. Len(s) + 1 /\ DOMAIN s = 1 .. Len(s) /\ Len(s) \in Nat
      /\ (\A i \in 1 .. Len(s) : Append(s, e)[i] = s[i]) /\ Append(s, e)[Len(s) + 1] = e
  BY AppendIs
<1> QED BY <1>1 DEF Ahead

LEMMA TailOrder ==
  ASSUME NEW l, NEW s \in Seq(Frames), s # <<>>, NEW t \in Seq(Frames)
  PROVE  /\ Sorted(l, s) =>
              Sorted(l, Tail(s)) /\ \A j \in DOMAIN Tail(s) : Precedes(l, s[1], Tail(s)[j])
         /\ Ahead(l, s, t) =>
              Ahead(l, Tail(s), t) /\ \A j \in DOMAIN t : Precedes(l, s[1], t[j])
         /\ Ahead(l, t, s) =>
              Ahead(l, t, Tail(s)) /\ \A i \in DOMAIN t : Precedes(l, t[i], s[1])
<1>1. /\ Len(s) \in Nat /\ Len(s) > 0 /\ DOMAIN s = 1 .. Len(s)
      /\ DOMAIN Tail(s) = 1 .. Len(s) - 1
      /\ \A i \in 1 .. Len(s) - 1 : Tail(s)[i] = s[i + 1]
  BY TailIs
<1>2. \A i \in DOMAIN Tail(s) : i + 1 \in DOMAIN s /\ Tail(s)[i] = s[i + 1] /\ i + 1 > 1
  BY <1>1
<1>3. Sorted(l, s) => Sorted(l, Tail(s))
  BY <1>1, <1>2 DEF Sorted
<1>4. Sorted(l, s) => \A j \in DOMAIN Tail(s) : Precedes(l, s[1], Tail(s)[j])
  BY <1>1, <1>2 DEF Sorted
<1>5. 1 \in DOMAIN s
  BY <1>1
<1>6. Ahead(l, s, t) => Ahead(l, Tail(s), t) /\ \A j \in DOMAIN t : Precedes(l, s[1], t[j])
  BY <1>2, <1>5 DEF Ahead
<1>7. Ahead(l, t, s) => Ahead(l, t, Tail(s)) /\ \A i \in DOMAIN t : Precedes(l, t[i], s[1])
  BY <1>2, <1>5 DEF Ahead
<1> QED BY <1>3, <1>4, <1>6, <1>7

LEMMA PrefixOrder ==
  ASSUME NEW l, NEW s \in Seq(Frames), NEW n \in 0 .. Len(s), NEW t \in Seq(Frames)
  PROVE  /\ Sorted(l, s) => Sorted(l, SubSeq(s, 1, n))
         /\ Ahead(l, s, t) => Ahead(l, SubSeq(s, 1, n), t)
         /\ Ahead(l, t, s) => Ahead(l, t, SubSeq(s, 1, n))
<1>1. \A i \in DOMAIN SubSeq(s, 1, n) : i \in DOMAIN s /\ SubSeq(s, 1, n)[i] = s[i]
  BY PrefixIs
<1>2. Sorted(l, s) => Sorted(l, SubSeq(s, 1, n))
  BY <1>1 DEF Sorted
<1> QED BY <1>1, <1>2 DEF Ahead

LEMMA EmptyOrder ==
  ASSUME NEW l, NEW s
  PROVE  Sorted(l, <<>>) /\ Ahead(l, s, <<>>) /\ Ahead(l, <<>>, s)
BY EmptyIs DEF Sorted, Ahead

\* Frames of earlier lives stay in order.
LEMMA LaterOrder ==
  ASSUME NEW l, NEW m, m # 1, NEW s, NEW t
  PROVE  (Sorted(l, s) => Sorted(m, s)) /\ (Ahead(l, s, t) => Ahead(m, s, t))
BY DEF Sorted, Ahead, Precedes

LEMMA FineGrows ==
  ASSUME NEW l, NEW p, NEW q, NEW n, NEW s \in Seq(Frames), NEW e \in Frames,
         Fine(l, p, q, n, s), LiveIs(l, p, n, e), l = 1 => FirstIs(p, q, e)
  PROVE  Fine(l, p, q, n, Append(s, e))
<1>1. DOMAIN Append(s, e) = 1 .. Len(s) + 1 /\ DOMAIN s = 1 .. Len(s) /\ Len(s) \in Nat
      /\ (\A i \in 1 .. Len(s) : Append(s, e)[i] = s[i]) /\ Append(s, e)[Len(s) + 1] = e
  BY AppendIs
<1> QED BY <1>1 DEF Fine

LEMMA TailFine ==
  ASSUME NEW l, NEW p, NEW q, NEW n, NEW s \in Seq(Frames), s # <<>>, Fine(l, p, q, n, s)
  PROVE  /\ Fine(l, p, q, n, Tail(s)) /\ LiveIs(l, p, n, s[1])
         /\ l = 1 => FirstIs(p, q, s[1])
<1>1. /\ Len(s) \in Nat /\ Len(s) > 0 /\ DOMAIN s = 1 .. Len(s)
      /\ DOMAIN Tail(s) = 1 .. Len(s) - 1
      /\ \A i \in 1 .. Len(s) - 1 : Tail(s)[i] = s[i + 1]
  BY TailIs
<1>2. 1 \in DOMAIN s /\ \A i \in DOMAIN Tail(s) : i + 1 \in DOMAIN s /\ Tail(s)[i] = s[i + 1]
  BY <1>1
<1> QED BY <1>2 DEF Fine

LEMMA PrefixFine ==
  ASSUME NEW l, NEW p, NEW q, NEW n, NEW s \in Seq(Frames), NEW m \in 0 .. Len(s),
         Fine(l, p, q, n, s)
  PROVE  Fine(l, p, q, n, SubSeq(s, 1, m))
<1>1. \A i \in DOMAIN SubSeq(s, 1, m) : i \in DOMAIN s /\ SubSeq(s, 1, m)[i] = s[i]
  BY PrefixIs
<1> QED BY <1>1 DEF Fine

-----------------------------------------------------------------------------
(* A step keeps the types *)

\* What the one handler holds.
LEMMA HandlerIs ==
  ASSUME TypeOK, QueueInv, NEW i \in DOMAIN handlers
  PROVE  LET f == handlers[1]
         IN /\ i = 1 /\ handlers # <<>> /\ f \in Frames
            /\ SubSeq(handlers, 1, i - 1) \o SubSeq(handlers, i + 1, Len(handlers)) = <<>>
            /\ DOMAIN handlers = {1} /\ f.type \in {"output", "catchup_batch"}
            /\ f.life \in 1 .. MaxLives /\ f.lo \in 1 .. MaxSeq + 1 /\ f.hi \in 0 .. MaxSeq
            /\ LiveIs(life, produced, newest, f)
            /\ life = 1 => FirstIs(produced, lastSeq, f)
<1>1. handlers \in Seq(Frames) /\ Len(handlers) <= 1
  BY DEF TypeOK, QueueInv, OneHandler
<1>2. /\ i = 1 /\ Len(handlers) = 1 /\ handlers # <<>> /\ handlers[1] \in Frames
      /\ SubSeq(handlers, 1, i - 1) \o SubSeq(handlers, i + 1, Len(handlers)) = <<>>
  BY <1>1, DoneIs
<1>3. DOMAIN handlers = {1}
  BY <1>1, <1>2
<1>4. handlers[1].type \in {"output", "catchup_batch"}
  BY <1>3 DEF QueueInv, OneHandler
<1>5. LiveIs(life, produced, newest, handlers[1])
      /\ (life = 1 => FirstIs(produced, lastSeq, handlers[1]))
  BY <1>3 DEF QueueInv, FrameInv, Fine
<1> QED BY <1>2, <1>3, <1>4, <1>5, FrameIs

\* What a frame carries, and what of it can be read.
LEMMA TextIs ==
  ASSUME NEW f, f.life \in 1 .. MaxLives, f.lo \in 1 .. MaxSeq + 1, f.hi \in 0 .. MaxSeq
  PROVE  /\ Carried(f) \subseteq Chunks /\ Text(f) \subseteq Carried(f)
         /\ Carried(f) \subseteq Text(f) \cup garbled
         /\ \A s \in Nat : <<f.life, s>> \in Carried(f) <=> f.lo <= s /\ s <= f.hi
         /\ \A s \in Nat : <<f.life, s>> \in Text(f) <=> s \in Readable(f)
         /\ \A s \in Readable(f) : s \in Seqs /\ s \in Nat /\ f.lo <= s /\ s <= f.hi
         /\ \A t : \A s \in Nat : <<t, s>> \in Carried(f) => t = f.life
         /\ f.lo = f.hi /\ Text(f) # {} => Readable(f) = {f.lo}
<1>1. Carried(f) \subseteq Chunks
  BY BoundsAre DEF Carried, Chunks, Seqs
<1>2. /\ Text(f) \subseteq Carried(f) /\ Carried(f) \subseteq Text(f) \cup garbled
      /\ \A s \in Nat : <<f.life, s>> \in Carried(f) <=> f.lo <= s /\ s <= f.hi
      /\ \A t : \A s \in Nat : <<t, s>> \in Carried(f) => t = f.life
  BY BoundsAre DEF Text, Carried
<1>3. \A s \in Readable(f) : s \in Seqs /\ s \in Nat /\ f.lo <= s /\ s <= f.hi
  BY BoundsAre DEF Readable, Seqs
<1>4. \A s \in Nat : <<f.life, s>> \in Text(f) <=> s \in Readable(f)
  BY BoundsAre DEF Text, Carried, Readable
<1>5. f.lo = f.hi /\ Text(f) # {} => Readable(f) = {f.lo}
  <2> SUFFICES ASSUME f.lo = f.hi, Text(f) # {} PROVE Readable(f) = {f.lo}
    OBVIOUS
  <2>1. PICK c \in Carried(f) : c \notin garbled
    BY DEF Text
  <2>2. c = <<f.life, f.lo>>
    BY <2>1, BoundsAre DEF Carried
  <2>3. f.lo \in Readable(f)
    BY <2>1, <2>2, BoundsAre DEF Readable
  <2> QED BY <1>3, <2>3, BoundsAre
<1> QED BY <1>1, <1>2, <1>3, <1>4, <1>5

LEMMA TypesStep ==
  ASSUME TypeOK, QueueInv, [Next]_vars
  PROVE  TypeOK'
<1>1. CASE Produce
  <2>1. produced + 1 \in 0 .. MaxSeq
    BY <1>1, BoundsAre DEF Produce, TypeOK
  <2>2. uplink' \in Seq(Frames)
    <3>1. uplink \in Seq(Frames) /\ produced < MaxSeq /\ produced' = produced + 1
          /\ uplink' = Append(uplink, [type |-> "output", life |-> life,
                                       lo |-> produced + 1, hi |-> produced + 1])
      BY <1>1 DEF Produce, TypeOK
    <3>2. [type |-> "output", life |-> life, lo |-> produced + 1, hi |-> produced + 1] \in Frames
      BY <3>1, SentType
    <3> QED BY <3>1, <3>2, AppendIs
  <2>3. garbled' \subseteq Chunks
    <3>1. produced' = produced + 1 /\ produced + 1 \in Seqs /\ life \in 1 .. MaxLives
      BY <1>1, <2>1, BoundsAre DEF Produce, TypeOK, Seqs
    <3>2. <<life, produced'>> \in Chunks
      BY <3>1 DEF Chunks
    <3> QED BY <1>1, <3>2 DEF Produce, TypeOK
  <2> QED BY <1>1, <2>1, <2>2, <2>3 DEF Produce, TypeOK, lineVars, shownVars
<1>2. CASE CliAnswers
  <2>1. requests # <<>> /\ requests' = Tail(requests)
    BY <1>2 DEF CliAnswers
  <2>2. requests' \in Seq(0 .. MaxSeq)
    BY <2>1, TailIs DEF TypeOK
  <2>3. uplink' \in Seq(Frames)
    <3>1. uplink \in Seq(Frames) /\ Batch \in Frames /\ Sync \in Frames
          /\ uplink' = uplink \o <<Batch, Sync>>
      BY <1>2, AnswerType DEF TypeOK
    <3>2. uplink \o <<Batch, Sync>> \in Seq(Frames)
      BY <3>1, TwoMoreIs, Zenon
    <3> QED BY <3>1, <3>2
  <2> QED BY <1>2, <2>2, <2>3 DEF CliAnswers, TypeOK, cliVars, lineVars, shownVars
<1>3. CASE CliRestarts
  <2>1. life' \in 1 .. MaxLives /\ produced' \in 0 .. MaxSeq
    BY <1>3, BoundsAre DEF CliRestarts, TypeOK
  <2>2. uplink' \in Seq(Frames) /\ requests' \in Seq(0 .. MaxSeq)
    BY <1>3, EmptyIs DEF CliRestarts
  <2>3. received' \in Seq(Frames)
    BY <1>3, SentType, AppendIs DEF CliRestarts, TypeOK
  <2> QED BY <1>3, <2>1, <2>2, <2>3 DEF CliRestarts, TypeOK, lineVars, shownVars
<1>4. CASE Forward
  <2>1. uplink # <<>> /\ uplink \in Seq(Frames) /\ received \in Seq(Frames)
    BY <1>4 DEF Forward, TypeOK
  <2>2. uplink' \in Seq(Frames) /\ Head(uplink) \in Frames
    BY <1>4, <2>1, TailIs DEF Forward
  <2>3. received' \in Seq(Frames)
    BY <1>4, <2>1, <2>2, AppendIs DEF Forward
  <2> QED BY <1>4, <2>2, <2>3 DEF Forward, TypeOK, cliVars, lineVars, shownVars
<1>5. CASE Drop
  <2>1. PICK n \in 0 .. Len(received) : received' = SubSeq(received, 1, n)
    <3>1. Len(received) \in Nat
      BY EmptyIs DEF TypeOK
    <3> QED BY <1>5, <3>1 DEF Drop
  <2>2. received' \in Seq(Frames)
    BY <2>1, PrefixIs DEF TypeOK
  <2>3. drops' \in 0 .. MaxDrops
    BY <1>5, BoundsAre DEF Drop, TypeOK
  <2>4. parted' \in BOOLEAN
    BY <1>5 DEF Drop, TypeOK
  <2> QED BY <1>5, <2>2, <2>3, <2>4 DEF Drop, TypeOK, cliVars, shownVars
<1>6. CASE Reopen
  <2>1. received' \in Seq(Frames) /\ parted' \in BOOLEAN
    BY <1>6, EmptyIs DEF Reopen, TypeOK
  <2> QED BY <1>6, <2>1 DEF Reopen, TypeOK, cliVars, shownVars
<1>7. CASE Opened \/ Wake
  <2>1. requests' \in Seq(0 .. MaxSeq)
    <3>1. requests \in Seq(0 .. MaxSeq) /\ lastSeq \in 0 .. MaxSeq
          /\ requests' = Append(requests, lastSeq)
      BY <1>7 DEF Opened, Wake, Ask, TypeOK
    <3> QED BY <3>1, AppendIs
  <2> QED BY <1>7, <2>1 DEF Opened, Wake, TypeOK, cliVars, lineVars, shownVars
<1>8. CASE ProbeTimesOut
  BY <1>8 DEF ProbeTimesOut, TypeOK, cliVars, lineVars, shownVars
<1>9. CASE TakeOutput
  <2>1. received # <<>> /\ received \in Seq(Frames) /\ handlers = <<>>
    BY <1>9 DEF TakeOutput, MayTake, TypeOK
  <2>2. received' \in Seq(Frames) /\ Head(received) \in Frames
    BY <1>9, <2>1, TailIs DEF TakeOutput
  <2>3. handlers' \in Seq(Frames)
    BY <1>9, <2>2, AppendIs DEF TakeOutput, TypeOK
  <2>4. marked' \subseteq Chunks
    <3> DEFINE f == Head(received)
    <3>1. f.life \in 1 .. MaxLives /\ f.lo \in 1 .. MaxSeq + 1 /\ lastSeq \in Nat
          /\ (marked' = marked \/ marked' = marked \cup Gap(f.life, f.lo))
      BY <1>9, <2>2, FrameIs, BoundsAre DEF TakeOutput, TypeOK
    <3>2. Gap(f.life, f.lo) \subseteq Chunks
      BY <3>1, BoundsAre DEF Gap, Chunks, Seqs
    <3> QED BY <3>1, <3>2 DEF TypeOK
  <2> QED BY <1>9, <2>2, <2>3, <2>4 DEF TakeOutput, TypeOK, cliVars, lineVars
<1>10. CASE HandleSync
  <2>1. received # <<>> /\ received \in Seq(Frames) /\ Head(received).type = "sync_complete"
    BY <1>10 DEF HandleSync, MayTake, TypeOK
  <2>2. received' \in Seq(Frames) /\ Head(received) \in Frames
    BY <1>10, <2>1, TailIs DEF HandleSync
  <2>3. lastSeq' \in 0 .. MaxSeq
    BY <1>10, <2>1, <2>2, FrameIs DEF HandleSync, Synced, Greater, TypeOK
  <2> QED BY <1>10, <2>2, <2>3 DEF HandleSync, TypeOK, cliVars, lineVars, shownVars
<1>11. CASE HandleReconnected
  <2>1. received' \in Seq(Frames)
    BY <1>11, TailIs DEF HandleReconnected, MayTake, TypeOK
  <2>2. requests' \in Seq(0 .. MaxSeq)
    <3>1. requests \in Seq(0 .. MaxSeq) /\ lastSeq \in 0 .. MaxSeq
          /\ (requests' = requests \/ requests' = Append(requests, lastSeq))
      BY <1>11 DEF HandleReconnected, Ask, TypeOK
    <3>2. Append(requests, lastSeq) \in Seq(0 .. MaxSeq)
      BY <3>1, AppendIs
    <3> QED BY <3>1, <3>2
  <2> QED BY <1>11, <2>1, <2>2 DEF HandleReconnected, TypeOK, cliVars, lineVars, shownVars
<1>12. ASSUME NEW i \in DOMAIN handlers, DecryptItem(i) PROVE TypeOK'
  <2>1. lastSeq' \in 0 .. MaxSeq
    <3>1. /\ i = 1 /\ handlers[1].life \in 1 .. MaxLives
          /\ handlers[1].lo \in 1 .. MaxSeq + 1 /\ handlers[1].hi \in 0 .. MaxSeq
      BY HandlerIs
    <3>2. lastSeq' \in Readable(handlers[1])
      BY <1>12, <3>1 DEF DecryptItem
    <3> QED BY <3>1, <3>2, TextIs, BoundsAre
  <2> QED BY <1>12, <2>1 DEF DecryptItem, TypeOK, cliVars, lineVars, shownVars
<1>13. ASSUME NEW i \in DOMAIN handlers, FinishOutput(i) PROVE TypeOK'
  <2> DEFINE f == handlers[1]
  <2>1. /\ i = 1 /\ f.life \in 1 .. MaxLives /\ f.lo \in 1 .. MaxSeq + 1 /\ f.hi \in 0 .. MaxSeq
        /\ SubSeq(handlers, 1, i - 1) \o SubSeq(handlers, i + 1, Len(handlers)) = <<>>
        /\ f.type = "output" => f.lo = f.hi
    BY <1>13, HandlerIs DEF LiveIs
  <2>2. handlers' \in Seq(Frames)
    BY <1>13, <2>1, EmptyIs DEF FinishOutput
  <2>3. lastSeq' \in 0 .. MaxSeq
    <3>1. lastSeq' \in {lastSeq} \cup Readable(f)
      BY <1>13, <2>1 DEF FinishOutput
    <3>2. \A s \in Readable(f) : s \in 0 .. MaxSeq
      BY <2>1, TextIs, BoundsAre
    <3> QED BY <3>1, <3>2 DEF TypeOK
  <2>4. drawn' \subseteq Chunks
    <3>1. drawn' = drawn \cup Text(f)
      BY <1>13, <2>1 DEF FinishOutput
    <3>2. Text(f) \subseteq Chunks
      BY <2>1, TextIs
    <3> QED BY <3>1, <3>2 DEF TypeOK
  <2>5. marked' \subseteq Chunks
    <3>1. lastSeq \in Nat /\ (marked' = marked \/ marked' = marked \cup Gap(f.life, f.lo))
      BY <1>13, <2>1, BoundsAre DEF FinishOutput, TypeOK
    <3>2. Gap(f.life, f.lo) \subseteq Chunks
      BY <2>1, <3>1, BoundsAre DEF Gap, Chunks, Seqs
    <3> QED BY <3>1, <3>2 DEF TypeOK
  <2>6. newest' \in Chunks \cup {<<0, 0>>}
    <3>1. \/ newest' = newest
          \/ f.type = "output" /\ Text(f) # {} /\ newest' = <<f.life, f.lo>>
      BY <1>13, <2>1 DEF FinishOutput
    <3>2. f.type = "output" /\ Text(f) # {} => f.lo \in Seqs
      BY <2>1, TextIs
    <3>3. f.lo \in Seqs => <<f.life, f.lo>> \in Chunks
      BY <2>1 DEF Chunks
    <3> QED BY <3>1, <3>2, <3>3 DEF TypeOK
  <2> QED BY <1>13, <2>2, <2>3, <2>4, <2>5, <2>6 DEF FinishOutput, TypeOK, cliVars, lineVars
<1>14. CASE UNCHANGED vars
  BY <1>14 DEF vars, TypeOK
<1> QED BY <1>1, <1>2, <1>3, <1>4, <1>5, <1>6, <1>7, <1>8, <1>9, <1>10, <1>11, <1>12,
           <1>13, <1>14 DEF Next

-----------------------------------------------------------------------------
(* A step keeps the order of the frames *)

LEMMA ElementIs ==
  ASSUME NEW s \in Seq(Frames), NEW i \in DOMAIN s
  PROVE  s[i] \in Frames
OBVIOUS

\* What the CLI sends next comes after all that is under way.
LEMMA SendsAfter ==
  ASSUME TypeOK, NEW s \in Seq(Frames), Fine(life, produced, lastSeq, newest, s),
         NEW e \in Frames,
         e.type = "output" => e.life = life /\ e.lo = produced + 1 /\ e.hi = produced + 1,
         e.type # "output" => e.type # "cli_reconnected" /\ Top(e) = produced
  PROVE  \A i \in DOMAIN s : Precedes(life, s[i], e)
<1> SUFFICES ASSUME NEW i \in DOMAIN s PROVE Precedes(life, s[i], e)
  OBVIOUS
<1> DEFINE f == s[i]
<1>1. f \in Frames
  BY ElementIs
<1>2. LiveIs(life, produced, newest, f) /\ (life = 1 => FirstIs(produced, lastSeq, f))
  BY DEF Fine
<1>3. produced \in Nat /\ life \in Nat
  BY BoundsAre DEF TypeOK
<1>4. LiveBefore(f, e)
  <2> SUFFICES ASSUME f.type = "output", e.type = "output"
               PROVE  f.life < e.life \/ (f.life = e.life /\ f.lo < e.lo)
    BY DEF LiveBefore
  <2>1. f.life \in Nat /\ f.lo \in Nat
    BY <1>1, FrameIs, BoundsAre
  <2> QED BY <1>2, <1>3, <2>1 DEF LiveIs
<1>5. ASSUME life = 1 PROVE TopBefore(f, e)
  <2>1. Top(f) \in Nat /\ Top(f) <= produced
    BY <1>1, <1>2, <1>5, TopType, BoundsAre DEF FirstIs
  <2>2. e.type = "output" => Top(e) = produced + 1
    BY DEF Top
  <2> QED BY <1>3, <2>1, <2>2 DEF TopBefore
<1> QED BY <1>4, <1>5 DEF Precedes

\* Once frame h is handled, lastSeq and the newest chunk are still before what came
\* after it.
LEMMA FineAfter ==
  ASSUME TypeOK, NEW s \in Seq(Frames), Fine(life, produced, lastSeq, newest, s),
         NEW h \in Frames, \A j \in DOMAIN s : Precedes(life, h, s[j]),
         NEW q \in Nat, NEW n,
         life = 1 => h.type # "cli_reconnected" /\ lastSeq <= q /\ q <= Top(h),
         n = newest \/ (h.type = "output" /\ n = <<h.life, h.lo>>)
  PROVE  Fine(life, produced, q, n, s)
<1> SUFFICES ASSUME NEW j \in DOMAIN s
             PROVE  LiveIs(life, produced, n, s[j]) /\ (life = 1 => FirstIs(produced, q, s[j]))
  BY DEF Fine
<1> DEFINE f == s[j]
<1>1. f \in Frames /\ Precedes(life, h, f)
  BY ElementIs
<1>2. LiveIs(life, produced, newest, f) /\ (life = 1 => FirstIs(produced, lastSeq, f))
  BY DEF Fine
<1>3. LiveIs(life, produced, n, f)
  <2>1. h.type = "output" /\ f.type = "output" =>
          h.life < f.life \/ (h.life = f.life /\ h.lo < f.lo)
    BY <1>1 DEF Precedes, LiveBefore
  <2> QED BY <1>2, <2>1 DEF LiveIs
<1>4. ASSUME life = 1 PROVE FirstIs(produced, q, f)
  <2>1. Top(h) \in Nat /\ lastSeq \in Nat
    BY <1>4, TopType, BoundsAre DEF TypeOK
  <2>2. /\ f.type # "cli_reconnected" /\ (f.type # "sync_complete" => f.life = 1)
        /\ Top(f) <= produced
        /\ f.type = "catchup_batch" /\ f.lo > f.hi => f.hi <= lastSeq
        /\ f.type = "output" => f.lo = f.hi
    BY <1>2, <1>4 DEF FirstIs, LiveIs
  <2>3. Top(f) \in Nat /\ (f.type # "sync_complete" => f.hi \in Nat)
    BY <1>1, <2>2, TopType, FrameIs, BoundsAre
  <2>4. IF f.type = "output" THEN Top(h) < Top(f) ELSE Top(h) <= Top(f)
    BY <1>1, <1>4 DEF Precedes, TopBefore
  <2>5. q <= Top(h) /\ lastSeq <= q
    BY <1>4
  <2>6. f.type = "output" => q < f.lo
    BY <2>1, <2>2, <2>3, <2>4, <2>5 DEF Top
  <2>7. q <= Top(f)
    BY <2>1, <2>3, <2>4, <2>5
  <2>8. f.type = "catchup_batch" /\ f.lo > f.hi => f.hi <= q
    BY <2>1, <2>2, <2>3, <2>5
  <2> QED BY <2>2, <2>6, <2>7, <2>8 DEF FirstIs
<1> QED BY <1>3, <1>4

\* The queues that TypeOK and QueueInv describe.
LEMMA QueuesAre ==
  ASSUME TypeOK, QueueInv
  PROVE  /\ handlers \in Seq(Frames) /\ received \in Seq(Frames) /\ uplink \in Seq(Frames)
         /\ Sorted(life, received) /\ Sorted(life, uplink)
         /\ Ahead(life, handlers, received) /\ Ahead(life, handlers, uplink)
         /\ Ahead(life, received, uplink)
         /\ Fine(life, produced, lastSeq, newest, handlers)
         /\ Fine(life, produced, lastSeq, newest, received)
         /\ Fine(life, produced, lastSeq, newest, uplink)
         /\ newest[1] < life \/ (newest[1] = life /\ newest[2] <= produced)
         /\ newest[1] \in Nat /\ newest[2] \in Nat
         /\ life \in Nat \ {0} /\ produced \in Nat /\ lastSeq \in Nat
<1>1. newest[1] \in Nat /\ newest[2] \in Nat
  BY BoundsAre DEF TypeOK, Chunks, Seqs
<1> QED BY <1>1, BoundsAre DEF TypeOK, QueueInv, OrderInv, FrameInv

LEMMA QueueAfterProduce ==
  ASSUME TypeOK, QueueInv, Produce
  PROVE  QueueInv'
<1> DEFINE e == [type |-> "output", life |-> life, lo |-> produced + 1, hi |-> produced + 1]
<1>1. /\ produced < MaxSeq /\ produced' = produced + 1 /\ uplink' = Append(uplink, e)
      /\ UNCHANGED <<life, requests, received, handlers, lastSeq, newest, drawn>>
  BY DEF Produce, shownVars
<1>2. e \in Frames
  BY <1>1, SentType
<1>3. /\ \A i \in DOMAIN handlers : Precedes(life, handlers[i], e)
      /\ \A i \in DOMAIN received : Precedes(life, received[i], e)
      /\ \A i \in DOMAIN uplink : Precedes(life, uplink[i], e)
  BY <1>2, QueuesAre, SendsAfter
<1>4. OrderInv'
  <2>1. Sorted(life, uplink') /\ Ahead(life, handlers, uplink') /\ Ahead(life, received, uplink')
    BY <1>1, <1>2, <1>3, QueuesAre, OrderGrows
  <2> QED BY <1>1, <2>1, QueuesAre DEF OrderInv
<1>5. FrameInv'
  <2>1. LiveIs(life, produced', newest, e)
    BY <1>1, QueuesAre DEF LiveIs
  <2>2. life = 1 => FirstIs(produced', lastSeq, e)
    BY <1>1, QueuesAre DEF FirstIs, Top, QueueInv, BehindInv
  <2>3. ASSUME NEW s \in {handlers, received, uplink}
        PROVE  Fine(life, produced', lastSeq, newest, s)
    <3>1. s \in Seq(Frames) /\ Fine(life, produced, lastSeq, newest, s)
      BY QueuesAre
    <3> SUFFICES ASSUME NEW i \in DOMAIN s
                 PROVE  /\ LiveIs(life, produced', newest, s[i])
                        /\ life = 1 => FirstIs(produced', lastSeq, s[i])
      BY DEF Fine
    <3>2. s[i] \in Frames
      BY <3>1, ElementIs
    <3>3. LiveIs(life, produced, newest, s[i]) /\ (life = 1 => FirstIs(produced, lastSeq, s[i]))
      BY <3>1 DEF Fine
    <3>4. LiveIs(life, produced', newest, s[i])
      BY <1>1, <3>2, <3>3, FrameIs, QueuesAre, BoundsAre DEF LiveIs
    <3>5. life = 1 => FirstIs(produced', lastSeq, s[i])
      <4>1. life = 1 => Top(s[i]) \in Nat
        BY <3>2, <3>3, TopType, BoundsAre DEF FirstIs
      <4> QED BY <1>1, <3>3, <4>1, QueuesAre DEF FirstIs
    <3> QED BY <3>4, <3>5
  <2>4. Fine(life, produced', lastSeq, newest, uplink')
    BY <1>1, <1>2, <2>1, <2>2, <2>3, QueuesAre, FineGrows
  <2> QED BY <1>1, <2>3, <2>4, QueuesAre DEF FrameInv
<1>6. BehindInv'
  BY <1>1, QueuesAre DEF QueueInv, BehindInv
<1>7. OneHandler'
  BY <1>1 DEF QueueInv, OneHandler
<1> QED BY <1>4, <1>5, <1>6, <1>7 DEF QueueInv

LEMMA QueueAfterAnswer ==
  ASSUME TypeOK, QueueInv, CliAnswers
  PROVE  QueueInv'
<1>1. /\ requests # <<>> /\ requests' = Tail(requests)
      /\ UNCHANGED <<life, produced, received, handlers, lastSeq, newest, drawn>>
  BY DEF CliAnswers, cliVars, shownVars
<1>2. /\ requests[1] \in 0 .. MaxSeq /\ Batch \in Frames /\ Sync \in Frames
      /\ uplink' = uplink \o <<Batch, Sync>>
      /\ Batch.lo > produced => requests[1] >= produced
  BY AnswerType
<1>3. DOMAIN requests = 1 .. Len(requests) /\ Len(requests) \in Nat /\ Len(requests) > 0
      /\ DOMAIN Tail(requests) = 1 .. Len(requests) - 1
      /\ \A i \in 1 .. Len(requests) - 1 : Tail(requests)[i] = requests[i + 1]
  BY <1>1, TailIs DEF TypeOK
<1> DEFINE one == Append(uplink, Batch)
<1>4. Append(one, Sync) = uplink' /\ one \in Seq(Frames)
  <2>1. one \in Seq(Frames) /\ uplink \in Seq(Frames)
    BY <1>2, QueuesAre, AppendIs
  <2>2. uplink \o <<Batch, Sync>> = Append(one, Sync)
    BY <1>2, <2>1
  <2> QED BY <1>2, <2>1, <2>2
<1>5. /\ Batch.type = "catchup_batch" /\ Batch.life = life /\ Batch.hi = produced
      /\ Sync.type = "sync_complete" /\ Sync.currentSeq = produced
      /\ Top(Batch) = produced /\ Top(Sync) = produced
  BY DEF Batch, Sync, Top
<1>6. Fine(life, produced, lastSeq, newest, one)
  <2>1. LiveIs(life, produced, newest, Batch)
    BY <1>5 DEF LiveIs
  <2>2. ASSUME life = 1 PROVE FirstIs(produced, lastSeq, Batch)
    <3>1. requests[1] <= lastSeq /\ lastSeq <= produced
      BY <1>3, <2>2 DEF QueueInv, BehindInv
    <3>2. Batch.lo > Batch.hi => Batch.hi <= lastSeq
      BY <1>2, <1>5, <3>1, QueuesAre, BoundsAre
    <3> QED BY <1>5, <2>2, <3>1, <3>2, QueuesAre DEF FirstIs
  <2> QED BY <1>2, <2>1, <2>2, QueuesAre, FineGrows
<1>7. OrderInv'
  <2>1. /\ \A i \in DOMAIN handlers : Precedes(life, handlers[i], Batch)
        /\ \A i \in DOMAIN received : Precedes(life, received[i], Batch)
        /\ \A i \in DOMAIN uplink : Precedes(life, uplink[i], Batch)
    BY <1>2, <1>5, QueuesAre, SendsAfter
  <2>2. Sorted(life, one) /\ Ahead(life, handlers, one) /\ Ahead(life, received, one)
    BY <1>2, <2>1, QueuesAre, OrderGrows
  <2>3. /\ \A i \in DOMAIN handlers : Precedes(life, handlers[i], Sync)
        /\ \A i \in DOMAIN received : Precedes(life, received[i], Sync)
        /\ \A i \in DOMAIN one : Precedes(life, one[i], Sync)
    BY <1>2, <1>4, <1>5, <1>6, QueuesAre, SendsAfter
  <2>4. /\ Sorted(life, Append(one, Sync)) /\ Ahead(life, handlers, Append(one, Sync))
        /\ Ahead(life, received, Append(one, Sync))
    BY <1>2, <1>4, <2>2, <2>3, QueuesAre, OrderGrows
  <2> QED BY <1>1, <1>4, <2>4, QueuesAre DEF OrderInv
<1>8. FrameInv'
  <2>1. LiveIs(life, produced, newest, Sync)
    BY <1>5 DEF LiveIs
  <2>2. life = 1 => FirstIs(produced, lastSeq, Sync)
    BY <1>5, QueuesAre DEF FirstIs, QueueInv, BehindInv
  <2>3. Fine(life, produced, lastSeq, newest, Append(one, Sync))
    BY <1>2, <1>4, <1>6, <2>1, <2>2, FineGrows
  <2> QED BY <1>1, <1>4, <2>3, QueuesAre DEF FrameInv
<1>9. BehindInv'
  <2>1. \A i \in DOMAIN requests' : i + 1 \in DOMAIN requests /\ requests'[i] = requests[i + 1]
    BY <1>1, <1>3
  <2> QED BY <1>1, <2>1 DEF QueueInv, BehindInv
<1>10. OneHandler'
  BY <1>1 DEF QueueInv, OneHandler
<1> QED BY <1>7, <1>8, <1>9, <1>10 DEF QueueInv

LEMMA QueueAfterRestart ==
  ASSUME TypeOK, QueueInv, CliRestarts
  PROVE  QueueInv'
<1> DEFINE e == [type |-> "cli_reconnected"]
<1>1. /\ life' = life + 1 /\ produced' = 0 /\ uplink' = <<>>
      /\ received' = received \/ received' = Append(received, e)
      /\ UNCHANGED <<handlers, lastSeq, newest, drawn>>
  BY DEF CliRestarts, shownVars
<1>2. e \in Frames /\ life' # 1
  BY <1>1, SentType, QueuesAre
<1>3. /\ Sorted(life', received) /\ Ahead(life', handlers, received)
  BY <1>2, QueuesAre, LaterOrder
<1>4. \A a : Precedes(life', a, e)
  BY <1>2 DEF Precedes, LiveBefore
<1>5. OrderInv'
  <2>1. Sorted(life', Append(received, e)) /\ Ahead(life', handlers, Append(received, e))
    BY <1>2, <1>3, <1>4, QueuesAre, OrderGrows
  <2> QED BY <1>1, <1>3, <2>1, EmptyOrder DEF OrderInv
<1>6. FrameInv'
  <2>1. ASSUME NEW s \in {handlers, received} PROVE Fine(life', 0, lastSeq, newest, s)
    <3>1. s \in Seq(Frames) /\ Fine(life, produced, lastSeq, newest, s)
      BY QueuesAre
    <3> SUFFICES ASSUME NEW i \in DOMAIN s PROVE LiveIs(life', 0, newest, s[i])
      BY <1>2 DEF Fine
    <3>2. LiveIs(life, produced, newest, s[i]) /\ s[i] \in Frames
      BY <3>1, ElementIs DEF Fine
    <3> QED BY <1>1, <3>2, FrameIs, QueuesAre, BoundsAre DEF LiveIs
  <2>2. Fine(life', 0, lastSeq, newest, Append(received, e))
    BY <1>2, <2>1, QueuesAre, FineGrows DEF LiveIs
  <2>3. Fine(life', 0, lastSeq, newest, <<>>)
    BY EmptyIs DEF Fine
  <2>4. newest[1] < life'
    BY <1>1, QueuesAre
  <2> QED BY <1>1, <2>1, <2>2, <2>3, <2>4 DEF FrameInv
<1>7. BehindInv' /\ OneHandler'
  BY <1>1, <1>2 DEF QueueInv, BehindInv, OneHandler
<1> QED BY <1>5, <1>6, <1>7 DEF QueueInv

LEMMA QueueAfterForward ==
  ASSUME TypeOK, QueueInv, Forward
  PROVE  QueueInv'
<1>1. /\ uplink # <<>> /\ uplink' = Tail(uplink)
      /\ received' = received \/ received' = Append(received, uplink[1])
      /\ uplink[1] \in Frames
      /\ UNCHANGED <<life, produced, requests, handlers, lastSeq, newest, drawn>>
  BY QueuesAre, TailIs DEF Forward, cliVars, shownVars
<1>2. /\ Sorted(life, Tail(uplink)) /\ Ahead(life, handlers, Tail(uplink))
      /\ Ahead(life, received, Tail(uplink))
      /\ \A j \in DOMAIN Tail(uplink) : Precedes(life, uplink[1], Tail(uplink)[j])
      /\ \A j \in DOMAIN handlers : Precedes(life, handlers[j], uplink[1])
      /\ \A j \in DOMAIN received : Precedes(life, received[j], uplink[1])
      /\ Tail(uplink) \in Seq(Frames)
  BY <1>1, QueuesAre, TailOrder, TailIs
<1>3. OrderInv'
  <2>1. /\ Sorted(life, Append(received, uplink[1]))
        /\ Ahead(life, handlers, Append(received, uplink[1]))
    BY <1>1, <1>2, QueuesAre, OrderGrows
  <2>2. Ahead(life, Append(received, uplink[1]), Tail(uplink))
    BY <1>1, <1>2, QueuesAre, AheadGrows
  <2> QED BY <1>1, <1>2, <2>1, <2>2, QueuesAre DEF OrderInv
<1>4. FrameInv'
  <2>1. /\ Fine(life, produced, lastSeq, newest, Tail(uplink))
        /\ LiveIs(life, produced, newest, uplink[1])
        /\ life = 1 => FirstIs(produced, lastSeq, uplink[1])
    BY <1>1, QueuesAre, TailFine
  <2>2. Fine(life, produced, lastSeq, newest, Append(received, uplink[1]))
    BY <1>1, <2>1, QueuesAre, FineGrows
  <2> QED BY <1>1, <2>1, <2>2, QueuesAre DEF FrameInv
<1>5. BehindInv' /\ OneHandler'
  BY <1>1 DEF QueueInv, BehindInv, OneHandler
<1> QED BY <1>3, <1>4, <1>5 DEF QueueInv

\* Frames that are lost, and requests that are sent, leave the rest in order.
LEMMA QueueAfterLoss ==
  ASSUME TypeOK, QueueInv,
         UNCHANGED <<life, produced, handlers, uplink, lastSeq, newest, drawn>>,
         NEW n \in 0 .. Len(received),
         received' = SubSeq(received, 1, n) \/ received' = received \/ received' = <<>>,
         requests' = requests \/ requests' = Append(requests, lastSeq)
  PROVE  QueueInv'
<1>1. OrderInv'
  <2>1. /\ Sorted(life, SubSeq(received, 1, n)) /\ Ahead(life, handlers, SubSeq(received, 1, n))
        /\ Ahead(life, SubSeq(received, 1, n), uplink)
    BY QueuesAre, PrefixOrder
  <2>2. Sorted(life, <<>>) /\ Ahead(life, handlers, <<>>) /\ Ahead(life, <<>>, uplink)
    BY EmptyOrder
  <2> QED BY <2>1, <2>2, QueuesAre DEF OrderInv
<1>2. FrameInv'
  <2>1. Fine(life, produced, lastSeq, newest, SubSeq(received, 1, n))
    BY QueuesAre, PrefixFine
  <2>2. Fine(life, produced, lastSeq, newest, <<>>)
    BY EmptyIs DEF Fine
  <2> QED BY <2>1, <2>2, QueuesAre DEF FrameInv
<1>3. BehindInv'
  <2>1. requests \in Seq(0 .. MaxSeq) /\ lastSeq \in 0 .. MaxSeq
    BY DEF TypeOK
  <2> DEFINE more == Append(requests, lastSeq)
  <2>2. DOMAIN more = 1 .. Len(requests) + 1 /\ DOMAIN requests = 1 .. Len(requests)
        /\ Len(requests) \in Nat /\ more[Len(requests) + 1] = lastSeq
        /\ \A i \in 1 .. Len(requests) : more[i] = requests[i]
    BY <2>1, AppendIs
  <2>3. ASSUME life = 1 PROVE \A i \in DOMAIN more : more[i] <= lastSeq
    <3>1. \A i \in 1 .. Len(requests) : more[i] <= lastSeq
      BY <2>2, <2>3 DEF QueueInv, BehindInv
    <3> QED BY <2>1, <2>2, <3>1
  <2> QED BY <2>3 DEF QueueInv, BehindInv
<1>4. OneHandler'
  BY DEF QueueInv, OneHandler
<1> QED BY <1>1, <1>2, <1>3, <1>4 DEF QueueInv

LEMMA BehindRises ==
  ASSUME TypeOK, QueueInv, life = 1, NEW q \in Nat, lastSeq <= q
  PROVE  /\ \A j \in DOMAIN requests : requests[j] <= q
         /\ \A t \in Seqs : <<1, t>> \in drawn => t <= q
<1>1. lastSeq \in Nat /\ requests \in Seq(Nat)
  BY BoundsAre DEF TypeOK
<1>2. \A j \in DOMAIN requests : requests[j] \in Nat /\ requests[j] <= lastSeq
  BY <1>1 DEF QueueInv, BehindInv
<1>3. \A t \in Seqs : t \in Nat
  BY BoundsAre DEF Seqs
<1>4. \A t \in Seqs : <<1, t>> \in drawn => t <= lastSeq
  BY DEF QueueInv, BehindInv
<1> QED BY <1>1, <1>2, <1>3, <1>4

\* What taking up a frame leaves of the inbox.
LEMMA TakenIs ==
  ASSUME TypeOK, QueueInv, received # <<>>
  PROVE  LET f == received[1]
             rest == Tail(received)
         IN /\ f = Head(received) /\ f \in Frames /\ rest \in Seq(Frames)
            /\ Sorted(life, rest) /\ Ahead(life, handlers, rest) /\ Ahead(life, rest, uplink)
            /\ Fine(life, produced, lastSeq, newest, rest)
            /\ \A j \in DOMAIN rest : Precedes(life, f, rest[j])
            /\ \A j \in DOMAIN uplink : Precedes(life, f, uplink[j])
            /\ LiveIs(life, produced, newest, f)
            /\ life = 1 => FirstIs(produced, lastSeq, f)
BY QueuesAre, TailIs, TailOrder, TailFine

LEMMA QueueAfterTake ==
  ASSUME TypeOK, QueueInv, TakeOutput
  PROVE  QueueInv'
<1> DEFINE f == received[1]
           rest == Tail(received)
           taken == Append(<<>>, f)
<1>1. /\ received # <<>> /\ received' = rest /\ handlers = <<>>
      /\ UNCHANGED <<life, produced, requests, uplink, lastSeq, newest, drawn>>
  BY DEF TakeOutput, MayTake, cliVars
<1>2. f = Head(received) /\ f \in Frames
  BY <1>1, TakenIs
<1>3. handlers' = taken /\ f.type \in {"output", "catchup_batch"}
  BY <1>1, <1>2 DEF TakeOutput
<1>4. taken \in Seq(Frames) /\ Len(taken) = 1 /\ DOMAIN taken = {1} /\ taken[1] = f
  BY <1>2, SingleIs
<1>5. OrderInv'
  <2>1. Ahead(life, taken, rest) /\ Ahead(life, taken, uplink)
    BY <1>1, <1>4, TakenIs DEF Ahead
  <2> QED BY <1>1, <1>3, <2>1, QueuesAre, TakenIs DEF OrderInv
<1>6. FrameInv'
  <2>1. Fine(life, produced, lastSeq, newest, taken)
    BY <1>1, <1>4, TakenIs DEF Fine
  <2> QED BY <1>1, <1>3, <2>1, QueuesAre, TakenIs DEF FrameInv
<1>7. BehindInv' /\ OneHandler'
  BY <1>1, <1>3, <1>4 DEF QueueInv, BehindInv, OneHandler
<1> QED BY <1>5, <1>6, <1>7 DEF QueueInv

LEMMA QueueAfterDecrypt ==
  ASSUME TypeOK, QueueInv, NEW i \in DOMAIN handlers, DecryptItem(i)
  PROVE  QueueInv'
<1> DEFINE h == handlers[1]
<1>1. /\ i = 1 /\ h \in Frames /\ DOMAIN handlers = {1} /\ h.type = "catchup_batch"
      /\ h.lo \in Nat /\ h.hi \in Nat
      /\ h.life \in 1 .. MaxLives /\ h.lo \in 1 .. MaxSeq + 1 /\ h.hi \in 0 .. MaxSeq
      /\ life = 1 => FirstIs(produced, lastSeq, h)
      /\ LiveIs(life, produced, newest, h)
      /\ lastSeq' \in Readable(h) /\ lastSeq' > lastSeq
      /\ UNCHANGED <<life, produced, requests, uplink, received, handlers, newest, drawn>>
  BY HandlerIs, BoundsAre DEF DecryptItem, cliVars, shownVars
<1>2. Top(h) = h.hi
  BY <1>1 DEF Top
<1>3. lastSeq' \in Nat /\ lastSeq <= lastSeq' /\ lastSeq' <= Top(h) /\ h.lo <= h.hi
  <2>1. lastSeq' \in Nat /\ h.lo <= lastSeq' /\ lastSeq' <= h.hi
    BY <1>1, TextIs
  <2> QED BY <1>1, <1>2, <2>1, QueuesAre
<1>4. OrderInv'
  BY <1>1 DEF QueueInv, OrderInv
<1>5. FrameInv'
  <2>1. /\ \A j \in DOMAIN received : Precedes(life, h, received[j])
        /\ \A j \in DOMAIN uplink : Precedes(life, h, uplink[j])
    BY <1>1, QueuesAre DEF Ahead
  <2>2. Fine(life, produced, lastSeq', newest, received)
        /\ Fine(life, produced, lastSeq', newest, uplink)
    BY <1>1, <1>3, <2>1, QueuesAre, FineAfter
  <2>3. life = 1 => FirstIs(produced, lastSeq', h)
    BY <1>1, <1>3, QueuesAre DEF FirstIs
  <2>4. Fine(life, produced, lastSeq', newest, handlers)
    BY <1>1, <2>3 DEF Fine
  <2> QED BY <1>1, <2>2, <2>4, QueuesAre DEF FrameInv
<1>6. BehindInv'
  <2> SUFFICES ASSUME life = 1
               PROVE  /\ lastSeq' <= produced
                      /\ \A j \in DOMAIN requests : requests[j] <= lastSeq'
                      /\ \A t \in Seqs : <<1, t>> \in drawn => t <= lastSeq'
    BY <1>1 DEF BehindInv
  <2>1. lastSeq' <= produced
    BY <1>1, <1>2, <1>3, QueuesAre DEF FirstIs
  <2> QED BY <1>3, <2>1, BehindRises
<1>7. OneHandler'
  BY <1>1 DEF QueueInv, OneHandler
<1> QED BY <1>4, <1>5, <1>6, <1>7 DEF QueueInv

\* What is known once the one handler has its text.
LEMMA FinishedIs ==
  ASSUME TypeOK, QueueInv, NEW i \in DOMAIN handlers, FinishOutput(i)
  PROVE  LET h == handlers[1]
         IN /\ h \in Frames /\ DOMAIN handlers = {1} /\ h.type \in {"output", "catchup_batch"}
            /\ h.life \in 1 .. MaxLives /\ h.lo \in 1 .. MaxSeq + 1 /\ h.hi \in 0 .. MaxSeq
            /\ LiveIs(life, produced, newest, h)
            /\ Top(h) = h.hi
            /\ life = 1 => FirstIs(produced, lastSeq, h)
            /\ life = 1 => h.life = 1 /\ lastSeq' <= h.hi /\ lastSeq <= h.hi /\ h.hi <= produced
            /\ lastSeq' \in Nat /\ lastSeq <= lastSeq' /\ lastSeq' \in {lastSeq} \cup Readable(h)
            /\ \A s \in Readable(h) : s <= lastSeq'
            /\ life = 1 /\ h.lo > h.hi => h.hi <= lastSeq
            /\ handlers' = <<>> /\ drawn' = drawn \cup Text(h)
            /\ marked \subseteq marked'
            /\ h.type = "output" => h.lo = h.hi
            /\ h.type = "output" /\ Text(h) # {} =>
                 Gap(h.life, h.lo) \subseteq marked' /\ newest' = <<h.life, h.lo>>
            /\ h.type = "catchup_batch" \/ Text(h) = {} => newest' = newest
            /\ UNCHANGED <<life, produced, garbled, requests, uplink, received>>
<1> DEFINE h == handlers[1]
<1>1. /\ i = 1 /\ h \in Frames /\ DOMAIN handlers = {1} /\ h.type \in {"output", "catchup_batch"}
      /\ h.life \in 1 .. MaxLives /\ h.lo \in 1 .. MaxSeq + 1 /\ h.hi \in 0 .. MaxSeq
      /\ LiveIs(life, produced, newest, h)
      /\ life = 1 => FirstIs(produced, lastSeq, h)
      /\ SubSeq(handlers, 1, i - 1) \o SubSeq(handlers, i + 1, Len(handlers)) = <<>>
  BY HandlerIs
<1>2. /\ handlers' = <<>> /\ drawn' = drawn \cup Text(h)
      /\ lastSeq' \in {lastSeq} \cup Readable(h)
      /\ \A s \in {lastSeq} \cup Readable(h) : s <= lastSeq'
      /\ marked \subseteq marked'
      /\ h.type = "output" /\ Text(h) # {} =>
           Gap(h.life, h.lo) \subseteq marked' /\ newest' = <<h.life, h.lo>>
      /\ h.type = "catchup_batch" \/ Text(h) = {} => newest' = newest
      /\ UNCHANGED <<life, produced, garbled, requests, uplink, received>>
  BY <1>1 DEF FinishOutput, Reaches, cliVars
<1>3. Top(h) = h.hi
  BY <1>1 DEF Top
<1>4. h.type = "output" => h.lo = h.hi
  BY <1>1 DEF LiveIs
<1>5. lastSeq' \in Nat /\ lastSeq <= lastSeq' /\ (lastSeq' = lastSeq \/ lastSeq' <= h.hi)
  BY <1>1, <1>2, TextIs, QueuesAre
<1>6. ASSUME life = 1
      PROVE  /\ h.life = 1 /\ lastSeq <= h.hi /\ h.hi <= produced
             /\ h.lo > h.hi => h.hi <= lastSeq
             /\ lastSeq' <= h.hi
  <2>1. /\ h.life = 1 /\ lastSeq <= h.hi /\ h.hi <= produced
        /\ h.lo > h.hi => h.hi <= lastSeq
    BY <1>1, <1>3, <1>4, <1>6, BoundsAre DEF FirstIs
  <2> QED BY <1>5, <2>1
<1> QED BY <1>1, <1>2, <1>3, <1>4, <1>5, <1>6

LEMMA QueueAfterFinish ==
  ASSUME TypeOK, QueueInv, NEW i \in DOMAIN handlers, FinishOutput(i)
  PROVE  QueueInv'
<1> DEFINE h == handlers[1]
<1>1. /\ h \in Frames /\ DOMAIN handlers = {1} /\ h.type \in {"output", "catchup_batch"}
      /\ LiveIs(life, produced, newest, h) /\ Top(h) = h.hi
      /\ handlers' = <<>> /\ drawn' = drawn \cup Text(h) /\ lastSeq' \in Nat
      /\ newest' = newest \/ (h.type = "output" /\ newest' = <<h.life, h.lo>>)
      /\ UNCHANGED <<life, produced, requests, uplink, received>>
      /\ h.hi \in Nat /\ h.lo \in Nat
  BY FinishedIs, BoundsAre
<1>2. /\ life = 1 => /\ lastSeq' <= h.hi /\ h.hi <= produced
      /\ lastSeq <= lastSeq' /\ lastSeq \in Nat
      /\ \A s \in Readable(h) : s <= lastSeq'
      /\ h.life \in 1 .. MaxLives /\ h.lo \in 1 .. MaxSeq + 1 /\ h.hi \in 0 .. MaxSeq
  BY FinishedIs, QueuesAre
<1>3. OrderInv'
  BY <1>1, QueuesAre, EmptyOrder DEF OrderInv
<1>4. FrameInv'
  <2>1. /\ \A j \in DOMAIN received : Precedes(life, h, received[j])
        /\ \A j \in DOMAIN uplink : Precedes(life, h, uplink[j])
    BY <1>1, QueuesAre DEF Ahead
  <2>2. life = 1 => h.type # "cli_reconnected" /\ lastSeq <= lastSeq' /\ lastSeq' <= Top(h)
    BY <1>1, <1>2
  <2>3. /\ Fine(life, produced, lastSeq', newest', received)
        /\ Fine(life, produced, lastSeq', newest', uplink)
    BY <1>1, <2>1, <2>2, QueuesAre, FineAfter
  <2>4. Fine(life, produced, lastSeq', newest', <<>>)
    BY EmptyIs DEF Fine
  <2>5. newest'[1] < life \/ (newest'[1] = life /\ newest'[2] <= produced)
    BY <1>1, QueuesAre DEF LiveIs
  <2> QED BY <1>1, <2>3, <2>4, <2>5 DEF FrameInv
<1>5. BehindInv'
  <2> SUFFICES ASSUME life = 1
               PROVE  /\ lastSeq' <= produced
                      /\ \A j \in DOMAIN requests : requests[j] <= lastSeq'
                      /\ \A t \in Seqs : <<1, t>> \in drawn' => t <= lastSeq'
    BY <1>1 DEF BehindInv
  <2>1. lastSeq' <= produced
    BY <1>1, <1>2, QueuesAre
  <2>2. \A t \in Seqs : <<1, t>> \in Text(h) => t <= lastSeq'
    <3>1. \A t \in Seqs : t \in Nat
      BY BoundsAre DEF Seqs
    <3>2. Text(h) \subseteq Carried(h) /\ \A t \in Nat : <<1, t>> \in Carried(h) => 1 = h.life
      BY <1>2, TextIs
    <3>3. \A t \in Nat : <<h.life, t>> \in Text(h) => t \in Readable(h)
      BY <1>2, TextIs
    <3> QED BY <1>2, <3>1, <3>2, <3>3
  <2> QED BY <1>1, <1>2, <2>1, <2>2, BehindRises
<1>6. OneHandler'
  BY <1>1, EmptyIs DEF OneHandler
<1> QED BY <1>3, <1>4, <1>5, <1>6 DEF QueueInv

LEMMA QueueAfterSync ==
  ASSUME TypeOK, QueueInv, HandleSync
  PROVE  QueueInv'
<1> DEFINE f == received[1]
           rest == Tail(received)
<1>1. /\ received # <<>> /\ received' = rest /\ handlers = <<>>
      /\ UNCHANGED <<life, produced, requests, uplink, handlers, newest, drawn>>
  BY DEF HandleSync, MayTake, cliVars, shownVars
<1>2. /\ f = Head(received) /\ f \in Frames /\ f.type = "sync_complete"
      /\ lastSeq' = Greater(lastSeq, f.currentSeq)
      /\ life = 1 => FirstIs(produced, lastSeq, f)
  BY <1>1, TakenIs DEF HandleSync, Synced
<1>3. f.currentSeq \in Nat /\ Top(f) = f.currentSeq
  BY <1>2, FrameIs, BoundsAre DEF Top
<1>4. lastSeq' \in Nat /\ lastSeq <= lastSeq' /\ (life = 1 => lastSeq' <= Top(f) /\ Top(f) <= produced)
  BY <1>2, <1>3, QueuesAre DEF Greater, FirstIs
<1>5. OrderInv'
  BY <1>1, QueuesAre, TakenIs DEF OrderInv
<1>6. FrameInv'
  <2>1. /\ rest \in Seq(Frames) /\ Fine(life, produced, lastSeq, newest, rest)
        /\ \A j \in DOMAIN rest : Precedes(life, f, rest[j])
        /\ \A j \in DOMAIN uplink : Precedes(life, f, uplink[j])
    BY <1>1, TakenIs
  <2>2. /\ Fine(life, produced, lastSeq', newest, rest)
        /\ Fine(life, produced, lastSeq', newest, uplink)
    BY <1>2, <1>4, <2>1, QueuesAre, FineAfter
  <2>3. Fine(life, produced, lastSeq', newest, <<>>)
    BY EmptyIs DEF Fine
  <2> QED BY <1>1, <2>2, <2>3, QueuesAre DEF FrameInv
<1>7. BehindInv'
  <2> SUFFICES ASSUME life = 1
               PROVE  /\ lastSeq' <= produced
                      /\ \A j \in DOMAIN requests : requests[j] <= lastSeq'
                      /\ \A t \in Seqs : <<1, t>> \in drawn => t <= lastSeq'
    BY <1>1 DEF BehindInv
  <2>1. lastSeq' <= produced
    BY <1>3, <1>4, QueuesAre
  <2> QED BY <1>4, <2>1, BehindRises
<1>8. OneHandler'
  BY <1>1 DEF QueueInv, OneHandler
<1> QED BY <1>5, <1>6, <1>7, <1>8 DEF QueueInv

\* A restarted CLI is not announced in its first life.
LEMMA QueueAfterReconnected ==
  ASSUME TypeOK, QueueInv, HandleReconnected
  PROVE  QueueInv' /\ life # 1
<1>1. /\ received # <<>> /\ received' = Tail(received)
      /\ UNCHANGED <<life, produced, uplink, handlers, lastSeq, newest, drawn>>
      /\ Head(received).type = "cli_reconnected"
  BY DEF HandleReconnected, MayTake, cliVars, shownVars
<1>2. life # 1
  BY <1>1, TakenIs DEF FirstIs
<1>3. OrderInv' /\ FrameInv'
  BY <1>1, QueuesAre, TakenIs DEF OrderInv, FrameInv
<1> QED BY <1>1, <1>2, <1>3 DEF QueueInv, BehindInv, OneHandler

LEMMA QueueStep ==
  ASSUME TypeOK, QueueInv, [Next]_vars
  PROVE  QueueInv'
<1>1. CASE Drop
  <2>1. PICK n \in 0 .. Len(received) : received' = SubSeq(received, 1, n)
    <3>1. Len(received) \in Nat
      BY EmptyIs DEF TypeOK
    <3> QED BY <1>1, <3>1 DEF Drop
  <2>2. UNCHANGED <<life, produced, requests, handlers, uplink, lastSeq, newest, drawn>>
    BY <1>1 DEF Drop, cliVars, shownVars
  <2> QED BY <2>1, <2>2, QueueAfterLoss
<1>2. CASE Reopen \/ Opened \/ Wake \/ ProbeTimesOut
  <2>1. 0 \in 0 .. Len(received)
    BY EmptyIs DEF TypeOK
  <2>2. /\ UNCHANGED <<life, produced, handlers, uplink, lastSeq, newest, drawn>>
        /\ received' = received \/ received' = <<>>
        /\ requests' = requests \/ requests' = Append(requests, lastSeq)
    BY <1>2 DEF Reopen, Opened, Wake, ProbeTimesOut, Ask, cliVars, lineVars, shownVars
  <2> QED BY <2>1, <2>2, QueueAfterLoss
<1>3. CASE UNCHANGED vars
  BY <1>3 DEF vars, QueueInv, OneHandler, OrderInv, FrameInv, BehindInv
<1> QED BY <1>1, <1>2, <1>3, QueueAfterProduce, QueueAfterAnswer, QueueAfterRestart,
           QueueAfterForward, QueueAfterTake, QueueAfterDecrypt, QueueAfterFinish,
           QueueAfterSync, QueueAfterReconnected DEF Next

-----------------------------------------------------------------------------
(* A step keeps each sync_complete behind its batch *)

LEMMA FollowGrows ==
  ASSUME NEW s \in Seq(Frames), NEW e \in Frames, SyncFollows(s),
         e.type = "sync_complete" /\ s # <<>> => Answers(s[Len(s)], e)
  PROVE  SyncFollows(Append(s, e))
<1>1. DOMAIN Append(s, e) = 1 .. Len(s) + 1 /\ DOMAIN s = 1 .. Len(s) /\ Len(s) \in Nat
      /\ (\A i \in 1 .. Len(s) : Append(s, e)[i] = s[i]) /\ Append(s, e)[Len(s) + 1] = e
  BY AppendIs
<1> DEFINE more == Append(s, e)
<1> SUFFICES ASSUME NEW k \in DOMAIN more, k > 1, more[k].type = "sync_complete"
             PROVE  Answers(more[k - 1], more[k])
  BY DEF SyncFollows
<1>2. CASE k \in 1 .. Len(s)
  <2>1. k - 1 \in 1 .. Len(s) /\ more[k - 1] = s[k - 1] /\ more[k] = s[k]
    BY <1>1, <1>2
  <2> QED BY <1>1, <1>2, <2>1 DEF SyncFollows
<1>3. CASE k = Len(s) + 1
  <2>1. Len(s) \in 1 .. Len(s) /\ k - 1 = Len(s)
    BY <1>1, <1>3
  <2>2. more[k - 1] = s[Len(s)] /\ more[k] = e
    BY <1>1, <1>3, <2>1
  <2>3. s # <<>>
    BY <1>1, <2>1, EmptyIs
  <2> QED BY <2>2, <2>3
<1> QED BY <1>1, <1>2, <1>3

LEMMA TailFollows ==
  ASSUME NEW s \in Seq(Frames), s # <<>>
  PROVE  /\ Tail(s) \in Seq(Frames)
         /\ SyncFollows(s) => SyncFollows(Tail(s))
         /\ Tail(s) # <<>> =>
              /\ Tail(s)[Len(Tail(s))] = s[Len(s)]
              /\ SyncFollows(s) /\ Tail(s)[1].type = "sync_complete" => Answers(s[1], Tail(s)[1])
         /\ Tail(s) = <<>> => s[Len(s)] = s[1]
<1>1. /\ Len(s) \in Nat /\ Len(s) > 0 /\ DOMAIN s = 1 .. Len(s)
      /\ Tail(s) \in Seq(Frames) /\ Len(Tail(s)) = Len(s) - 1
      /\ DOMAIN Tail(s) = 1 .. Len(s) - 1
      /\ \A i \in 1 .. Len(s) - 1 : Tail(s)[i] = s[i + 1]
      /\ Tail(s) = <<>> => Len(s) = 1
  BY TailIs
<1>2. ASSUME SyncFollows(s) PROVE SyncFollows(Tail(s))
  <2> SUFFICES ASSUME NEW k \in DOMAIN Tail(s), k > 1, Tail(s)[k].type = "sync_complete"
               PROVE  Answers(Tail(s)[k - 1], Tail(s)[k])
    BY DEF SyncFollows
  <2>1. /\ k + 1 \in DOMAIN s /\ k + 1 > 1 /\ Tail(s)[k] = s[k + 1]
        /\ Tail(s)[k - 1] = s[k] /\ (k + 1) - 1 = k
    BY <1>1
  <2> QED BY <1>2, <2>1 DEF SyncFollows
<1>3. ASSUME Tail(s) # <<>>
      PROVE  /\ Tail(s)[Len(Tail(s))] = s[Len(s)]
             /\ SyncFollows(s) /\ Tail(s)[1].type = "sync_complete" => Answers(s[1], Tail(s)[1])
  <2>1. Len(s) - 1 > 0
    BY <1>1, <1>3, EmptyIs
  <2>2. Tail(s)[Len(Tail(s))] = s[Len(s)]
    BY <1>1, <2>1
  <2>3. Tail(s)[1] = s[2] /\ 2 \in DOMAIN s /\ 2 - 1 = 1 /\ 2 > 1
    BY <1>1, <2>1
  <2>4. SyncFollows(s) /\ s[2].type = "sync_complete" => Answers(s[1], s[2])
    BY <2>3 DEF SyncFollows
  <2> QED BY <2>2, <2>3, <2>4
<1> QED BY <1>1, <1>2, <1>3

LEMMA PrefixFollows ==
  ASSUME NEW s \in Seq(Frames), NEW n \in 0 .. Len(s), SyncFollows(s)
  PROVE  SyncFollows(SubSeq(s, 1, n))
<1>1. /\ Len(s) \in Nat /\ DOMAIN s = 1 .. Len(s) /\ DOMAIN SubSeq(s, 1, n) = 1 .. n
      /\ \A i \in 1 .. n : SubSeq(s, 1, n)[i] = s[i]
  BY PrefixIs
<1> SUFFICES ASSUME NEW k \in 1 .. n, k > 1, SubSeq(s, 1, n)[k].type = "sync_complete"
             PROVE  Answers(SubSeq(s, 1, n)[k - 1], SubSeq(s, 1, n)[k])
  BY <1>1 DEF SyncFollows
<1>2. /\ k \in DOMAIN s /\ SubSeq(s, 1, n)[k] = s[k]
      /\ SubSeq(s, 1, n)[k - 1] = s[k - 1]
  BY <1>1
<1> QED BY <1>2 DEF SyncFollows

LEMMA EmptyFollows == SyncFollows(<<>>)
BY EmptyIs DEF SyncFollows

\* What is appended to the wire is not next on it, if there was something before.
LEMMA FirstStays ==
  ASSUME NEW s \in Seq(Frames), NEW e \in Frames
  PROVE  /\ s # <<>> => Append(s, e)[1] = s[1]
         /\ s = <<>> => Append(s, e)[1] = e
         /\ Append(s, e)[Len(Append(s, e))] = e /\ Append(s, e) # <<>>
<1>1. /\ Len(s) \in Nat /\ Len(Append(s, e)) = Len(s) + 1 /\ Append(s, e) # <<>>
      /\ (\A i \in 1 .. Len(s) : Append(s, e)[i] = s[i]) /\ Append(s, e)[Len(s) + 1] = e
  BY AppendIs
<1>2. s # <<>> => Len(s) > 0
  BY EmptyIs
<1>3. s = <<>> => Len(s) = 0
  BY EmptyIs
<1> QED BY <1>1, <1>2, <1>3

\* What the wire looks like once the CLI has answered.
LEMMA AnswerIs ==
  ASSUME TypeOK, CliAnswers
  PROVE  LET one == Append(uplink, Batch)
         IN /\ Batch \in Frames /\ Sync \in Frames /\ one \in Seq(Frames)
            /\ uplink' = Append(one, Sync) /\ one # <<>> /\ one[Len(one)] = Batch
            /\ Batch.type = "catchup_batch" /\ Batch.hi = produced /\ Batch.life = life
            /\ Sync.type = "sync_complete" /\ Sync.currentSeq = produced
            /\ IF uplink = <<>> THEN uplink'[1] = Batch ELSE uplink'[1] = uplink[1]
<1>1. uplink \in Seq(Frames) /\ Batch \in Frames /\ Sync \in Frames
      /\ uplink' = uplink \o <<Batch, Sync>>
  BY AnswerType DEF TypeOK
<1> DEFINE one == Append(uplink, Batch)
<1>2. one \in Seq(Frames) /\ one # <<>> /\ one[Len(one)] = Batch
      /\ (uplink = <<>> => one[1] = Batch) /\ (uplink # <<>> => one[1] = uplink[1])
  BY <1>1, AppendIs, FirstStays
<1>3. uplink \o <<Batch, Sync>> = Append(one, Sync)
  BY <1>1
<1>4. Append(one, Sync)[1] = one[1]
  BY <1>1, <1>2, FirstStays
<1>5. /\ Batch.type = "catchup_batch" /\ Batch.hi = produced /\ Batch.life = life
      /\ Sync.type = "sync_complete" /\ Sync.currentSeq = produced
  BY DEF Batch, Sync
<1> QED BY <1>1, <1>2, <1>3, <1>4, <1>5

\* No frame before a sync_complete is one, so that one comes after a batch.
LEMMA FollowStep ==
  ASSUME TypeOK, QueueInv, FollowInv, [Next]_vars
  PROVE  FollowInv'
<1> SUFFICES ASSUME life' = 1
             PROVE  FollowInv'
  BY DEF FollowInv
<1>1. life = 1
  <2>1. life' = life \/ life' = life + 1
    BY DEF Next, vars, cliVars, Produce, CliAnswers, CliRestarts, Forward, Drop, Reopen, Opened,
           Wake, ProbeTimesOut, TakeOutput, HandleSync, HandleReconnected, DecryptItem,
           FinishOutput
  <2> QED BY <2>1, QueuesAre
<1>2. SyncFollows(uplink) /\ SyncFollows(received) /\ BatchIsLast
  BY <1>1 DEF FollowInv
<1>3. uplink \in Seq(Frames) /\ received \in Seq(Frames)
  BY DEF TypeOK
<1>4. CASE Produce
  <2> DEFINE e == [type |-> "output", life |-> life, lo |-> produced + 1, hi |-> produced + 1]
  <2>1. uplink' = Append(uplink, e) /\ UNCHANGED <<received, seated>> /\ e \in Frames
    BY <1>4, SentType DEF Produce, lineVars
  <2>2. SyncFollows(uplink')
    BY <1>2, <1>3, <2>1, FollowGrows
  <2>3. IF uplink = <<>> THEN uplink'[1] = e ELSE uplink'[1] = uplink[1]
    BY <1>3, <2>1, FirstStays
  <2>4. SyncIsNext' => SyncIsNext /\ uplink'[1] = uplink[1]
    BY <2>3 DEF SyncIsNext
  <2> QED BY <1>2, <2>1, <2>2, <2>4 DEF BatchIsLast, FollowInv
<1>5. CASE CliAnswers
  <2> DEFINE one == Append(uplink, Batch)
  <2>1. UNCHANGED <<received, seated>>
    BY <1>5 DEF CliAnswers, lineVars
  <2>2. /\ Batch \in Frames /\ Sync \in Frames /\ one \in Seq(Frames)
        /\ uplink' = Append(one, Sync) /\ one # <<>> /\ one[Len(one)] = Batch
        /\ Batch.type = "catchup_batch" /\ Batch.hi = produced
        /\ Sync.type = "sync_complete" /\ Sync.currentSeq = produced
        /\ IF uplink = <<>> THEN uplink'[1] = Batch ELSE uplink'[1] = uplink[1]
    BY <1>5, AnswerIs
  <2>3. SyncFollows(one)
    BY <1>2, <1>3, <2>2, FollowGrows
  <2>4. SyncFollows(uplink')
    BY <2>2, <2>3, FollowGrows DEF Answers
  <2>5. SyncIsNext' => SyncIsNext /\ uplink'[1] = uplink[1]
    BY <2>2 DEF SyncIsNext
  <2> QED BY <1>2, <2>1, <2>4, <2>5 DEF BatchIsLast, FollowInv
<1>6. CASE Forward
  <2> DEFINE f == uplink[1]
  <2>1. /\ uplink # <<>> /\ uplink' = Tail(uplink) /\ f = Head(uplink) /\ f \in Frames
        /\ received' = (IF seated THEN Append(received, f) ELSE received)
        /\ UNCHANGED seated
    BY <1>3, <1>6, TailIs DEF Forward, lineVars
  <2>2. SyncFollows(uplink')
    BY <1>2, <1>3, <2>1, TailFollows
  <2>3. seated => SyncFollows(Append(received, f))
    <3>1. seated /\ f.type = "sync_complete" /\ received # <<>> => Answers(received[Len(received)], f)
      BY <1>2, <2>1 DEF BatchIsLast, SyncIsNext
    <3> QED BY <1>2, <1>3, <2>1, <3>1, FollowGrows
  <2>4. BatchIsLast'
    <3> SUFFICES ASSUME seated, SyncIsNext' PROVE Answers(received'[Len(received')], uplink'[1])
      BY <2>1 DEF BatchIsLast
    <3>1. Answers(f, uplink'[1])
      BY <1>2, <1>3, <2>1, TailFollows DEF SyncIsNext
    <3>2. received'[Len(received')] = f
      BY <1>3, <2>1, FirstStays
    <3> QED BY <3>1, <3>2
  <2> QED BY <1>2, <2>1, <2>2, <2>3, <2>4 DEF FollowInv
<1>7. CASE Drop
  <2>1. PICK n \in 0 .. Len(received) : received' = SubSeq(received, 1, n)
    <3>1. Len(received) \in Nat
      BY EmptyIs DEF TypeOK
    <3> QED BY <1>7, <3>1 DEF Drop
  <2>2. seated' = FALSE /\ uplink' = uplink
    BY <1>7 DEF Drop
  <2> QED BY <1>2, <1>3, <2>1, <2>2, PrefixFollows DEF BatchIsLast, FollowInv
<1>8. CASE Reopen
  BY <1>2, <1>8, EmptyFollows DEF Reopen, BatchIsLast, FollowInv
<1>9. CASE Opened \/ Wake \/ ProbeTimesOut \/ UNCHANGED vars
  <2>1. UNCHANGED <<uplink, received, seated>>
    BY <1>9 DEF Opened, Wake, ProbeTimesOut, vars, lineVars
  <2> QED BY <1>2, <2>1 DEF BatchIsLast, SyncIsNext, FollowInv
<1>10. CASE TakeOutput \/ HandleSync \/ HandleReconnected
  <2>1. received # <<>> /\ received' = Tail(received) /\ UNCHANGED <<uplink, seated>>
    BY <1>10 DEF TakeOutput, HandleSync, HandleReconnected, MayTake, lineVars
  <2>2. SyncFollows(received')
        /\ (received' # <<>> => received'[Len(received')] = received[Len(received)])
    BY <1>2, <1>3, <2>1, TailFollows
  <2> QED BY <1>2, <2>1, <2>2 DEF BatchIsLast, SyncIsNext, FollowInv
<1>11. ASSUME NEW i \in DOMAIN handlers, DecryptItem(i) \/ FinishOutput(i)
       PROVE  FollowInv'
  <2>1. UNCHANGED <<uplink, received, seated>>
    BY <1>11 DEF DecryptItem, FinishOutput, lineVars
  <2> QED BY <1>2, <2>1 DEF BatchIsLast, SyncIsNext, FollowInv
<1>12. ~CliRestarts
  BY <1>1 DEF CliRestarts
<1> QED BY <1>4, <1>5, <1>6, <1>7, <1>8, <1>9, <1>10, <1>11, <1>12
    DEF Next

-----------------------------------------------------------------------------
(* A step keeps every chunk up to lastSeq accounted for *)

LEMMA CoversMore ==
  ASSUME NEW a, NEW b, a \subseteq b, NEW d, NEW n, Covers(a, d, n)
  PROVE  Covers(b, d, n)
BY DEF Covers

LEMMA CoversLess ==
  ASSUME NEW a, NEW d, NEW n \in Nat, NEW m \in Nat, m <= n, Covers(a, d, n)
  PROVE  Covers(a, d, m)
<1>1. \A s \in 1 .. m : s \in 1 .. n
  OBVIOUS
<1> QED BY <1>1, Zenon DEF Covers

\* What is drawn from lo to hi lies behind nothing that was not accounted for.
LEMMA CoversDrawn ==
  ASSUME NEW a, NEW b, a \subseteq b, NEW d, NEW n \in Nat, NEW lo \in Nat, NEW hi \in Nat,
         n <= hi, \A s \in lo .. hi : <<1, s>> \in b, Covers(a, d, n),
         NEW new, \A t \in Nat : <<1, t>> \in new => lo <= t
  PROVE  Covers(b, d \cup new, n)
<1> SUFFICES ASSUME NEW s \in 1 .. n, <<1, s>> \notin b
             PROVE  \A t \in 1 .. s : <<1, t>> \notin d \cup new
  BY DEF Covers
<1>1. \A t \in 1 .. s : <<1, t>> \notin d
  BY DEF Covers
<1>2. s < lo
  OBVIOUS
<1>3. \A t \in 1 .. s : t \in Nat /\ ~(lo <= t)
  BY <1>2
<1> QED BY <1>1, <1>3, Zenon

\* What the handlers add to what is accounted for.
LEMMA AccountedIs ==
  /\ handlers = <<>> => Accounted = drawn \cup marked
  /\ DOMAIN handlers = {1} => Accounted = drawn \cup marked \cup Carried(handlers[1])
  /\ handlers' = <<>> => Accounted' = drawn' \cup marked'
  /\ DOMAIN handlers' = {1} => Accounted' = drawn' \cup marked' \cup Carried(handlers'[1])
BY EmptyIs DEF Accounted

LEMMA CoverAfterTake ==
  ASSUME TypeOK, QueueInv, FollowInv, CoverInv, TakeOutput, life = 1, ~parted
  PROVE  CoverInv'
<1> DEFINE f == received[1]
           rest == Tail(received)
           taken == Append(<<>>, f)
           gap == Gap(1, f.lo)
<1>1. /\ received # <<>> /\ received' = rest /\ handlers = <<>>
      /\ UNCHANGED <<life, produced, garbled, uplink, lastSeq, drawn, seated, parted>>
  BY DEF TakeOutput, MayTake, cliVars, lineVars
<1>2. /\ f = Head(received) /\ f \in Frames /\ f.type \in {"output", "catchup_batch"}
      /\ f.life = 1 /\ f.life \in 1 .. MaxLives
      /\ f.lo \in 1 .. MaxSeq + 1 /\ f.hi \in 0 .. MaxSeq
      /\ f.type = "catchup_batch" /\ f.lo > f.hi => f.hi <= lastSeq
  BY <1>1, TakenIs, FrameIs DEF TakeOutput, FirstIs
<1>3. /\ handlers' = taken /\ DOMAIN taken = {1} /\ taken[1] = f
      /\ marked \subseteq marked'
      /\ f.type = "catchup_batch" /\ f.lo <= f.hi => gap \subseteq marked'
  BY <1>1, <1>2, SingleIs DEF TakeOutput
<1>4. /\ Known = drawn \cup marked \cup garbled
      /\ Known' = drawn \cup marked' \cup Carried(f) \cup garbled
  BY <1>1, <1>3, AccountedIs DEF Known
<1>5. Covers(Known, drawn, lastSeq) /\ lastSeq \in Nat
  BY QueuesAre DEF CoverInv, CoveredTo
<1>6. Covers(Known', drawn', lastSeq')
  BY <1>1, <1>3, <1>4, <1>5, CoversMore
<1>7. ASSUME f.type = "catchup_batch" PROVE Covers(Known', drawn', f.hi)
  <2> SUFFICES ASSUME NEW s \in 1 .. f.hi, <<1, s>> \notin Known'
               PROVE  \A t \in 1 .. s : <<1, t>> \notin drawn'
    BY DEF Covers
  <2>1. CASE s <= lastSeq
    <3>1. s \in 1 .. lastSeq
      BY <1>2, <1>5, <2>1, BoundsAre
    <3> QED BY <1>1, <1>6, <3>1, Zenon DEF Covers
  <2>2. CASE s > lastSeq
    <3>1. f.lo <= f.hi
      BY <1>2, <1>5, <1>7, <2>2, BoundsAre
    <3>2. s < f.lo
      <4>1. s >= f.lo => <<1, s>> \in Carried(f)
        BY <1>2, TextIs, BoundsAre
      <4> QED BY <1>2, <1>4, <4>1, BoundsAre
    <3>3. lastSeq = 0
      <4>1. lastSeq # 0 => <<1, s>> \in gap
        BY <1>2, <1>5, <2>2, <3>2, BoundsAre DEF Gap
      <4> QED BY <1>3, <1>4, <1>7, <3>1, <4>1
    <3>4. \A t \in Seqs : <<1, t>> \in drawn => t <= 0
      BY <3>3 DEF QueueInv, BehindInv
    <3>5. \A t \in 1 .. s : t \in Seqs /\ ~(t <= 0)
      BY <1>2, BoundsAre DEF Seqs
    <3> QED BY <1>1, <3>4, <3>5, Zenon
  <2>3. s <= lastSeq \/ s > lastSeq
    BY <1>2, <1>5, BoundsAre
  <2> QED BY <2>1, <2>2, <2>3, Zenon
<1>8. SyncNext'
  <2>1. received' # <<>> /\ received'[1].type = "sync_complete" => BatchTaken(received[1].currentSeq)'
    <3> SUFFICES ASSUME rest # <<>>, rest[1].type = "sync_complete"
                 PROVE  BatchTaken(received[1].currentSeq)'
      BY <1>1
    <3>1. Answers(f, rest[1])
      BY <1>1, QueuesAre, TailFollows DEF FollowInv
    <3> QED BY <1>1, <1>3, <1>7, <3>1 DEF BatchTaken, CoveredTo, Answers
  <2>2. (seated /\ SyncIsNext /\ received = <<>>)' => BatchTaken(uplink[1].currentSeq)'
    <3> SUFFICES ASSUME seated, SyncIsNext, rest = <<>>
                 PROVE  BatchTaken(uplink[1].currentSeq)'
      BY <1>1 DEF SyncIsNext
    <3>1. Answers(f, uplink[1])
      BY <1>1, QueuesAre, TailFollows DEF FollowInv, BatchIsLast
    <3> QED BY <1>1, <1>3, <1>7, <3>1 DEF BatchTaken, CoveredTo, Answers
  <2> QED BY <2>1, <2>2 DEF SyncNext
<1> QED BY <1>3, <1>6, <1>7, <1>8 DEF CoverInv, CoveredTo

LEMMA CoverAfterFinish ==
  ASSUME TypeOK, QueueInv, CoverInv, NEW i \in DOMAIN handlers, FinishOutput(i),
         life = 1, ~parted
  PROVE  CoverInv'
<1> DEFINE h == handlers[1]
<1>1. /\ DOMAIN handlers = {1} /\ h.type \in {"output", "catchup_batch"} /\ h.life = 1
      /\ h.lo \in Nat /\ h.hi \in Nat
      /\ h.life \in 1 .. MaxLives /\ h.lo \in 1 .. MaxSeq + 1 /\ h.hi \in 0 .. MaxSeq
      /\ lastSeq' <= h.hi /\ lastSeq <= h.hi /\ lastSeq \in Nat /\ lastSeq' \in Nat
      /\ lastSeq' \in {lastSeq} \cup Readable(h)
      /\ handlers' = <<>> /\ drawn' = drawn \cup Text(h) /\ marked \subseteq marked'
      /\ h.type = "output" => h.lo = h.hi
      /\ h.type = "output" /\ Text(h) # {} => Gap(h.life, h.lo) \subseteq marked'
      /\ UNCHANGED <<life, garbled, uplink, received>>
  BY FinishedIs, QueuesAre, BoundsAre
<1>2. UNCHANGED <<seated, parted>>
  BY DEF FinishOutput, lineVars
<1>3. /\ Known = drawn \cup marked \cup Carried(h) \cup garbled
      /\ Known' = drawn' \cup marked' \cup garbled
  BY <1>1, AccountedIs DEF Known
<1>4. Known \subseteq Known' /\ \A s \in h.lo .. h.hi : <<1, s>> \in Known'
  <2>1. \A s \in h.lo .. h.hi : <<1, s>> \in Carried(h)
    BY <1>1 DEF Carried
  <2>2. Carried(h) \subseteq Text(h) \cup garbled
    BY <1>1, TextIs
  <2> QED BY <1>1, <1>3, <2>1, <2>2
<1>5. \A t \in Nat : <<1, t>> \in Text(h) => h.lo <= t
  BY <1>1, TextIs
<1>6. ASSUME NEW n \in Nat, n <= h.hi, Covers(Known, drawn, n)
      PROVE  Covers(Known', drawn', n)
  BY <1>1, <1>4, <1>5, <1>6, CoversDrawn
<1>7. Covers(Known', drawn', lastSeq')
  <2>1. CASE h.type = "catchup_batch"
    <3>1. Covers(Known, drawn, h.hi)
      BY <1>1, <2>1 DEF CoverInv, CoveredTo
    <3>2. Covers(Known', drawn', h.hi)
      <4>1. h.hi \in Nat /\ h.hi <= h.hi
        BY <1>1
      <4> QED BY <1>6, <3>1, <4>1, Zenon
    <3> QED BY <1>1, <3>2, CoversLess
  <2>2. CASE h.type = "output"
    <3>1. Covers(Known', drawn', lastSeq)
      BY <1>1, <1>6 DEF CoverInv, CoveredTo
    <3> SUFFICES ASSUME NEW s \in 1 .. lastSeq', <<1, s>> \notin Known'
                 PROVE  \A t \in 1 .. s : <<1, t>> \notin drawn'
      BY DEF Covers
    <3>2. CASE s <= lastSeq
      <4>1. s \in 1 .. lastSeq
        BY <1>1, <3>2
      <4> QED BY <3>1, <4>1, Zenon DEF Covers
    <3>3. CASE s > lastSeq
      <4>1. s < h.lo
        BY <1>1, <1>4, <2>2
      <4>2. lastSeq = 0
        <5>1. lastSeq # 0 => <<1, s>> \in Gap(h.life, h.lo)
          BY <1>1, <3>3, <4>1 DEF Gap
        <5>2. lastSeq' \in Readable(h)
          BY <1>1, <3>3
        <5>3. <<h.life, lastSeq'>> \in Text(h)
          BY <1>1, <5>2, TextIs
        <5> QED BY <1>1, <1>3, <2>2, <5>1, <5>3
      <4>3. \A t \in Seqs : <<1, t>> \in drawn => t <= 0
        BY <4>2 DEF QueueInv, BehindInv
      <4>4. \A t \in 1 .. s : t \in Seqs /\ ~(t <= 0) /\ ~(h.lo <= t) /\ t \in Nat
        <5>1. h.hi <= MaxSeq
          BY FinishedIs, BoundsAre
        <5> QED BY <1>1, <4>1, <5>1, BoundsAre DEF Seqs
      <4>5. drawn' = drawn \cup Text(h)
        BY <1>1
      <4> QED BY <1>5, <4>3, <4>4, <4>5, Zenon
    <3>4. s <= lastSeq \/ s > lastSeq
      BY <1>1
    <3> QED BY <3>2, <3>3, <3>4, Zenon
  <2> QED BY <1>1, <2>1, <2>2
<1>8. ASSUME NEW n, BatchTaken(n) PROVE n = h.hi /\ Covers(Known', drawn', n)
  <2>1. n = h.hi /\ Covers(Known, drawn, n)
    BY <1>1, <1>8 DEF BatchTaken, CoveredTo
  <2>2. h.hi \in Nat /\ h.hi <= h.hi
    BY <1>1
  <2> QED BY <1>6, <2>1, <2>2, Zenon
<1>9. SyncNext'
  <2>1. \A j \in DOMAIN handlers' : FALSE
    BY <1>1, EmptyIs
  <2>2. received # <<>> /\ received[1].type = "sync_complete" => BatchTaken(received[1].currentSeq)'
    <3> SUFFICES ASSUME received # <<>>, received[1].type = "sync_complete"
                 PROVE  BatchTaken(received[1].currentSeq)'
      OBVIOUS
    <3>1. BatchTaken(received[1].currentSeq)
      BY DEF CoverInv, SyncNext
    <3> QED BY <1>1, <1>8, <2>1, <3>1 DEF BatchTaken, CoveredTo
  <2>3. seated /\ SyncIsNext /\ received = <<>> => BatchTaken(uplink[1].currentSeq)'
    <3> SUFFICES ASSUME seated, SyncIsNext, received = <<>>
                 PROVE  BatchTaken(uplink[1].currentSeq)'
      OBVIOUS
    <3>1. BatchTaken(uplink[1].currentSeq)
      BY DEF CoverInv, SyncNext
    <3> QED BY <1>1, <1>8, <2>1, <3>1 DEF BatchTaken, CoveredTo
  <2> QED BY <1>1, <1>2, <2>2, <2>3 DEF SyncNext, SyncIsNext
<1> QED BY <1>1, <1>7, <1>9, EmptyIs DEF CoverInv, CoveredTo

\* Actions that neither handle nor draw.
LEMMA CoverStays ==
  ASSUME CoverInv, life = 1, ~parted, UNCHANGED <<drawn, marked, handlers, lastSeq>>,
         garbled \subseteq garbled', SyncNext'
  PROVE  CoverInv'
<1>1. Known \subseteq Known'
  BY DEF Known, Accounted
<1>2. \A n : Covers(Known, drawn, n) => Covers(Known', drawn', n)
  BY <1>1, CoversMore
<1> QED BY <1>2 DEF CoverInv, CoveredTo

LEMMA CoverStep ==
  ASSUME TypeOK, QueueInv, FollowInv, CoverInv, [Next]_vars
  PROVE  CoverInv'
<1> SUFFICES ASSUME life' = 1, ~parted'
             PROVE  CoverInv'
  BY DEF CoverInv
<1>1. life = 1 /\ ~parted
  <2>1. life' = life \/ life' = life + 1
    BY DEF Next, vars, cliVars, Produce, CliAnswers, CliRestarts, Forward, Drop, Reopen, Opened,
           Wake, ProbeTimesOut, TakeOutput, HandleSync, HandleReconnected, DecryptItem,
           FinishOutput
  <2>2. parted => parted'
    BY DEF Next, vars, lineVars, Produce, CliAnswers, CliRestarts, Forward, Drop, Reopen, Opened,
           Wake, ProbeTimesOut, TakeOutput, HandleSync, HandleReconnected, DecryptItem,
           FinishOutput
  <2> QED BY <2>1, <2>2, QueuesAre
<1>2. /\ SyncNext /\ SyncFollows(uplink) /\ SyncFollows(received) /\ BatchIsLast
      /\ Covers(Known, drawn, lastSeq)
  BY <1>1 DEF CoverInv, CoveredTo, FollowInv
<1>3. uplink \in Seq(Frames) /\ received \in Seq(Frames)
  BY DEF TypeOK
<1>4. ASSUME UNCHANGED <<drawn, marked, handlers>>, garbled \subseteq garbled',
             NEW n, BatchTaken(n)
      PROVE  BatchTaken(n)'
  <2>1. Known \subseteq Known'
    BY <1>4 DEF Known, Accounted
  <2> QED BY <1>4, <2>1, CoversMore DEF BatchTaken, CoveredTo
<1>5. ASSUME UNCHANGED <<drawn, marked, handlers, lastSeq, received, seated>>,
             garbled \subseteq garbled', SyncIsNext' => SyncIsNext /\ uplink'[1] = uplink[1]
      PROVE  CoverInv'
  <2>1. SyncNext'
    BY <1>2, <1>4, <1>5 DEF SyncNext
  <2> QED BY <1>1, <1>5, <2>1, CoverStays
<1>6. CASE Produce
  <2> DEFINE e == [type |-> "output", life |-> life, lo |-> produced + 1, hi |-> produced + 1]
  <2>1. uplink' = Append(uplink, e) /\ e \in Frames
        /\ UNCHANGED <<drawn, marked, handlers, lastSeq, received, seated>>
        /\ garbled \subseteq garbled'
    BY <1>6, SentType DEF Produce, lineVars, shownVars
  <2>2. SyncIsNext' => SyncIsNext /\ uplink'[1] = uplink[1]
    BY <1>3, <2>1, FirstStays DEF SyncIsNext
  <2> QED BY <1>5, <2>1, <2>2
<1>7. CASE CliAnswers
  <2>1. UNCHANGED <<garbled, drawn, marked, handlers, lastSeq, received, seated>>
    BY <1>7 DEF CliAnswers, cliVars, lineVars, shownVars
  <2>2. SyncIsNext' => SyncIsNext /\ uplink'[1] = uplink[1]
    BY <1>7, AnswerIs DEF SyncIsNext
  <2> QED BY <1>5, <2>1, <2>2
<1>8. CASE Forward
  <2> DEFINE f == uplink[1]
  <2>1. /\ uplink # <<>> /\ uplink' = Tail(uplink) /\ f = Head(uplink) /\ f \in Frames
        /\ received' = (IF seated THEN Append(received, f) ELSE received)
        /\ UNCHANGED <<garbled, drawn, marked, handlers, lastSeq, seated>>
    BY <1>3, <1>8, TailIs DEF Forward, cliVars, lineVars, shownVars
  <2>2. SyncNext'
    <3>1. seated => received' # <<>>
      BY <1>3, <2>1, FirstStays
    <3>2. received' # <<>> /\ received'[1].type = "sync_complete" =>
            BatchTaken(received'[1].currentSeq)
      <4>1. CASE received = <<>>
        BY <1>2, <1>3, <2>1, <4>1, FirstStays DEF SyncNext, SyncIsNext
      <4>2. CASE received # <<>>
        BY <1>2, <1>3, <2>1, <4>2, FirstStays DEF SyncNext
      <4> QED BY <4>1, <4>2
    <3> QED BY <1>4, <2>1, <3>1, <3>2 DEF SyncNext
  <2> QED BY <1>1, <2>1, <2>2, CoverStays
<1>9. CASE Drop
  <2>1. PICK n \in 0 .. Len(received) : received' = SubSeq(received, 1, n)
    <3>1. Len(received) \in Nat
      BY EmptyIs DEF TypeOK
    <3> QED BY <1>9, <3>1 DEF Drop
  <2>2. seated' = FALSE /\ UNCHANGED <<garbled, drawn, marked, handlers, lastSeq>>
    BY <1>9 DEF Drop, cliVars, shownVars
  <2>3. received' # <<>> => received # <<>> /\ received'[1] = received[1]
    <3>1. /\ Len(received') = n /\ received' \in Seq(Frames)
          /\ \A i \in 1 .. n : received'[i] = received[i]
      BY <1>3, <2>1, PrefixIs
    <3>2. received' # <<>> => n > 0
      BY <3>1, EmptyIs
    <3>3. n > 0 => Len(received) > 0 /\ 1 \in 1 .. n
      BY <1>3
    <3> QED BY <1>3, <3>1, <3>2, <3>3, EmptyIs
  <2>4. SyncNext'
    BY <1>2, <1>4, <2>2, <2>3 DEF SyncNext
  <2> QED BY <1>1, <2>2, <2>4, CoverStays
<1>10. CASE Reopen
  <2>1. UNCHANGED <<garbled, drawn, marked, handlers, lastSeq, uplink>> /\ received' = <<>>
        /\ parted' = (parted \/ BetweenTheTwo)
    BY <1>10 DEF Reopen, cliVars, shownVars
  <2>2. ~SyncIsNext'
    BY <1>3, <2>1, TailIs DEF BetweenTheTwo, SyncIsNext
  <2>3. SyncNext'
    BY <2>1, <2>2 DEF SyncNext
  <2> QED BY <1>1, <2>1, <2>3, CoverStays
<1>11. CASE Opened \/ Wake \/ ProbeTimesOut \/ UNCHANGED vars
  <2>1. UNCHANGED <<garbled, drawn, marked, handlers, lastSeq, received, seated, uplink>>
    BY <1>11 DEF Opened, Wake, ProbeTimesOut, vars, cliVars, lineVars, shownVars
  <2> QED BY <1>5, <2>1 DEF SyncIsNext
<1>12. CASE TakeOutput
  BY <1>1, <1>12, CoverAfterTake
<1>13. CASE HandleSync
  <2> DEFINE f == received[1]
  <2>1. /\ received # <<>> /\ received' = Tail(received) /\ f = Head(received) /\ f \in Frames
        /\ f.type = "sync_complete" /\ lastSeq' = Greater(lastSeq, f.currentSeq)
        /\ handlers = <<>> /\ UNCHANGED <<garbled, drawn, marked, handlers, uplink, seated>>
    BY <1>3, <1>13, TailIs DEF HandleSync, MayTake, Synced, cliVars, lineVars, shownVars
  <2>2. Covers(Known, drawn, f.currentSeq)
    BY <1>2, <2>1 DEF SyncNext, BatchTaken, CoveredTo
  <2>3. Covers(Known', drawn', lastSeq')
    <3>1. Known' = Known
      BY <2>1 DEF Known, Accounted
    <3>2. lastSeq' = lastSeq \/ lastSeq' = f.currentSeq
      BY <2>1 DEF Greater
    <3> QED BY <1>2, <2>1, <2>2, <3>1, <3>2
  <2>4. SyncNext'
    <3>1. ~(received' # <<>> /\ received'[1].type = "sync_complete")
      BY <1>2, <1>3, <2>1, TailFollows DEF Answers
    <3>2. ~(seated' /\ SyncIsNext' /\ received' = <<>>)
      BY <1>2, <1>3, <2>1, TailFollows DEF Answers, SyncIsNext, BatchIsLast
    <3> QED BY <3>1, <3>2 DEF SyncNext
  <2> QED BY <2>1, <2>3, <2>4, EmptyIs DEF CoverInv, CoveredTo
<1>14. ~HandleReconnected /\ ~CliRestarts
  BY <1>1, QueueAfterReconnected DEF CliRestarts
<1>15. ASSUME NEW i \in DOMAIN handlers, DecryptItem(i) PROVE CoverInv'
  <2> DEFINE h == handlers[1]
  <2>1. /\ i = 1 /\ DOMAIN handlers = {1} /\ h.type = "catchup_batch"
        /\ h.life \in 1 .. MaxLives /\ h.lo \in 1 .. MaxSeq + 1 /\ h.hi \in 0 .. MaxSeq
        /\ h.hi \in Nat /\ lastSeq' \in Readable(h)
        /\ UNCHANGED <<garbled, drawn, marked, handlers, uplink, received, seated>>
    BY <1>15, HandlerIs, BoundsAre DEF DecryptItem, cliVars, lineVars, shownVars
  <2>2. lastSeq' \in Nat /\ lastSeq' <= h.hi
    BY <2>1, TextIs
  <2>3. Covers(Known, drawn, h.hi)
    BY <1>1, <2>1 DEF CoverInv, CoveredTo
  <2>4. Known' = Known
    BY <2>1 DEF Known, Accounted
  <2>5. Covers(Known', drawn', lastSeq') /\ Covers(Known', drawn', h.hi)
    BY <2>1, <2>2, <2>3, <2>4, CoversLess
  <2>6. SyncNext'
    BY <1>2, <1>4, <2>1 DEF SyncNext, SyncIsNext
  <2> QED BY <2>1, <2>5, <2>6 DEF CoverInv, CoveredTo
<1>16. ASSUME NEW i \in DOMAIN handlers, FinishOutput(i) PROVE CoverInv'
  BY <1>1, <1>16, CoverAfterFinish
<1> QED BY <1>6, <1>7, <1>8, <1>9, <1>10, <1>11, <1>12, <1>13, <1>14, <1>15, <1>16 DEF Next

-----------------------------------------------------------------------------
(* A step keeps what is under way going on from what was heard, to the last chunk *)

LEMMA StepsGrow ==
  ASSUME NEW s \in Seq(Frames), NEW e \in Frames, StepsUp(s),
         s # <<>> => Top(e) <= Top(s[Len(s)]) + 1
  PROVE  StepsUp(Append(s, e))
<1> DEFINE more == Append(s, e)
<1>1. DOMAIN more = 1 .. Len(s) + 1 /\ DOMAIN s = 1 .. Len(s) /\ Len(s) \in Nat
      /\ (\A i \in 1 .. Len(s) : more[i] = s[i]) /\ more[Len(s) + 1] = e
  BY AppendIs
<1> HIDE DEF more
<1> SUFFICES ASSUME NEW k \in DOMAIN more, k > 1
             PROVE  Top(more[k]) <= Top(more[k - 1]) + 1
  BY DEF StepsUp, more
<1>2. CASE k \in 1 .. Len(s)
  <2>1. k - 1 \in 1 .. Len(s) /\ more[k - 1] = s[k - 1] /\ more[k] = s[k]
    BY <1>1, <1>2
  <2> QED BY <1>1, <1>2, <2>1 DEF StepsUp
<1>3. CASE k = Len(s) + 1
  <2>1. Len(s) \in 1 .. Len(s) /\ k - 1 = Len(s)
    BY <1>1, <1>3
  <2>2. more[k - 1] = s[Len(s)] /\ more[k] = e
    BY <1>1, <1>3, <2>1
  <2>3. s # <<>>
    BY <1>1, <2>1, EmptyIs
  <2> QED BY <2>2, <2>3
<1> QED BY <1>1, <1>2, <1>3

LEMMA TailSteps ==
  ASSUME NEW s \in Seq(Frames), s # <<>>, StepsUp(s)
  PROVE  /\ StepsUp(Tail(s))
         /\ Tail(s) # <<>> => Top(Tail(s)[1]) <= Top(s[1]) + 1
<1>1. /\ Len(s) \in Nat /\ Len(s) > 0 /\ DOMAIN s = 1 .. Len(s)
      /\ Tail(s) \in Seq(Frames) /\ Len(Tail(s)) = Len(s) - 1
      /\ DOMAIN Tail(s) = 1 .. Len(s) - 1
      /\ \A i \in 1 .. Len(s) - 1 : Tail(s)[i] = s[i + 1]
  BY TailIs
<1>2. ASSUME NEW k \in DOMAIN Tail(s), k > 1
      PROVE  Top(Tail(s)[k]) <= Top(Tail(s)[k - 1]) + 1
  <2>1. /\ k + 1 \in DOMAIN s /\ k + 1 > 1 /\ Tail(s)[k] = s[k + 1]
        /\ Tail(s)[k - 1] = s[k] /\ (k + 1) - 1 = k
    BY <1>1, <1>2
  <2> QED BY <2>1 DEF StepsUp
<1>3. ASSUME Tail(s) # <<>> PROVE Top(Tail(s)[1]) <= Top(s[1]) + 1
  <2>1. Len(s) - 1 > 0
    BY <1>1, <1>3, EmptyIs
  <2>2. Tail(s)[1] = s[2] /\ 2 \in DOMAIN s /\ 2 - 1 = 1 /\ 2 > 1
    BY <1>1, <2>1
  <2> QED BY <2>2 DEF StepsUp
<1> QED BY <1>2, <1>3 DEF StepsUp

\* What was heard stays heard, up to less, with more that does not decrypt or from further.
LEMMA HeardLess ==
  ASSUME NEW g, NEW b, g \subseteq b, NEW q \in Int, NEW r \in Int, q <= r,
         NEW n \in Int, NEW m \in Int, m <= n, HeardTo(g, q, n)
  PROVE  HeardTo(b, r, m)
<1>1. \A s \in Seqs : s \in Nat
  BY BoundsAre DEF Seqs
<1> QED BY <1>1 DEF HeardTo

\* In the first life every frame under way is about a chunk.
LEMMA TopsAre ==
  ASSUME TypeOK, QueueInv, life = 1
  PROVE  /\ received # <<>> => Top(received[1]) \in Nat /\ Top(received[Len(received)]) \in Nat
         /\ uplink # <<>> => Top(uplink[1]) \in Nat /\ Top(uplink[Len(uplink)]) \in Nat
         /\ handlers # <<>> => Top(handlers[1]) \in Nat
         /\ Passed(received, uplink, produced) \in Int
         /\ produced \in Nat /\ lastSeq \in Nat
<1>1. ASSUME NEW s \in Seq(Frames), Fine(life, produced, lastSeq, newest, s), s # <<>>
      PROVE  Top(s[1]) \in Nat /\ Top(s[Len(s)]) \in Nat
  <2>1. 1 \in DOMAIN s /\ Len(s) \in DOMAIN s
    BY <1>1, TailIs
  <2>2. \A i \in DOMAIN s : s[i] \in Frames /\ s[i].type # "cli_reconnected"
    BY <1>1, ElementIs DEF Fine, FirstIs
  <2> QED BY <2>1, <2>2, TopType, BoundsAre
<1>2. /\ handlers # <<>> => Top(handlers[1]) \in Nat
      /\ received # <<>> => Top(received[1]) \in Nat /\ Top(received[Len(received)]) \in Nat
      /\ uplink # <<>> => Top(uplink[1]) \in Nat /\ Top(uplink[Len(uplink)]) \in Nat
  BY <1>1, QueuesAre
<1> QED BY <1>2, QueuesAre DEF Passed

\* The CLI sends a chunk, or a batch and its sync_complete.
LEMMA EndAfterSend ==
  ASSUME TypeOK, QueueInv, EndInv, life = 1, Produce \/ CliAnswers
  PROVE  EndInv'
<1>1. /\ uplink # <<>> => Top(uplink[Len(uplink)]) = produced
      /\ StepsUp(uplink)
      /\ seated /\ uplink = <<>> /\ received # <<>> => Top(received[Len(received)]) = produced
      /\ seated => StepsUp(received)
      /\ seated /\ received # <<>> /\ uplink # <<>> =>
           Top(uplink[1]) <= Top(received[Len(received)]) + 1
      /\ uplink \in Seq(Frames) /\ received \in Seq(Frames) /\ produced \in Nat
  BY TopsAre DEF EndInv, TypeOK
<1>2. /\ UNCHANGED <<life, received, handlers, lastSeq, seated, synced>>
      /\ garbled \subseteq garbled'
  BY DEF Produce, CliAnswers, cliVars, lineVars
<1>3. /\ uplink' # <<>> /\ StepsUp(uplink') /\ Top(uplink'[Len(uplink')]) = produced'
      /\ uplink # <<>> => uplink'[1] = uplink[1]
      /\ uplink = <<>> => Top(uplink'[1]) \in Nat /\ Top(uplink'[1]) - 1 <= produced
  <2>1. CASE Produce
    <3> DEFINE e == [type |-> "output", life |-> life, lo |-> produced + 1, hi |-> produced + 1]
    <3>1. uplink' = Append(uplink, e) /\ e \in Frames /\ produced' = produced + 1
      BY <2>1, SentType DEF Produce
    <3>2. Top(e) = produced + 1
      BY DEF Top
    <3> HIDE DEF e
    <3>3. StepsUp(uplink')
      BY <1>1, <3>1, <3>2, StepsGrow
    <3> QED BY <1>1, <3>1, <3>2, <3>3, FirstStays
  <2>2. CASE CliAnswers
    <3> DEFINE one == Append(uplink, Batch)
    <3>1. /\ Batch \in Frames /\ Sync \in Frames /\ one \in Seq(Frames)
          /\ uplink' = Append(one, Sync) /\ one # <<>> /\ one[Len(one)] = Batch
          /\ IF uplink = <<>> THEN uplink'[1] = Batch ELSE uplink'[1] = uplink[1]
          /\ produced' = produced
      BY <2>2, AnswerIs DEF CliAnswers, cliVars
    <3>2. Top(Batch) = produced /\ Top(Sync) = produced
      BY DEF Top, Batch, Sync
    <3>3. StepsUp(one)
      BY <1>1, <3>1, <3>2, StepsGrow
    <3> HIDE DEF one
    <3>4. StepsUp(uplink')
      BY <1>1, <3>1, <3>2, <3>3, StepsGrow
    <3> QED BY <1>1, <3>1, <3>2, <3>4, FirstStays
  <2> QED BY <2>1, <2>2
<1>4. seated /\ received # <<>> => Top(uplink'[1]) <= Top(received[Len(received)]) + 1
  BY <1>1, <1>3, TopsAre
<1>5. /\ Passed(received', uplink', produced') \in Int
      /\ Passed(received', uplink', produced') <= Passed(received, uplink, produced)
  BY <1>2, <1>3, TopsAre DEF Passed
<1>6. ASSUME NEW n \in Int, NEW m \in Int, m <= n, Heard(n)
      PROVE  HeardTo(garbled', lastSeq', m)
  BY <1>2, <1>6, HeardLess, TopsAre DEF Heard
<1>7. seated /\ synced =>
        IF handlers' # <<>>
        THEN /\ Passed(received', uplink', produced') <= Top(handlers'[1])
             /\ HeardTo(garbled', lastSeq', Top(handlers'[1]) - 1)
        ELSE HeardTo(garbled', lastSeq', Passed(received', uplink', produced'))
  <2> SUFFICES ASSUME seated, synced
               PROVE  IF handlers' # <<>>
                      THEN /\ Passed(received', uplink', produced') <= Top(handlers'[1])
                           /\ HeardTo(garbled', lastSeq', Top(handlers'[1]) - 1)
                      ELSE HeardTo(garbled', lastSeq', Passed(received', uplink', produced'))
    OBVIOUS
  <2>1. CASE handlers # <<>>
    <3>1. /\ Passed(received, uplink, produced) <= Top(handlers[1])
          /\ Heard(Top(handlers[1]) - 1)
      BY <2>1 DEF EndInv
    <3>2. Top(handlers[1]) \in Nat /\ Top(handlers[1]) - 1 \in Int
          /\ Passed(received, uplink, produced) \in Int
      BY <2>1, TopsAre
    <3>3. HeardTo(garbled', lastSeq', Top(handlers[1]) - 1)
      BY <1>6, <3>1, <3>2
    <3> QED BY <1>2, <1>5, <2>1, <3>1, <3>2, <3>3
  <2>2. CASE handlers = <<>>
    <3>1. Heard(Passed(received, uplink, produced))
      BY <2>2 DEF EndInv
    <3> QED BY <1>2, <1>5, <1>6, <2>2, <3>1, TopsAre
  <2> QED BY <2>1, <2>2
<1> QED BY <1>1, <1>2, <1>3, <1>4, <1>7 DEF EndInv, Heard

LEMMA EndAfterForward ==
  ASSUME TypeOK, QueueInv, EndInv, life = 1, Forward
  PROVE  EndInv'
<1> DEFINE f == uplink[1]
           more == Append(received, f)
<1>1. /\ uplink # <<>> => Top(uplink[Len(uplink)]) = produced
      /\ StepsUp(uplink)
      /\ seated => StepsUp(received)
      /\ seated /\ received # <<>> /\ uplink # <<>> =>
           Top(uplink[1]) <= Top(received[Len(received)]) + 1
      /\ uplink \in Seq(Frames) /\ received \in Seq(Frames) /\ produced \in Nat
  BY TopsAre DEF EndInv, TypeOK
<1>2. /\ uplink # <<>> /\ uplink' = Tail(uplink) /\ f = Head(uplink) /\ f \in Frames
      /\ received' = (IF seated THEN more ELSE received)
      /\ UNCHANGED <<life, produced, garbled, handlers, lastSeq, seated, synced>>
  BY <1>1, TailIs DEF Forward, cliVars, lineVars
<1>3. /\ StepsUp(uplink')
      /\ uplink' # <<>> => /\ Top(uplink'[1]) <= Top(f) + 1
                           /\ uplink'[Len(uplink')] = uplink[Len(uplink)]
      /\ uplink' = <<>> => Top(f) = produced
  BY <1>1, <1>2, TailSteps, TailFollows
<1>4. seated => /\ more # <<>> /\ more[Len(more)] = f /\ StepsUp(more)
                /\ more[1] = IF received # <<>> THEN received[1] ELSE f
  BY <1>1, <1>2, FirstStays, StepsGrow
<1>5. seated => Passed(received', uplink', produced') = Passed(received, uplink, produced)
  <2> SUFFICES ASSUME seated
               PROVE  Passed(received', uplink', produced') = Passed(received, uplink, produced)
    OBVIOUS
  <2>1. received' # <<>> /\ received'[1] = IF received # <<>> THEN received[1] ELSE uplink[1]
    BY <1>2, <1>4
  <2> QED BY <1>2, <2>1 DEF Passed
<1>6. seated /\ synced =>
        IF handlers' # <<>>
        THEN /\ Passed(received', uplink', produced') <= Top(handlers'[1])
             /\ HeardTo(garbled', lastSeq', Top(handlers'[1]) - 1)
        ELSE HeardTo(garbled', lastSeq', Passed(received', uplink', produced'))
  BY <1>2, <1>5 DEF EndInv, Heard
<1> HIDE DEF more
<1> QED BY <1>1, <1>2, <1>3, <1>4, <1>6 DEF EndInv, Heard

\* A frame leaves the inbox: what comes behind it goes on from it.
LEMMA PassedAfter ==
  ASSUME TypeOK, QueueInv, EndInv, life = 1, seated, received # <<>>
  PROVE  LET rest == Tail(received)
         IN /\ StepsUp(rest)
            /\ rest # <<>> => rest[Len(rest)] = received[Len(received)]
            /\ uplink = <<>> /\ rest # <<>> => Top(rest[Len(rest)]) = produced
            /\ rest # <<>> /\ uplink # <<>> => Top(uplink[1]) <= Top(rest[Len(rest)]) + 1
            /\ Passed(rest, uplink, produced) \in Int
            /\ Passed(rest, uplink, produced) <= Top(received[1])
<1> DEFINE rest == Tail(received)
<1>1. /\ StepsUp(received)
      /\ uplink = <<>> => Top(received[Len(received)]) = produced
      /\ uplink # <<>> => Top(uplink[1]) <= Top(received[Len(received)]) + 1
  BY DEF EndInv
<1>2. received \in Seq(Frames) /\ rest \in Seq(Frames)
  BY TailIs DEF TypeOK
<1>3. /\ StepsUp(rest)
      /\ rest # <<>> => /\ Top(rest[1]) <= Top(received[1]) + 1
                        /\ rest[Len(rest)] = received[Len(received)]
      /\ rest = <<>> => received[Len(received)] = received[1]
  BY <1>1, <1>2, TailSteps, TailFollows
<1>4. rest # <<>> => Top(rest[1]) \in Nat
  <2> SUFFICES ASSUME rest # <<>> PROVE Top(rest[1]) \in Nat
    OBVIOUS
  <2>1. Fine(life, produced, lastSeq, newest, rest) /\ 1 \in DOMAIN rest
    BY <1>2, TakenIs, TailIs
  <2> QED BY <1>2, <2>1, TopType, ElementIs, BoundsAre DEF Fine, FirstIs
<1> HIDE DEF rest
<1>5. /\ Passed(rest, uplink, produced) \in Int
      /\ Passed(rest, uplink, produced) <= Top(received[1])
  BY <1>1, <1>3, <1>4, TopsAre DEF Passed
<1> QED BY <1>1, <1>3, <1>5 DEF rest

LEMMA EndAfterTake ==
  ASSUME TypeOK, QueueInv, EndInv, life = 1, TakeOutput
  PROVE  EndInv'
<1> DEFINE f == received[1]
           rest == Tail(received)
<1>1. /\ received # <<>> /\ received' = rest /\ handlers = <<>>
      /\ f = Head(received) /\ f \in Frames /\ handlers' = Append(<<>>, f)
      /\ UNCHANGED <<life, produced, garbled, uplink, lastSeq, seated, synced>>
  BY TakenIs DEF TakeOutput, MayTake, cliVars, lineVars
<1>2. handlers' # <<>> /\ handlers'[1] = f
  BY <1>1, SingleIs
<1>3. seated => /\ StepsUp(rest)
                /\ uplink = <<>> /\ rest # <<>> => Top(rest[Len(rest)]) = produced
                /\ rest # <<>> /\ uplink # <<>> => Top(uplink[1]) <= Top(rest[Len(rest)]) + 1
                /\ Passed(rest, uplink, produced) <= Top(f)
  BY <1>1, PassedAfter
<1>4. seated /\ synced => HeardTo(garbled, lastSeq, Top(f) - 1)
  BY <1>1 DEF EndInv, Heard, Passed
<1> HIDE DEF f, rest
<1> QED BY <1>1, <1>2, <1>3, <1>4 DEF EndInv, Heard

LEMMA EndAfterSync ==
  ASSUME TypeOK, QueueInv, EndInv, life = 1, HandleSync
  PROVE  EndInv'
<1> DEFINE f == received[1]
           rest == Tail(received)
<1>1. /\ received # <<>> /\ received' = rest /\ handlers = <<>> /\ handlers' = <<>>
      /\ f = Head(received) /\ f \in Frames /\ f.type = "sync_complete"
      /\ lastSeq' = Greater(lastSeq, f.currentSeq)
      /\ UNCHANGED <<life, produced, garbled, uplink, seated>>
  BY TakenIs DEF HandleSync, MayTake, Synced, cliVars, lineVars
<1>2. Top(f) = f.currentSeq /\ f.currentSeq \in Nat
  BY <1>1, FrameIs, BoundsAre DEF Top
<1>3. lastSeq' \in Nat /\ Top(f) <= lastSeq'
  BY <1>1, <1>2, TopsAre DEF Greater
<1>4. seated => /\ StepsUp(rest)
                /\ uplink = <<>> /\ rest # <<>> => Top(rest[Len(rest)]) = produced
                /\ rest # <<>> /\ uplink # <<>> => Top(uplink[1]) <= Top(rest[Len(rest)]) + 1
                /\ Passed(rest, uplink, produced) <= Top(f)
                /\ Passed(rest, uplink, produced) \in Int
  BY <1>1, PassedAfter
<1>5. seated => HeardTo(garbled, lastSeq', Passed(rest, uplink, produced))
  <2>1. \A s \in Seqs : s \in Nat
    BY BoundsAre DEF Seqs
  <2> HIDE DEF f, rest
  <2> QED BY <1>2, <1>3, <1>4, <2>1 DEF HeardTo
<1> HIDE DEF f, rest
<1> QED BY <1>1, <1>4, <1>5 DEF EndInv, Heard

LEMMA EndAfterDecrypt ==
  ASSUME TypeOK, QueueInv, EndInv, life = 1, NEW i \in DOMAIN handlers, DecryptItem(i)
  PROVE  EndInv'
<1>1. /\ UNCHANGED <<life, produced, garbled, uplink, received, handlers, seated, synced>>
      /\ handlers # <<>> /\ lastSeq' > lastSeq
      /\ lastSeq' \in Readable(handlers[1])
      /\ handlers[1].life \in 1 .. MaxLives /\ handlers[1].lo \in 1 .. MaxSeq + 1
      /\ handlers[1].hi \in 0 .. MaxSeq
  BY HandlerIs DEF DecryptItem, cliVars, lineVars
<1>2. lastSeq' \in Int /\ lastSeq \in Int /\ lastSeq <= lastSeq' /\ Top(handlers[1]) - 1 \in Int
  BY <1>1, TextIs, TopsAre
<1>3. Heard(Top(handlers[1]) - 1) => HeardTo(garbled, lastSeq', Top(handlers[1]) - 1)
  BY <1>2, HeardLess DEF Heard
<1> QED BY <1>1, <1>3 DEF EndInv, Heard

\* A handled frame was heard to its end: what of it does not decrypt is all that lastSeq
\* has not passed.
LEMMA EndAfterFinish ==
  ASSUME TypeOK, QueueInv, EndInv, life = 1, NEW i \in DOMAIN handlers, FinishOutput(i)
  PROVE  EndInv'
<1> DEFINE h == handlers[1]
<1>1. /\ handlers # <<>> /\ handlers' = <<>> /\ Top(h) = h.hi /\ h.life = 1
      /\ h.life \in 1 .. MaxLives /\ h.lo \in 1 .. MaxSeq + 1 /\ h.hi \in 0 .. MaxSeq
      /\ h.lo > h.hi => h.hi <= lastSeq
      /\ lastSeq <= lastSeq' /\ lastSeq' \in Nat /\ lastSeq \in Nat
      /\ \A s \in Readable(h) : s <= lastSeq'
      /\ UNCHANGED <<life, produced, garbled, uplink, received, seated, synced>>
  BY FinishedIs, HandlerIs, QueuesAre DEF FinishOutput, cliVars, lineVars
<1>2. ASSUME HeardTo(garbled, lastSeq, Top(h) - 1)
      PROVE  HeardTo(garbled, lastSeq', Top(h))
  <2> SUFFICES ASSUME NEW s \in Seqs, lastSeq' < s, s <= h.hi
               PROVE  <<1, s>> \in garbled
    BY <1>1 DEF HeardTo
  <2>1. s \in Nat
    BY BoundsAre DEF Seqs
  <2>2. CASE s <= h.hi - 1
    BY <1>1, <1>2, <2>1, <2>2, BoundsAre DEF HeardTo
  <2>3. CASE s = h.hi
    <3>1. h.lo <= h.hi
      BY <1>1, <2>1, <2>3, BoundsAre
    <3>2. s \in h.lo .. h.hi /\ s \notin Readable(h)
      BY <1>1, <2>1, <2>3, <3>1, BoundsAre
    <3> QED BY <1>1, <3>2 DEF Readable
  <2> QED BY <1>1, <2>1, <2>2, <2>3, BoundsAre
<1>3. ASSUME seated, synced
      PROVE  HeardTo(garbled, lastSeq', Passed(received, uplink, produced))
  <2>1. Passed(received, uplink, produced) <= Top(h) /\ HeardTo(garbled, lastSeq, Top(h) - 1)
    BY <1>1, <1>3 DEF EndInv, Heard
  <2>2. HeardTo(garbled, lastSeq', Top(h))
    BY <1>2, <2>1
  <2>3. Passed(received, uplink, produced) \in Int /\ Top(h) \in Int /\ lastSeq' \in Int
    BY <1>1, TopsAre
  <2> QED BY <2>1, <2>2, <2>3, HeardLess
<1> HIDE DEF h
<1> QED BY <1>1, <1>3 DEF EndInv, Heard

LEMMA EndStep ==
  ASSUME TypeOK, QueueInv, EndInv, [Next]_vars
  PROVE  EndInv'
<1> SUFFICES ASSUME life' = 1
             PROVE  EndInv'
  BY DEF EndInv
<1>1. life = 1
  <2>1. life' = life \/ life' = life + 1
    BY DEF Next, vars, cliVars, Produce, CliAnswers, CliRestarts, Forward, Drop, Reopen, Opened,
           Wake, ProbeTimesOut, TakeOutput, HandleSync, HandleReconnected, DecryptItem,
           FinishOutput
  <2> QED BY <2>1, QueuesAre
<1>2. CASE Drop
  BY <1>1, <1>2 DEF Drop, EndInv, cliVars
<1>3. CASE Reopen
  <2>1. /\ received' = <<>> /\ synced' = FALSE /\ StepsUp(<<>>)
        /\ UNCHANGED <<produced, uplink>>
    BY <1>3, EmptyIs DEF Reopen, StepsUp, cliVars
  <2> QED BY <1>1, <2>1 DEF EndInv
<1>4. CASE Opened \/ Wake \/ ProbeTimesOut \/ UNCHANGED vars
  <2>1. UNCHANGED <<uplink, received, handlers, lastSeq, produced, garbled, seated, synced>>
    BY <1>4 DEF Opened, Wake, ProbeTimesOut, vars, cliVars, lineVars
  <2> QED BY <1>1, <2>1 DEF EndInv, Heard
<1>5. ~HandleReconnected /\ ~CliRestarts
  BY <1>1, QueueAfterReconnected DEF CliRestarts
<1> QED BY <1>1, <1>2, <1>3, <1>4, <1>5, EndAfterSend, EndAfterForward, EndAfterTake,
           EndAfterSync, EndAfterDecrypt, EndAfterFinish DEF Next

-----------------------------------------------------------------------------
(* The theorems *)

LEMMA InitHolds ==
  ASSUME Init
  PROVE  ReplayInv
<1>1. TypeOK
  <2>1. life \in 1 .. MaxLives /\ produced \in 0 .. MaxSeq /\ lastSeq \in 0 .. MaxSeq
        /\ drops \in 0 .. MaxDrops
    BY BoundsAre DEF Init
  <2>2. drawn \subseteq Chunks
    BY BoundsAre DEF Init, Chunks, Seqs
  <2> QED BY <2>1, <2>2, EmptyIs DEF Init, TypeOK
<1>2. QueueInv
  <2>1. OneHandler
    BY EmptyIs DEF Init, OneHandler
  <2>2. OrderInv
    BY EmptyOrder DEF Init, OrderInv
  <2>3. FrameInv
    BY EmptyIs DEF Init, FrameInv, Fine
  <2>4. BehindInv
    BY BoundsAre, EmptyIs DEF Init, BehindInv, Seqs
  <2> QED BY <2>1, <2>2, <2>3, <2>4 DEF QueueInv
<1>3. FollowInv
  BY EmptyFollows DEF Init, FollowInv, BatchIsLast
<1>4. CoverInv
  <2>1. Covers(Known, drawn, lastSeq)
    BY DEF Init, Covers, Known, Accounted
  <2> QED BY <2>1, EmptyIs DEF Init, CoverInv, CoveredTo, SyncNext, SyncIsNext
<1>5. EndInv
  BY EmptyIs DEF Init, EndInv, StepsUp
<1> QED BY <1>1, <1>2, <1>3, <1>4, <1>5 DEF ReplayInv

\* ReplayInv is inductive: the frames under way stay in the CLI's order and what is
\* up to lastSeq stays accounted for, whatever is lost, asked for again or parted
\* (termly-client.js:268-301, 334-365).
THEOREM ReplayInvariant == Spec => []ReplayInv
<1>1. ReplayInv /\ [Next]_vars => ReplayInv'
  BY TypesStep, QueueStep, FollowStep, CoverStep, EndStep DEF ReplayInv
<1> QED BY <1>1, InitHolds, PTL DEF Spec

\* Every variable keeps its type (termly-client.js:47-67).
THEOREM TypeSafety == Spec => []TypeOK
<1>1. ReplayInv => TypeOK
  BY DEF ReplayInv
<1> QED BY <1>1, ReplayInvariant, PTL

\* In the CLI's first life every chunk up to lastSeq that the phone can decrypt has been
\* drawn or its absence marked (termly-client.js:265-288, 349-365).
THEOREM HolesAreAlwaysMarked == Spec => []HolesAreMarked
<1>1. ReplayInv => HolesAreMarked
  BY Zenon DEF ReplayInv, CoverInv, CoveredTo, Covers, Known, HolesAreMarked, HolesShow,
               BeforeFirst
<1> QED BY <1>1, ReplayInvariant, PTL

\* A synchronised line that has fallen quiet shows, or marks as missing, everything the
\* CLI could still replay and the phone can decrypt (README.md:262).
THEOREM QuietIsAlwaysComplete == Spec => []QuietIsComplete
<1>1. ReplayInv => QuietIsComplete
  <2> SUFFICES ASSUME ReplayInv, life = 1, ~parted, Quiet
               PROVE  AllReplayed
    BY DEF QuietIsComplete
  <2>1. Heard(produced)
    BY DEF ReplayInv, EndInv, Quiet, Passed
  <2>2. Covers(Known, drawn, lastSeq)
    BY DEF ReplayInv, CoverInv, CoveredTo
  <2>3. lastSeq \in Nat /\ produced \in 0 .. MaxSeq
    BY BoundsAre DEF ReplayInv, TypeOK
  <2>4. ASSUME NEW s \in Kept
        PROVE  <<1, s>> \in Known \/ BeforeFirst(1, s)
    <3>1. s \in Seqs /\ s <= produced /\ (s \in 1 .. lastSeq \/ lastSeq < s)
      BY <2>3, BoundsAre DEF Kept, Seqs
    <3>2. lastSeq < s => <<1, s>> \in garbled
      BY <2>1, <3>1 DEF Heard, HeardTo
    <3>3. s \in 1 .. lastSeq => <<1, s>> \in Known \/ BeforeFirst(1, s)
      BY <2>2, Zenon DEF Covers, BeforeFirst
    <3> QED BY <3>1, <3>2, <3>3 DEF Known
  <2> QED BY <2>4, Zenon DEF AllReplayed, Known
<1> QED BY <1>1, ReplayInvariant, PTL

\* Live output is drawn in the order it was produced (termly-client.js:153).
THEOREM LiveOutputIsAlwaysInOrder == Spec => LiveOutputInOrder
<1>1. ASSUME ReplayInv, [Next]_vars, newest' # newest
      PROVE  newest'[1] > newest[1] \/ (newest'[1] = newest[1] /\ newest'[2] > newest[2])
  <2>1. TypeOK /\ QueueInv
    BY <1>1 DEF ReplayInv
  <2>2. PICK i \in DOMAIN handlers : FinishOutput(i)
    BY <1>1 DEF Next, vars, shownVars, Produce, CliAnswers, CliRestarts, Forward, Drop, Reopen,
                Opened, Wake, ProbeTimesOut, TakeOutput, HandleSync, HandleReconnected,
                DecryptItem
  <2> DEFINE h == handlers[1]
  <2>3. /\ h.type = "output" /\ newest' = <<h.life, h.lo>> /\ LiveIs(life, produced, newest, h)
        /\ h.life \in Nat /\ h.lo \in Nat
    BY <1>1, <2>1, <2>2, FinishedIs, BoundsAre
  <2> QED BY <2>1, <2>3, QueuesAre DEF LiveIs
<1>2. ReplayInv /\ [Next]_vars =>
        [newest' # newest =>
           \/ newest'[1] > newest[1]
           \/ newest'[1] = newest[1] /\ newest'[2] > newest[2]]_vars
  BY <1>1
<1> QED BY <1>2, ReplayInvariant, PTL DEF LiveOutputInOrder, Spec
=============================================================================
