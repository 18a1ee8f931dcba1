-------------------------- MODULE BookkeepingProofs --------------------------
(***************************************************************************)
(* Theorems about the relay's two books: HistoryLog, for any cap, event    *)
(* types, length of run and faults, and RateLimiter, for any buckets,      *)
(* limits and windows.                                                     *)
(*                                                                         *)
(* The log: an append makes one line more, whether or not it begins on a   *)
(* line of its own (WithLineIs); GrowthInv bounds what is in the file by   *)
(* what the relay believes and by how often it misread it, and by the trim *)
(* and how often that did not begin; NewestInv says that a file never cut  *)
(* holds the newest events.                                                *)
(*                                                                         *)
(* The limiter: the calls let through are those the entry's window counts  *)
(* and those before it, no more than a limit of which came less than a     *)
(* window before its start (Fits).  A sweep forgets the entry, not this.   *)
(***************************************************************************)
EXTENDS HistoryLog, RateLimiter, SequenceTheorems, TLAPS

Line == Event \cup {Unreadable}

\* What the misread files let in.
Excess == misread * (Threshold + 1)

GrowthInv ==
  /\ Lines <= Threshold + Excess + untrimmed
  /\ pendingCount # None => Lines <= pendingCount + Excess + untrimmed
  /\ pendingCount # None /\ misread = 0 => Lines <= pendingCount

\* Without a half-written line every line is an event, numbered without a hole.
NewestInv ==
  ~halved =>
    /\ ~cut
    /\ \A i \in 1 .. Len(file) :
         file[i] # Unreadable /\ file[i].number = written - Len(file) + i
    /\ Len(file) >= MaxEvents \/ Len(file) = written

LogInv == TypeOK /\ GrowthInv /\ NewestInv

-----------------------------------------------------------------------------
(* The threshold *)

LEMMA ThresholdIs ==
  /\ Threshold \in Nat /\ MaxEvents <= Threshold
  /\ \A count \in Nat : Overflows(count) <=> count > Threshold
BY MaxEventsAssumption DEF Threshold, Overflows, MaxEventsAssumption

LEMMA ExcessIs ==
  ASSUME TypeOK
  PROVE  /\ Excess \in Nat
         /\ misread' = misread => Excess' = Excess
         /\ misread' = misread + 1 => Excess' = Excess + Threshold + 1
         /\ misread = 0 => Excess = 0
         /\ untrimmed \in Nat
<1>0. untrimmed \in Nat
  BY MaxFaultsAssumption DEF TypeOK, MaxFaultsAssumption
<1>1. misread \in Nat
  BY MaxFaultsAssumption DEF TypeOK, MaxFaultsAssumption
<1>2. \A m, k \in Nat : m * k \in Nat /\ (m + 1) * k = m * k + k /\ 0 * k = 0
  OBVIOUS
<1> DEFINE k == Threshold + 1
<1>3. k \in Nat /\ k' = k
  BY ThresholdIs DEF Threshold
<1>4. Excess = misread * k /\ Excess' = misread' * k
  BY <1>3 DEF Excess, Threshold
<1>5. k = Threshold + 1
  OBVIOUS
<1> HIDE DEF k
<1>6. Excess \in Nat /\ (misread' = misread + 1 => Excess' = Excess + k)
  BY <1>1, <1>2, <1>3, <1>4
<1> QED BY <1>0, <1>1, <1>2, <1>3, <1>4, <1>5, <1>6, ThresholdIs

-----------------------------------------------------------------------------
(* One append *)

LEMMA WithLineIs ==
  ASSUME TypeOK
  PROVE  \A line \in Line :
           /\ WithLine(line) \in Seq(Line)
           /\ Len(WithLine(line)) = Lines + 1
           /\ Lines \in Nat
           /\ cut => WithLine(line)[Len(file)] = Unreadable /\ Len(WithLine(line)) = Len(file)
           /\ ~cut => /\ \A i \in 1 .. Len(file) : WithLine(line)[i] = file[i]
                      /\ WithLine(line)[Len(file) + 1] = line
                      /\ Len(WithLine(line)) = Len(file) + 1
<1> TAKE line \in Line
<1>1. file \in Seq(Line) /\ Len(file) \in Nat
  BY DEF TypeOK, Line
<1>2. CASE cut
  <2>1. Len(file) \in 1 .. Len(file)
    BY <1>1, <1>2, EmptySeq DEF TypeOK
  <2>2. WithLine(line) = [file EXCEPT ![Len(file)] = Unreadable] /\ Unreadable \in Line
    BY <1>2 DEF WithLine, Line
  <2>3. /\ WithLine(line) \in Seq(Line) /\ Len(WithLine(line)) = Len(file)
        /\ WithLine(line)[Len(file)] = Unreadable
    BY <1>1, <2>1, <2>2, ExceptSeq
  <2> QED BY <1>1, <1>2, <2>1, <2>3 DEF Lines
<1>3. CASE ~cut
  <2>1. WithLine(line) = Append(file, line)
    BY <1>3 DEF WithLine
  <2> QED BY <1>1, <1>3, <2>1, AppendProperties DEF Lines
<1> QED BY <1>2, <1>3

LEMMA CountAfterIs ==
  ASSUME TypeOK
  PROVE  \A lines \in Seq(Line) :
           /\ CountAfter(lines) \in Nat
           /\ pendingCount = None => CountAfter(lines) = Len(lines)
           /\ pendingCount # None => CountAfter(lines) = pendingCount + 1 /\ pendingCount \in Nat
BY DEF TypeOK, CountAfter

LEMMA KeptIs ==
  ASSUME NEW lines \in Seq(Line)
  PROVE  /\ Kept(lines) \in Seq(Line)
         /\ Len(lines) <= MaxEvents => Kept(lines) = lines
         /\ Len(lines) > MaxEvents =>
              /\ Len(Kept(lines)) = MaxEvents
              /\ \A i \in 1 .. MaxEvents : Kept(lines)[i] = lines[Len(lines) - MaxEvents + i]
<1>1. CASE Len(lines) <= MaxEvents
  BY <1>1, MaxEventsAssumption DEF Kept, MaxEventsAssumption
<1>2. CASE ~(Len(lines) <= MaxEvents)
  <2> DEFINE m == Len(lines) - MaxEvents + 1
  <2>1. m \in Int /\ Len(lines) \in Int /\ 1 <= m /\ m <= Len(lines)
    BY <1>2, MaxEventsAssumption DEF MaxEventsAssumption
  <2>2. \A i \in m .. Len(lines) : lines[i] \in Line
    BY <2>1, ElementOfSeq
  <2>3. Kept(lines) = SubSeq(lines, m, Len(lines))
    BY <1>2 DEF Kept
  <2>4. /\ SubSeq(lines, m, Len(lines)) \in Seq(Line)
        /\ Len(SubSeq(lines, m, Len(lines))) = Len(lines) - m + 1
        /\ \A i \in 1 .. Len(lines) - m + 1 : SubSeq(lines, m, Len(lines))[i] = lines[m + i - 1]
    <3> HIDE DEF m
    <3> QED BY <2>1, <2>2, SubSeqProperties
  <2>5. Len(lines) - m + 1 = MaxEvents /\ \A i \in Int : m + i - 1 = Len(lines) - MaxEvents + i
    BY <2>1, MaxEventsAssumption DEF MaxEventsAssumption
  <2>6. /\ Len(Kept(lines)) = MaxEvents
        /\ \A i \in 1 .. MaxEvents : Kept(lines)[i] = lines[Len(lines) - MaxEvents + i]
    <3>1. \A i \in 1 .. MaxEvents : Kept(lines)[i] = lines[m + i - 1]
      BY <2>3, <2>4, <2>5
    <3>2. \A i \in 1 .. MaxEvents : m + i - 1 = Len(lines) - MaxEvents + i
      BY <2>5
    <3> HIDE DEF m
    <3> QED BY <2>3, <2>4, <2>5, <3>1, <3>2
  <2> QED BY <1>2, <2>3, <2>4, <2>6
<1> QED BY <1>1, <1>2

\* What a broken rewrite leaves.
LEMMA PartIs ==
  ASSUME NEW lines \in Seq(Line), Len(lines) > MaxEvents,
         NEW n \in 0 .. MaxEvents - 1, NEW partly \in BOOLEAN
  PROVE  LET left == SubSeq(Kept(lines), 1, n) \o (IF partly THEN <<Unreadable>> ELSE <<>>)
         IN  /\ left \in Seq(Line)
             /\ Len(left) = IF partly THEN n + 1 ELSE n
             /\ partly => left[Len(left)] = Unreadable
<1> DEFINE first == SubSeq(Kept(lines), 1, n)
           rest == IF partly THEN <<Unreadable>> ELSE <<>>
<1>1. n \in Int /\ 0 <= n /\ n < MaxEvents /\ MaxEvents \in Nat
  BY MaxEventsAssumption DEF MaxEventsAssumption
<1>2. \A i \in 1 .. n : Kept(lines)[i] \in Line
  BY <1>1, KeptIs, ElementOfSeq
<1>3. first \in Seq(Line) /\ Len(first) = n
  BY <1>1, <1>2, SubSeqProperties
<1>4. rest \in Seq(Line) /\ Len(rest) = (IF partly THEN 1 ELSE 0)
      /\ (partly => rest[1] = Unreadable)
  <2>1. Unreadable \in Line
    BY DEF Line
  <2>2. CASE partly
    <3>1. rest = <<Unreadable>>
      BY <2>2
    <3> QED BY <2>1, <2>2, <3>1
  <2>3. CASE ~partly
    <3>1. rest = <<>>
      BY <2>3
    <3> QED BY <2>3, <3>1, EmptySeq
  <2> QED BY <2>2, <2>3
<1> HIDE DEF first, rest
<1>5. /\ first \o rest \in Seq(Line) /\ Len(first \o rest) = n + Len(rest)
      /\ \A i \in 1 .. n + Len(rest) :
           (first \o rest)[i] = IF i <= n THEN first[i] ELSE rest[i - n]
  BY <1>3, <1>4, ConcatProperties
<1>6. /\ Len(first \o rest) = IF partly THEN n + 1 ELSE n
      /\ partly => (first \o rest)[n + 1] = Unreadable
  <2>1. CASE partly
    <3>1. n + 1 \in 1 .. n + Len(rest) /\ ~(n + 1 <= n) /\ (n + 1) - n = 1
      BY <1>1, <1>4, <2>1
    <3>2. (first \o rest)[n + 1] = rest[(n + 1) - n]
      BY <1>5, <3>1
    <3> QED BY <1>1, <1>4, <1>5, <2>1, <3>1, <3>2
  <2>2. CASE ~partly
    BY <1>1, <1>4, <1>5, <2>2
  <2> QED BY <2>1, <2>2
<1> QED BY <1>5, <1>6 DEF first, rest

-----------------------------------------------------------------------------
(* Steps *)

LEMMA InitLog == Init => LogInv
<1> SUFFICES ASSUME Init PROVE LogInv
  OBVIOUS
<1>1. file \in Seq(Line) /\ Len(file) = 0 /\ Lines = 0
  BY EmptySeq DEF Init, Lines
<1>2. TypeOK
  <2>1. 0 \in 0 .. MaxRecords /\ 0 \in 0 .. MaxFaults /\ 0 \in 0 .. 0
    BY MaxRecordsAssumption, MaxFaultsAssumption DEF MaxRecordsAssumption, MaxFaultsAssumption
  <2>2. pendingCount \in Nat \cup {None} /\ file \in Seq(Event \cup {Unreadable})
    BY <1>1 DEF Init, Line
  <2> QED BY <2>1, <2>2 DEF Init, TypeOK
<1>3. GrowthInv
  BY <1>1, <1>2, ThresholdIs, ExcessIs DEF Init, GrowthInv
<1>4. NewestInv
  BY <1>1 DEF Init, NewestInv
<1> QED BY <1>2, <1>3, <1>4 DEF LogInv

\* What each outcome of a call needs to know of the file after its append.
Appended(lines) ==
  /\ lines \in Seq(Line) /\ Lines \in Nat
  /\ Len(lines) = Lines + 1
  /\ ~halved => \A i \in 1 .. Len(lines) :
                  lines[i] # Unreadable /\ lines[i].number = written + 1 - Len(lines) + i
  /\ ~halved => Len(lines) > MaxEvents \/ Len(lines) = written + 1

LEMMA AppendedLines ==
  ASSUME LogInv, written < MaxRecords
  PROVE  \A type \in Types : Appended(WithLine([number |-> written + 1, type |-> type]))
<1> TAKE type \in Types
<1> DEFINE line == [number |-> written + 1, type |-> type]
           lines == WithLine(line)
<1>1. line \in Event /\ line \in Line /\ line # Unreadable /\ line.number = written + 1
  BY LineAssumption, MaxRecordsAssumption
     DEF LogInv, TypeOK, Line, Event, LineAssumption, MaxRecordsAssumption
<1>2. TypeOK /\ Len(file) \in Nat /\ written \in Nat /\ MaxEvents \in Nat
  BY MaxEventsAssumption, MaxRecordsAssumption
     DEF LogInv, TypeOK, MaxEventsAssumption, MaxRecordsAssumption
<1> HIDE DEF line
<1>3. /\ lines \in Seq(Line) /\ Lines \in Nat /\ Len(lines) = Lines + 1
      /\ ~cut => /\ \A i \in 1 .. Len(file) : lines[i] = file[i]
                 /\ lines[Len(file) + 1] = line
                 /\ Len(lines) = Len(file) + 1
  BY <1>1, <1>2, WithLineIs
<1> HIDE DEF lines
<1>4. ASSUME ~halved
      PROVE  /\ \A i \in 1 .. Len(lines) :
                  lines[i] # Unreadable /\ lines[i].number = written + 1 - Len(lines) + i
             /\ Len(lines) > MaxEvents \/ Len(lines) = written + 1
  <2>1. /\ Len(lines) = Len(file) + 1 /\ lines[Len(file) + 1] = line
        /\ \A i \in 1 .. Len(file) : lines[i] = file[i] /\ file[i] # Unreadable
                                     /\ file[i].number = written - Len(file) + i
        /\ Len(file) >= MaxEvents \/ Len(file) = written
    BY <1>3, <1>4 DEF LogInv, NewestInv
  <2>2. ASSUME NEW i \in 1 .. Len(lines)
        PROVE  lines[i] # Unreadable /\ lines[i].number = written + 1 - Len(lines) + i
    <3>1. CASE i = Len(file) + 1
      BY <1>1, <1>2, <2>1, <3>1
    <3>2. CASE i \in 1 .. Len(file)
      <4>1. lines[i] # Unreadable /\ lines[i].number = written - Len(file) + i
        BY <2>1, <3>2
      <4>2. written + 1 - Len(lines) + i = written - Len(file) + i
        BY <1>2, <2>1, <3>2
      <4> QED BY <4>1, <4>2
    <3> QED BY <1>2, <2>1, <3>1, <3>2
  <2> QED BY <1>2, <2>1, <2>2
<1>5. Appended(lines)
  BY <1>3, <1>4 DEF Appended
<1> QED BY <1>5 DEF lines, line

\* The count after an append covers the file as well as the one before it did.
LEMMA CountBounds ==
  ASSUME LogInv
  PROVE  \A lines : lines \in Seq(Line) /\ Len(lines) = Lines + 1 /\ Lines \in Nat =>
           /\ CountAfter(lines) \in Nat
           /\ Lines + 1 <= CountAfter(lines) + Excess + untrimmed
           /\ misread = 0 => Lines + 1 <= CountAfter(lines)
<1>1. TypeOK /\ Excess \in Nat /\ untrimmed \in Nat
  BY ExcessIs DEF LogInv
<1>2. pendingCount # None => /\ Lines <= pendingCount + Excess + untrimmed
                             /\ misread = 0 => Lines <= pendingCount
  BY DEF LogInv, GrowthInv
<1> QED BY <1>1, <1>2, CountAfterIs

\* A file that is one append longer, or trimmed, keeps all three.
LEMMA CountedStep ==
  ASSUME LogInv, written < MaxRecords, written' = written + 1
  PROVE  \A lines : Appended(lines) /\ Counted(lines) => LogInv'
<1> SUFFICES ASSUME NEW lines, Appended(lines), Counted(lines)
             PROVE  LogInv'
  OBVIOUS
<1>1. TypeOK /\ lines \in Seq(Line) /\ Len(lines) = Lines + 1 /\ Lines \in Nat
  BY DEF LogInv, Appended
<1>2. /\ cut' = FALSE /\ faults' = faults /\ misread' = misread /\ halved' = halved
      /\ Excess' = Excess /\ untrimmed' = untrimmed /\ untrimmed \in Nat
  BY <1>1, ExcessIs DEF Counted
<1>3. /\ CountAfter(lines) \in Nat /\ Lines + 1 <= CountAfter(lines) + Excess + untrimmed
      /\ misread = 0 => Lines + 1 <= CountAfter(lines)
  BY <1>1, CountBounds
<1>4. MaxEvents \in Nat /\ written \in Nat /\ Excess \in Nat /\ Len(lines) \in Nat
  BY <1>1, ExcessIs, MaxEventsAssumption, MaxRecordsAssumption
     DEF TypeOK, MaxEventsAssumption, MaxRecordsAssumption
<1>5. /\ file' \in Seq(Line) /\ Len(file') \in Nat
      /\ pendingCount' \in Nat
      /\ Len(file') <= Threshold + Excess + untrimmed
      /\ Len(file') <= pendingCount' + Excess + untrimmed
      /\ misread = 0 => Len(file') <= pendingCount'
  <2>1. CASE Overflows(CountAfter(lines))
    <3>1. file' = Kept(lines) /\ pendingCount' = Len(Kept(lines))
      BY <2>1 DEF Counted, CountOfTrim
    <3>2. Kept(lines) \in Seq(Line)
          /\ (Len(Kept(lines)) = MaxEvents \/ (Kept(lines) = lines /\ Len(lines) <= MaxEvents))
      <4>1. lines \in Seq(Line)
        BY <1>1
      <4>2. /\ Kept(lines) \in Seq(Line)
            /\ Len(lines) <= MaxEvents => Kept(lines) = lines
            /\ Len(lines) > MaxEvents => Len(Kept(lines)) = MaxEvents
        BY <4>1, KeptIs
      <4> QED BY <1>4, <4>2
    <3>3. Len(Kept(lines)) \in Nat /\ Len(Kept(lines)) <= MaxEvents
      BY <1>4, <3>2
    <3> QED BY <1>2, <1>4, <3>1, <3>2, <3>3, ThresholdIs
  <2>2. CASE ~Overflows(CountAfter(lines))
    <3>1. file' = lines /\ pendingCount' = CountAfter(lines)
      BY <2>2 DEF Counted
    <3>2. CountAfter(lines) <= Threshold
      BY <1>3, <2>2, ThresholdIs
    <3> QED BY <1>1, <1>2, <1>3, <1>4, <3>1, <3>2, ThresholdIs
  <2> QED BY <2>1, <2>2
<1>6. TypeOK'
  <2>1. written' \in 0 .. MaxRecords
    BY <1>4, MaxRecordsAssumption DEF MaxRecordsAssumption
  <2> QED BY <1>1, <1>2, <1>5, <2>1 DEF TypeOK, Line
<1>7. GrowthInv'
  <2>1. Lines' = Len(file') /\ Threshold' = Threshold
    BY <1>2 DEF Lines, Threshold
  <2>2. Lines' <= Threshold' + Excess' + untrimmed'
    BY <1>2, <1>4, <1>5, <2>1, ThresholdIs
  <2> QED BY <1>2, <1>5, <2>1, <2>2 DEF GrowthInv
<1>8. NewestInv'
  <2> SUFFICES ASSUME ~halved
               PROVE  /\ \A i \in 1 .. Len(file') :
                           /\ file'[i] # Unreadable
                           /\ file'[i].number = written' - Len(file') + i
                      /\ Len(file') >= MaxEvents \/ Len(file') = written'
    BY <1>2 DEF NewestInv
  <2>1. /\ \A i \in 1 .. Len(lines) :
             lines[i] # Unreadable /\ lines[i].number = written + 1 - Len(lines) + i
        /\ Len(lines) > MaxEvents \/ Len(lines) = written + 1
    BY DEF Appended
  <2>2. CASE file' = lines
    BY <1>4, <2>1, <2>2
  <2>3. CASE file' = Kept(lines) /\ Len(lines) > MaxEvents
    <3>1. /\ Len(file') = MaxEvents
          /\ \A i \in 1 .. MaxEvents : file'[i] = lines[Len(lines) - MaxEvents + i]
      BY <1>1, <2>3, KeptIs
    <3>2. ASSUME NEW i \in 1 .. MaxEvents
          PROVE  file'[i] # Unreadable /\ file'[i].number = written' - MaxEvents + i
      <4>1. Len(lines) - MaxEvents + i \in 1 .. Len(lines)
        BY <1>4, <2>3
      <4>2. /\ lines[Len(lines) - MaxEvents + i] # Unreadable
            /\ lines[Len(lines) - MaxEvents + i].number
                 = written + 1 - Len(lines) + (Len(lines) - MaxEvents + i)
        BY <2>1, <4>1
      <4>3. written + 1 - Len(lines) + (Len(lines) - MaxEvents + i) = written' - MaxEvents + i
        BY <1>4
      <4> QED BY <3>1, <4>2, <4>3
    <3> QED BY <1>4, <3>1, <3>2
  <2>4. file' = lines \/ (file' = Kept(lines) /\ Len(lines) > MaxEvents)
    <3>1. file' = lines \/ file' = Kept(lines)
      BY DEF Counted
    <3> QED BY <1>1, <1>4, <3>1, KeptIs
  <2> QED BY <2>2, <2>3, <2>4
<1> QED BY <1>6, <1>7, <1>8 DEF LogInv

\* A file that could not be read lets one threshold more in.
LEMMA MisreadStep ==
  ASSUME LogInv, written < MaxRecords, written' = written + 1
  PROVE  \A lines : Appended(lines) /\ Misread(lines) => LogInv'
<1> SUFFICES ASSUME NEW lines, Appended(lines), Misread(lines)
             PROVE  LogInv'
  OBVIOUS
<1>1. TypeOK /\ lines \in Seq(Line) /\ Len(lines) = Lines + 1 /\ Lines \in Nat
  BY DEF LogInv, Appended
<1>2. /\ file' = lines /\ ~cut' /\ cut' = FALSE /\ pendingCount' = 0
      /\ misread' = misread + 1 /\ untrimmed' = untrimmed /\ halved' = halved
      /\ faults < MaxFaults /\ faults' = faults + 1
  BY DEF Misread, Fault
<1>3. /\ Excess \in Nat /\ Excess' = Excess + Threshold + 1
      /\ Lines <= Threshold + Excess + untrimmed /\ untrimmed \in Nat
  BY <1>1, <1>2, ExcessIs DEF LogInv, GrowthInv
<1>4. written \in Nat /\ Len(lines) \in Nat
  BY <1>1, MaxRecordsAssumption DEF TypeOK, MaxRecordsAssumption
<1>5. TypeOK'
  <2>1. written' \in 0 .. MaxRecords
    BY <1>4, MaxRecordsAssumption DEF MaxRecordsAssumption
  <2>2. faults' \in 0 .. MaxFaults /\ misread' \in 0 .. faults' /\ untrimmed' \in 0 .. faults'
    BY <1>1, <1>2, MaxFaultsAssumption DEF TypeOK, MaxFaultsAssumption
  <2>3. file' \in Seq(Event \cup {Unreadable}) /\ pendingCount' \in Nat \cup {None}
    BY <1>1, <1>2 DEF Line
  <2> QED BY <1>1, <1>2, <2>1, <2>2, <2>3 DEF TypeOK
<1>6. GrowthInv'
  <2>1. Lines' = Lines + 1 /\ Threshold' = Threshold
    BY <1>1, <1>2 DEF Lines, Threshold
  <2>2. Lines' <= Threshold' + Excess' + untrimmed'
    BY <1>1, <1>2, <1>3, <2>1, ThresholdIs
  <2>3. Lines' <= pendingCount' + Excess' + untrimmed' /\ misread' # 0
    <3>1. misread \in Nat
      BY <1>1, MaxFaultsAssumption DEF TypeOK, MaxFaultsAssumption
    <3> QED BY <1>1, <1>2, <1>3, <2>1, <3>1, ThresholdIs
  <2> QED BY <2>2, <2>3 DEF GrowthInv
<1>7. NewestInv'
  <2>1. ~halved => /\ \A i \in 1 .. Len(lines) : /\ lines[i] # Unreadable
                                                 /\ lines[i].number = written' - Len(lines) + i
                   /\ Len(lines) >= MaxEvents \/ Len(lines) = written'
    BY <1>4, MaxEventsAssumption DEF Appended, MaxEventsAssumption
  <2> QED BY <1>2, <2>1 DEF NewestInv
<1> QED BY <1>5, <1>6, <1>7 DEF LogInv

\* A rewrite that stops half way leaves less than a whole one.
LEMMA BrokenStep ==
  ASSUME LogInv, written < MaxRecords, written' = written + 1
  PROVE  \A lines : Appended(lines) /\ Broken(lines) => LogInv'
<1> SUFFICES ASSUME NEW lines, Appended(lines), Broken(lines)
             PROVE  LogInv'
  OBVIOUS
<1>1. TypeOK /\ lines \in Seq(Line) /\ Len(lines) > MaxEvents
  BY DEF LogInv, Appended, Broken
<1>2. /\ halved' = TRUE /\ misread' = misread /\ untrimmed' = untrimmed
      /\ faults < MaxFaults /\ faults' = faults + 1
      /\ pendingCount' = CountAfter(lines) \/ pendingCount' = None
      /\ CountAfter(lines) > Threshold /\ CountAfter(lines) \in Nat
  BY <1>1, CountAfterIs, ThresholdIs DEF Broken, Fault
<1>3. PICK n \in 0 .. MaxEvents - 1, partly \in BOOLEAN :
        /\ file' = SubSeq(Kept(lines), 1, n) \o (IF partly THEN <<Unreadable>> ELSE <<>>)
        /\ cut' = partly
  BY DEF Broken
<1>4. /\ file' \in Seq(Line) /\ Len(file') = (IF partly THEN n + 1 ELSE n)
      /\ partly => file'[Len(file')] = Unreadable
  BY <1>1, <1>3, PartIs
<1>5. n \in Nat /\ n <= Threshold /\ Excess \in Nat /\ Excess' = Excess /\ untrimmed \in Nat
  BY <1>1, <1>2, ExcessIs, ThresholdIs, MaxEventsAssumption DEF MaxEventsAssumption
<1>6. TypeOK'
  <2>1. written' \in 0 .. MaxRecords
    BY <1>1, MaxRecordsAssumption DEF TypeOK, MaxRecordsAssumption
  <2>2. faults' \in 0 .. MaxFaults /\ misread' \in 0 .. faults' /\ untrimmed' \in 0 .. faults'
    BY <1>1, <1>2, MaxFaultsAssumption DEF TypeOK, MaxFaultsAssumption
  <2>3. cut' => file' # <<>> /\ Last(file') = Unreadable
    BY <1>3, <1>4, <1>5, EmptySeq DEF Last
  <2>4. file' \in Seq(Event \cup {Unreadable}) /\ pendingCount' \in Nat \cup {None}
    BY <1>2, <1>4 DEF Line
  <2> QED BY <1>2, <1>3, <2>1, <2>2, <2>3, <2>4 DEF TypeOK
<1>7. GrowthInv'
  <2>1. Lines' = n /\ Threshold' = Threshold
    BY <1>3, <1>4, <1>5 DEF Lines, Threshold
  <2>2. /\ n <= Threshold + Excess + untrimmed
        /\ n <= CountAfter(lines) + Excess + untrimmed /\ n <= CountAfter(lines)
    BY <1>2, <1>5, ThresholdIs
  <2> QED BY <1>2, <1>5, <2>1, <2>2 DEF GrowthInv
<1>8. NewestInv'
  BY <1>2 DEF NewestInv
<1> QED BY <1>6, <1>7, <1>8 DEF LogInv

\* A file that was due for its trim and stays has one line more than the trim's margin.
LEMMA UntrimmedStep ==
  ASSUME LogInv, written < MaxRecords, written' = written + 1
  PROVE  \A lines : Appended(lines) /\ Untrimmed(lines) => LogInv'
<1> SUFFICES ASSUME NEW lines, Appended(lines), Untrimmed(lines)
             PROVE  LogInv'
  OBVIOUS
<1>1. TypeOK /\ lines \in Seq(Line) /\ Len(lines) = Lines + 1 /\ Lines \in Nat
  BY DEF LogInv, Appended
<1>2. /\ file' = lines /\ ~cut' /\ cut' = FALSE
      /\ pendingCount' = CountAfter(lines) \/ pendingCount' = None
      /\ misread' = misread /\ untrimmed' = untrimmed + 1 /\ halved' = halved
      /\ faults < MaxFaults /\ faults' = faults + 1
  BY DEF Untrimmed, Fault
<1>3. /\ Excess \in Nat /\ Excess' = Excess /\ untrimmed \in Nat
      /\ Lines <= Threshold + Excess + untrimmed
  BY <1>1, <1>2, ExcessIs DEF LogInv, GrowthInv
<1>4. /\ CountAfter(lines) \in Nat /\ Lines + 1 <= CountAfter(lines) + Excess + untrimmed
      /\ misread = 0 => Lines + 1 <= CountAfter(lines)
  BY <1>1, CountBounds
<1>5. written \in Nat /\ Len(lines) \in Nat
  BY <1>1, MaxRecordsAssumption DEF TypeOK, MaxRecordsAssumption
<1>6. TypeOK'
  <2>1. written' \in 0 .. MaxRecords
    BY <1>5, MaxRecordsAssumption DEF MaxRecordsAssumption
  <2>2. faults' \in 0 .. MaxFaults /\ misread' \in 0 .. faults' /\ untrimmed' \in 0 .. faults'
    BY <1>1, <1>2, MaxFaultsAssumption DEF TypeOK, MaxFaultsAssumption
  <2>3. file' \in Seq(Event \cup {Unreadable}) /\ pendingCount' \in Nat \cup {None}
    BY <1>1, <1>2, <1>4 DEF Line
  <2>4. halved' \in BOOLEAN /\ cut' \in BOOLEAN /\ ~cut'
    BY <1>1, <1>2 DEF TypeOK
  <2> QED BY <2>1, <2>2, <2>3, <2>4 DEF TypeOK
<1>7. GrowthInv'
  <2>1. Lines' = Lines + 1 /\ Threshold' = Threshold
    BY <1>1, <1>2 DEF Lines, Threshold
  <2>2. Lines' <= Threshold' + Excess' + untrimmed'
    BY <1>1, <1>2, <1>3, <2>1, ThresholdIs
  <2>3. pendingCount' # None => /\ Lines' <= pendingCount' + Excess' + untrimmed'
                                /\ misread' = 0 => Lines' <= pendingCount'
    BY <1>1, <1>2, <1>3, <1>4, <2>1
  <2> QED BY <2>2, <2>3 DEF GrowthInv
<1>8. NewestInv'
  <2>1. ~halved => /\ \A i \in 1 .. Len(lines) : /\ lines[i] # Unreadable
                                                 /\ lines[i].number = written' - Len(lines) + i
                   /\ Len(lines) >= MaxEvents \/ Len(lines) = written'
    BY <1>5, MaxEventsAssumption DEF Appended, MaxEventsAssumption
  <2> QED BY <1>2, <2>1 DEF NewestInv
<1> QED BY <1>6, <1>7, <1>8 DEF LogInv

LEMMA AppendFailsStep == LogInv /\ AppendFails => LogInv'
<1> SUFFICES ASSUME LogInv, AppendFails PROVE LogInv'
  OBVIOUS
<1>1. /\ TypeOK /\ UNCHANGED <<pendingCount, written, misread, untrimmed>>
      /\ faults < MaxFaults /\ faults' = faults + 1 /\ Excess' = Excess
  BY ExcessIs DEF LogInv, AppendFails, Fault
<1>2. faults' \in 0 .. MaxFaults /\ misread' \in 0 .. faults' /\ untrimmed' \in 0 .. faults'
  BY <1>1, MaxFaultsAssumption DEF TypeOK, MaxFaultsAssumption
<1>3. CASE UNCHANGED <<file, cut, halved>>
  BY <1>1, <1>2, <1>3 DEF LogInv, TypeOK, GrowthInv, NewestInv, Lines, Threshold
<1>4. CASE file' = WithLine(Unreadable) /\ cut' = TRUE /\ halved' = TRUE
  <2>1. /\ file' \in Seq(Line) /\ Len(file') = Lines + 1 /\ Lines \in Nat
        /\ file'[Len(file')] = Unreadable
    BY <1>1, <1>4, WithLineIs DEF Line
  <2>2. file' # <<>> /\ Last(file') = Unreadable
    BY <2>1, EmptySeq DEF Last
  <2>3. TypeOK'
    BY <1>1, <1>2, <1>4, <2>1, <2>2 DEF TypeOK, Line
  <2>4. Lines' = Lines /\ Threshold' = Threshold
    BY <1>4, <2>1 DEF Lines, Threshold
  <2> QED BY <1>1, <1>4, <2>3, <2>4 DEF LogInv, GrowthInv, NewestInv
<1> QED BY <1>3, <1>4 DEF AppendFails

LEMMA LogStep == LogInv /\ [Next]_vars => LogInv'
<1> SUFFICES ASSUME LogInv, [Next]_vars PROVE LogInv'
  OBVIOUS
<1>1. CASE Record
  <2>1. PICK type \in Types :
          LET lines == WithLine([number |-> written + 1, type |-> type])
          IN Counted(lines) \/ Misread(lines) \/ Untrimmed(lines) \/ Broken(lines)
    BY <1>1 DEF Record
  <2>2. /\ written < MaxRecords /\ written' = written + 1
        /\ Appended(WithLine([number |-> written + 1, type |-> type]))
    BY <1>1, AppendedLines DEF Record
  <2> QED BY <2>1, <2>2, CountedStep, MisreadStep, UntrimmedStep, BrokenStep
<1>2. CASE AppendFails
  BY <1>2, AppendFailsStep
<1>3. CASE Restart \/ UNCHANGED vars
  <2>1. /\ UNCHANGED <<file, cut, written, faults, misread, untrimmed, halved>>
        /\ pendingCount' = None \/ pendingCount' = pendingCount
    BY <1>3 DEF Restart, vars
  <2> QED BY <2>1 DEF LogInv, TypeOK, GrowthInv, NewestInv, Lines, Excess, Threshold
<1> QED BY <1>1, <1>2, <1>3 DEF Next

-----------------------------------------------------------------------------
(* Theorems *)

THEOREM LogInvariant == Spec => []LogInv
BY InitLog, LogStep, PTL DEF Spec

\* Through faults and restarts the log is a sequence of events and of lines that cannot
\* be read, a cut line is the last one, and no fault is counted twice (history.js:24-66).
THEOREM TypeSafety == Spec => []TypeOK
<1>1. LogInv => TypeOK
  BY DEF LogInv
<1> QED BY LogInvariant, <1>1, PTL

\* The log never outgrows the margin of the trim, but by one line for every trim that did
\* not begin and one margin more for every time the file could not be read
\* (history.js:18-21, 48, 56-61).
THEOREM GrowthIsAlwaysBounded == Spec => []GrowthIsBounded
<1>1. LogInv => GrowthIsBounded
  BY DEF LogInv, GrowthInv, Excess, GrowthIsBounded
<1> QED BY LogInvariant, <1>1, PTL

\* Unless it has misread the file, the relay never believes it shorter than it is
\* (history.js:58-61).
THEOREM CountAlwaysCovers == Spec => []CountCoversTheFile
<1>1. LogInv => CountCoversTheFile
  <2> SUFFICES ASSUME LogInv, misread = 0, pendingCount # None PROVE Lines <= pendingCount
    BY DEF CountCoversTheFile
  <2> QED BY DEF LogInv, GrowthInv
<1> QED BY LogInvariant, <1>1, PTL

\* A file that was never written by halves holds the newest events without a hole
\* (history.js:38-47).
THEOREM NewestAreAlwaysKept == Spec => []NewestAreKept
<1>1. LogInv => NewestAreKept
  <2> SUFFICES ASSUME LogInv PROVE NewestAreKept
    OBVIOUS
  <2>1. DOMAIN file = 1 .. Len(file)
    BY DEF LogInv, TypeOK
  <2> QED BY <2>1 DEF LogInv, NewestInv, NewestAreKept
<1> QED BY LogInvariant, <1>1, PTL
-----------------------------------------------------------------------------
(* The limiter *)

\* How many of a window's calls were let through: all it counts but the one that was
\* refused at the ceiling.
Granted(b) ==
  IF rateBuckets[b] = NoEntry THEN 0
  ELSE IF rateBuckets[b].count > Limit[b] THEN Limit[b] ELSE rateBuckets[b].count

WindowStart(b) == IF rateBuckets[b] = NoEntry THEN now ELSE rateBuckets[b].start

\* Of calls let through until now, the last so many fall into the window that began at
\* start; those before it are spent: less than a window before its start there are no
\* more than the limit.
Fits(calls, granted, start, time, limit, window) ==
  /\ start <= time /\ granted <= Len(calls)
  /\ \A i \in 1 .. Len(calls) :
       /\ calls[i] <= time
       /\ IF i > Len(calls) - granted
          THEN start <= calls[i] /\ calls[i] < start + window
          ELSE /\ calls[i] < start
               /\ calls[i] + window > start => Len(calls) - granted - i < limit

WindowInv(b) == Fits(accepted[b], Granted(b), WindowStart(b), now, Limit[b], Window[b])

LimiterInv == LimiterTypeOK /\ (\A b \in Buckets : WindowInv(b)) /\ AtMostTwiceTheLimit

LEMMA CallsAre ==
  ASSUME NEW calls \in Seq(Times)
  PROVE  Len(calls) \in Nat /\ \A i \in 1 .. Len(calls) : calls[i] \in Nat
<1>1. \A time \in Times : time \in Nat
  BY TimeAssumption DEF Times, TimeAssumption
<1> QED BY <1>1

\* Time passes, for an entry and where there is none.
LEMMA FitsLater ==
  ASSUME NEW calls \in Seq(Times), NEW g \in Nat, NEW s \in Nat, NEW t \in Times,
         NEW L \in Nat \ {0}, NEW W \in Nat \ {0},
         Fits(calls, g, s, t, L, W)
  PROVE  /\ Fits(calls, g, s, t + 1, L, W)
         /\ g = 0 /\ s = t => Fits(calls, 0, t + 1, t + 1, L, W)
<1>1. t \in Nat
  BY TimeAssumption DEF Times, TimeAssumption
<1>2. Fits(calls, g, s, t + 1, L, W)
  BY <1>1, CallsAre DEF Fits
<1>3. ASSUME g = 0, s = t PROVE Fits(calls, 0, t + 1, t + 1, L, W)
  BY <1>1, <1>3, CallsAre DEF Fits
<1> QED BY <1>2, <1>3

\* A window that is over leaves no more calls than its limit.
LEMMA FitsForgotten ==
  ASSUME NEW calls \in Seq(Times), NEW g \in Nat, NEW s \in Nat, NEW t \in Times,
         NEW L \in Nat \ {0}, NEW W \in Nat \ {0},
         Fits(calls, g, s, t, L, W), g <= L, s + W <= t
  PROVE  Fits(calls, 0, t, t, L, W)
<1> DEFINE n == Len(calls)
<1>1. t \in Nat /\ n \in Nat /\ \A i \in 1 .. n : calls[i] \in Nat
  BY CallsAre, TimeAssumption DEF Times, TimeAssumption
<1>2. ASSUME NEW i \in 1 .. n PROVE calls[i] < t /\ (calls[i] + W > t => n - i < L)
  <2>1. CASE i > n - g
    BY <1>1, <2>1 DEF Fits
  <2>2. CASE ~(i > n - g)
    <3>1. calls[i] < s
      BY <2>2 DEF Fits
    <3> QED BY <1>1, <3>1
  <2> QED BY <2>1, <2>2
<1> QED BY <1>1, <1>2 DEF Fits

\* One more call in a window.
LEMMA FitsOneMore ==
  ASSUME NEW calls \in Seq(Times), NEW g \in Nat, NEW s \in Nat, NEW t \in Times,
         NEW L \in Nat \ {0}, NEW W \in Nat \ {0},
         Fits(calls, g, s, t, L, W), g < L, t < s + W
  PROVE  /\ Fits(Append(calls, t), g + 1, s, t, L, W)
         /\ \A i \in 1 .. Len(calls) : t < calls[i] + W => Len(calls) + 1 - i < 2 * L
<1> DEFINE n == Len(calls)  more == Append(calls, t)
<1>1. t \in Nat /\ n \in Nat /\ \A i \in 1 .. n : calls[i] \in Nat
  BY CallsAre, TimeAssumption DEF Times, TimeAssumption
<1>2. Len(more) = n + 1 /\ more[n + 1] = t /\ \A i \in 1 .. n : more[i] = calls[i]
  OBVIOUS
<1>3. s <= t /\ g <= n /\ n + 1 - (g + 1) = n - g
  BY <1>1 DEF Fits
<1>4. Fits(more, g + 1, s, t, L, W)
  <2> SUFFICES ASSUME NEW i \in 1 .. n + 1
               PROVE  /\ more[i] <= t
                      /\ IF i > n - g THEN s <= more[i] /\ more[i] < s + W
                         ELSE /\ more[i] < s
                              /\ more[i] + W > s => n - g - i < L
    BY <1>2, <1>3 DEF Fits
  <2>1. CASE i = n + 1
    BY <1>1, <1>2, <1>3, <2>1
  <2>2. CASE i \in 1 .. n
    BY <1>2, <2>2 DEF Fits
  <2> QED BY <1>1, <2>1, <2>2
<1>5. ASSUME NEW i \in 1 .. n, t < calls[i] + W PROVE n + 1 - i < 2 * L
  <2>1. i > n - g \/ n - g - i < L
    <3>1. calls[i] + W > s
      BY <1>1, <1>3, <1>5
    <3> QED BY <3>1 DEF Fits
  <2> QED BY <1>1, <1>3, <2>1
<1> HIDE DEF n, more
<1> QED BY <1>4, <1>5 DEF n, more

\* The values of a bucket.
LEMMA BucketIs ==
  ASSUME LimiterTypeOK, NEW b \in Buckets
  PROVE  /\ Limit[b] \in Nat \ {0} /\ Window[b] \in Nat \ {0}
         /\ Longest \in Nat /\ Window[b] <= Longest
         /\ now \in Times /\ now \in Nat
         /\ accepted[b] \in Seq(Times) /\ Len(accepted[b]) \in Nat
         /\ DOMAIN accepted[b] = 1 .. Len(accepted[b])
         /\ \A i \in 1 .. Len(accepted[b]) : accepted[b][i] \in Nat
         /\ rateBuckets[b] # NoEntry =>
              /\ rateBuckets[b].start \in Nat /\ rateBuckets[b].count \in Nat \ {0}
              /\ rateBuckets[b].count <= Limit[b] + 1
         /\ Granted(b) \in Nat /\ Granted(b) <= Limit[b] /\ WindowStart(b) \in Nat
<1>1. Limit[b] \in Nat \ {0} /\ Window[b] \in Nat \ {0} /\ Longest \in Nat
      /\ Window[b] <= Longest
  BY LimitAssumption, WindowAssumption DEF LimitAssumption, WindowAssumption
<1>2. now \in Times /\ accepted[b] \in Seq(Times)
  BY DEF LimiterTypeOK
<1>0. \A t \in Times : t \in Nat
  BY TimeAssumption DEF Times, TimeAssumption
<1>3. /\ Len(accepted[b]) \in Nat
      /\ DOMAIN accepted[b] = 1 .. Len(accepted[b])
      /\ \A i \in 1 .. Len(accepted[b]) : accepted[b][i] \in Times
  BY <1>2
<1>4. rateBuckets[b] # NoEntry =>
        /\ rateBuckets[b].start \in Nat /\ rateBuckets[b].count \in Nat \ {0}
        /\ rateBuckets[b].count <= Limit[b] + 1
  <2> SUFFICES ASSUME rateBuckets[b] # NoEntry
               PROVE  /\ rateBuckets[b].start \in Nat /\ rateBuckets[b].count \in Nat \ {0}
                      /\ rateBuckets[b].count <= Limit[b] + 1
    OBVIOUS
  <2>1. rateBuckets[b] \in Entry /\ rateBuckets[b].count <= Limit[b] + 1
    BY DEF LimiterTypeOK
  <2> QED BY <1>0, <2>1 DEF Entry
<1>5. Granted(b) \in Nat /\ Granted(b) <= Limit[b] /\ WindowStart(b) \in Nat
  BY <1>0, <1>1, <1>2, <1>4 DEF Granted, WindowStart
<1> QED BY <1>0, <1>1, <1>2, <1>3, <1>4, <1>5

LEMMA InitLimiter == LimiterInit => LimiterInv
<1> SUFFICES ASSUME LimiterInit PROVE LimiterInv
  OBVIOUS
<1>1. LimiterTypeOK
  BY TimeAssumption DEF LimiterInit, LimiterTypeOK, Times, TimeAssumption
<1>2. \A b \in Buckets : WindowInv(b)
  BY DEF LimiterInit, WindowInv, WindowStart, Granted, Fits
<1>3. AtMostTwiceTheLimit
  BY DEF LimiterInit, AtMostTwiceTheLimit
<1> QED BY <1>1, <1>2, <1>3 DEF LimiterInv

LEMMA TickStep == LimiterInv /\ Tick => LimiterInv'
<1> SUFFICES ASSUME LimiterInv, Tick PROVE LimiterInv'
  OBVIOUS
<1>0. LimiterTypeOK /\ now' = now + 1 /\ UNCHANGED <<rateBuckets, accepted>>
  BY DEF LimiterInv, Tick
<1>1. LimiterTypeOK'
  BY <1>0, TimeAssumption DEF LimiterTypeOK, Tick, Times, TimeAssumption
<1>2. ASSUME NEW b \in Buckets PROVE WindowInv(b)'
  <2>1. Fits(accepted[b], Granted(b), WindowStart(b), now, Limit[b], Window[b])
    BY DEF LimiterInv, WindowInv
  <2>2. /\ Fits(accepted[b], Granted(b), WindowStart(b), now + 1, Limit[b], Window[b])
        /\ Granted(b) = 0 /\ WindowStart(b) = now =>
             Fits(accepted[b], 0, now + 1, now + 1, Limit[b], Window[b])
    BY <1>0, <2>1, BucketIs, FitsLater
  <2>3. CASE rateBuckets[b] = NoEntry
    BY <1>0, <2>2, <2>3 DEF WindowInv, Granted, WindowStart
  <2>4. CASE rateBuckets[b] # NoEntry
    BY <1>0, <2>2, <2>4 DEF WindowInv, Granted, WindowStart
  <2> QED BY <2>3, <2>4
<1>3. AtMostTwiceTheLimit'
  BY <1>0 DEF LimiterInv, AtMostTwiceTheLimit
<1> QED BY <1>1, <1>2, <1>3 DEF LimiterInv

LEMMA SweepStep == LimiterInv /\ Sweep => LimiterInv'
<1> SUFFICES ASSUME LimiterInv, Sweep PROVE LimiterInv'
  OBVIOUS
<1>0. LimiterTypeOK /\ UNCHANGED <<now, accepted>>
      /\ \A b \in Buckets :
           rateBuckets'[b] = IF Stale(b) THEN NoEntry ELSE rateBuckets[b]
  BY DEF LimiterInv, Sweep
<1>1. LimiterTypeOK'
  BY <1>0 DEF LimiterTypeOK, Sweep
<1>2. ASSUME NEW b \in Buckets PROVE WindowInv(b)'
  <2>1. Fits(accepted[b], Granted(b), WindowStart(b), now, Limit[b], Window[b])
    BY DEF LimiterInv, WindowInv
  <2>2. CASE Stale(b)
    <3>1. WindowStart(b) + Window[b] <= now
      BY <1>0, <2>2, BucketIs DEF Stale, Age, WindowStart
    <3>2. Fits(accepted[b], 0, now, now, Limit[b], Window[b])
      BY <1>0, <2>1, <3>1, BucketIs, FitsForgotten
    <3> QED BY <1>0, <2>2, <3>2 DEF WindowInv, WindowStart, Granted
  <2>3. CASE ~Stale(b)
    BY <1>0, <2>1, <2>3 DEF WindowInv, WindowStart, Granted
  <2> QED BY <2>2, <2>3
<1>3. AtMostTwiceTheLimit'
  BY <1>0 DEF LimiterInv, AtMostTwiceTheLimit
<1> QED BY <1>1, <1>2, <1>3 DEF LimiterInv

\* A call is refused, or let through in a window with room for it: the one it finds, or
\* a new one.
LEMMA CallFits ==
  ASSUME LimiterTypeOK, NEW b \in Buckets, WindowInv(b), RateLimited(b)
  PROVE  /\ EntryAfter(b) \in Entry /\ EntryAfter(b).count <= Limit[b] + 1
         /\ WindowInv(b)'
         /\ ~Limited(b) => \A i \in 1 .. Len(accepted[b]) :
              now < accepted[b][i] + Window[b] => Len(accepted[b]) + 1 - i < 2 * Limit[b]
<1>0. Fits(accepted[b], Granted(b), WindowStart(b), now, Limit[b], Window[b])
  BY DEF WindowInv
<1>1. /\ rateBuckets'[b] = EntryAfter(b) /\ now' = now
      /\ accepted'[b] = IF Limited(b) THEN accepted[b] ELSE Append(accepted[b], now)
  BY DEF RateLimited, LimiterTypeOK
<1>2. CASE RollsOver(b)
  <2>1. EntryAfter(b) = [start |-> now, count |-> 1]
    BY <1>2 DEF EntryAfter
  <2>2. EntryAfter(b) \in Entry /\ EntryAfter(b).count = 1 /\ EntryAfter(b).start = now
    BY <2>1, BucketIs DEF Entry
  <2>3. ~Limited(b) /\ EntryAfter(b) # NoEntry
    BY <2>2, BucketIs, EntryAssumption DEF Limited, EntryAssumption
  <2>4. WindowStart(b)' = now /\ Granted(b)' = 1
    BY <1>1, <2>2, <2>3 DEF WindowStart, Granted, Limited
  <2>5. Fits(accepted[b], 0, now, now, Limit[b], Window[b])
    <3>1. CASE rateBuckets[b] = NoEntry
      BY <1>0, <3>1 DEF WindowStart, Granted
    <3>2. CASE rateBuckets[b] # NoEntry
      <4>1. WindowStart(b) + Window[b] <= now
        BY <1>2, <3>2, BucketIs DEF RollsOver, Age, WindowStart
      <4> QED BY <1>0, <4>1, BucketIs, FitsForgotten
    <3> QED BY <3>1, <3>2
  <2>6. /\ Fits(Append(accepted[b], now), 0 + 1, now, now, Limit[b], Window[b])
        /\ \A i \in 1 .. Len(accepted[b]) :
             now < accepted[b][i] + Window[b] => Len(accepted[b]) + 1 - i < 2 * Limit[b]
    <3>1. 0 < Limit[b] /\ now < now + Window[b]
      BY BucketIs
    <3> QED BY <2>5, <3>1, BucketIs, FitsOneMore
  <2> QED BY <1>1, <2>2, <2>3, <2>4, <2>6, BucketIs DEF WindowInv
<1>3. CASE ~RollsOver(b)
  <2>1. /\ rateBuckets[b] # NoEntry /\ rateBuckets[b] \in Entry
        /\ EntryAfter(b) = CountedUp(rateBuckets[b], b)
        /\ now < WindowStart(b) + Window[b] /\ WindowStart(b) = rateBuckets[b].start
    BY <1>3, BucketIs DEF RollsOver, Age, EntryAfter, WindowStart, LimiterTypeOK
  <2>2. /\ EntryAfter(b) \in Entry /\ EntryAfter(b).start = rateBuckets[b].start
        /\ EntryAfter(b).count = IF rateBuckets[b].count > Limit[b] THEN rateBuckets[b].count
                                 ELSE rateBuckets[b].count + 1
    BY <2>1, BucketIs DEF CountedUp, Entry
  <2>3. EntryAfter(b) # NoEntry /\ EntryAfter(b).count <= Limit[b] + 1
    BY <2>1, <2>2, BucketIs, EntryAssumption DEF EntryAssumption
  <2>4. WindowStart(b)' = WindowStart(b)
    BY <1>1, <2>1, <2>2, <2>3 DEF WindowStart
  <2>5. CASE Limited(b)
    <3>1. Granted(b)' = Granted(b)
      BY <1>1, <2>1, <2>2, <2>3, <2>5, BucketIs DEF Granted, Limited
    <3> QED BY <1>0, <1>1, <2>2, <2>3, <2>4, <2>5, <3>1 DEF WindowInv
  <2>6. CASE ~Limited(b)
    <3>1. Granted(b)' = Granted(b) + 1 /\ Granted(b) < Limit[b]
      BY <1>1, <2>1, <2>2, <2>3, <2>6, BucketIs DEF Granted, Limited
    <3>2. /\ Fits(Append(accepted[b], now), Granted(b) + 1, WindowStart(b), now,
                  Limit[b], Window[b])
          /\ \A i \in 1 .. Len(accepted[b]) :
               now < accepted[b][i] + Window[b] => Len(accepted[b]) + 1 - i < 2 * Limit[b]
      BY <1>0, <2>1, <3>1, BucketIs, FitsOneMore
    <3> QED BY <1>1, <2>2, <2>3, <2>4, <2>6, <3>1, <3>2 DEF WindowInv
  <2> QED BY <2>5, <2>6
<1> QED BY <1>2, <1>3

LEMMA CallStep ==
  ASSUME NEW b \in Buckets, LimiterInv, RateLimited(b)
  PROVE  LimiterInv'
<1>0. LimiterTypeOK /\ WindowInv(b) /\ now' = now
  BY DEF LimiterInv, RateLimited
<1>1. /\ rateBuckets'[b] = EntryAfter(b)
      /\ accepted'[b] = IF Limited(b) THEN accepted[b] ELSE Append(accepted[b], now)
      /\ \A c \in Buckets \ {b} : rateBuckets'[c] = rateBuckets[c] /\ accepted'[c] = accepted[c]
  BY <1>0 DEF RateLimited, LimiterTypeOK
<1>2. LimiterTypeOK'
  <2>1. rateBuckets' \in [Buckets -> Entry \cup {NoEntry}]
    BY <1>0, CallFits DEF RateLimited, LimiterTypeOK
  <2>2. accepted' \in [Buckets -> Seq(Times)]
    BY <1>0 DEF RateLimited, LimiterTypeOK
  <2> QED BY <1>0, <1>1, <2>1, <2>2, CallFits DEF LimiterTypeOK
<1>3. ASSUME NEW c \in Buckets PROVE WindowInv(c)'
  <2>1. CASE c = b
    BY <1>0, <2>1, CallFits
  <2>2. CASE c # b
    <3>1. WindowInv(c)
      BY DEF LimiterInv
    <3> QED BY <1>0, <1>1, <2>2, <3>1 DEF WindowInv, WindowStart, Granted
  <2> QED BY <2>1, <2>2
<1>4. AtMostTwiceTheLimit'
  <2> SUFFICES ASSUME NEW c \in Buckets, NEW i \in DOMAIN accepted'[c],
                      NEW j \in DOMAIN accepted'[c],
                      accepted'[c][j] < accepted'[c][i] + Window[c]
               PROVE  j - i < 2 * Limit[c]
    BY DEF AtMostTwiceTheLimit
  <2>1. CASE c # b \/ Limited(b)
    BY <1>1, <2>1 DEF LimiterInv, AtMostTwiceTheLimit
  <2>2. CASE c = b /\ ~Limited(b)
    <3> DEFINE n == Len(accepted[b])
    <3>1. /\ n \in Nat /\ DOMAIN accepted[b] = 1 .. n
          /\ DOMAIN accepted'[b] = 1 .. n + 1 /\ accepted'[b][n + 1] = now
          /\ \A k \in 1 .. n : accepted'[b][k] = accepted[b][k]
      BY <1>0, <1>1, <2>2, BucketIs
    <3>2. CASE j <= n /\ i <= n
      BY <2>2, <3>1, <3>2 DEF LimiterInv, AtMostTwiceTheLimit
    <3>3. CASE i = n + 1
      BY <1>0, <2>2, <3>1, <3>3, BucketIs
    <3>4. CASE j = n + 1 /\ i <= n
      BY <1>0, <2>2, <3>1, <3>4, CallFits
    <3> QED BY <2>2, <3>1, <3>2, <3>3, <3>4
  <2> QED BY <2>1, <2>2
<1> QED BY <1>2, <1>3, <1>4 DEF LimiterInv

LEMMA LimiterStep == LimiterInv /\ [LimiterNext]_limiterVars => LimiterInv'
<1>1. LimiterInv /\ UNCHANGED limiterVars => LimiterInv'
  BY DEF LimiterInv, LimiterTypeOK, WindowInv, AtMostTwiceTheLimit, limiterVars,
         WindowStart, Granted
<1> QED BY <1>1, TickStep, SweepStep, CallStep DEF LimiterNext

THEOREM LimiterInvariant == LimiterSpec => []LimiterInv
BY InitLimiter, LimiterStep, PTL DEF LimiterSpec

\* An entry's counter stops one past its limit (server.js:435-440).
THEOREM LimiterTypeSafety == LimiterSpec => []LimiterTypeOK
<1>1. LimiterInv => LimiterTypeOK
  BY DEF LimiterInv
<1> QED BY LimiterInvariant, <1>1, PTL

\* Whatever is called and swept when, no more than twice a bucket's limit is let through
\* within its window (server.js:421-424).
THEOREM NeverMoreThanTwiceTheLimit == LimiterSpec => []AtMostTwiceTheLimit
<1>1. LimiterInv => AtMostTwiceTheLimit
  BY DEF LimiterInv
<1> QED BY LimiterInvariant, <1>1, PTL

\* Nobody is refused but for a full limit of calls let through less than a window ago
\* (server.js:414-417).
THEOREM RefusalIsAlwaysEarned == LimiterSpec => RefusalIsEarned
<1>1. ASSUME LimiterInv, NEW b \in Buckets, RateLimited(b), Limited(b)
      PROVE  \E i \in DOMAIN accepted[b] :
               /\ Len(accepted[b]) - i + 1 >= Limit[b]
               /\ \A j \in i .. Len(accepted[b]) : accepted[b][j] + Window[b] > now
  <2>0. LimiterTypeOK /\ WindowInv(b)
    BY <1>1 DEF LimiterInv
  <2>1. ~RollsOver(b) /\ Granted(b) = Limit[b] /\ Limit[b] >= 1
    BY <1>1, <2>0, BucketIs DEF Limited, EntryAfter, CountedUp, RollsOver, Granted
  <2>2. now < WindowStart(b) + Window[b]
    BY <2>0, <2>1, BucketIs DEF RollsOver, Age, WindowStart
  <2> DEFINE n == Len(accepted[b])  first == n - Limit[b] + 1
  <2>3. /\ n \in Nat /\ first \in 1 .. n /\ DOMAIN accepted[b] = 1 .. n
        /\ \A j \in first .. n : WindowStart(b) <= accepted[b][j]
    BY <2>0, <2>1, BucketIs DEF WindowInv, Fits
  <2>4. \A j \in first .. n : accepted[b][j] + Window[b] > now
    BY <2>0, <2>2, <2>3, BucketIs
  <2>5. n - first + 1 >= Limit[b]
    BY <2>0, <2>3, BucketIs
  <2> HIDE DEF first
  <2> QED BY <2>3, <2>4, <2>5
<1>2. LimiterInv /\ [LimiterNext]_limiterVars =>
        [\A b \in Buckets : RateLimited(b) /\ Limited(b) =>
           \E i \in DOMAIN accepted[b] :
             /\ Len(accepted[b]) - i + 1 >= Limit[b]
             /\ \A j \in i .. Len(accepted[b]) : accepted[b][j] + Window[b] > now]_limiterVars
  BY <1>1
<1> QED BY LimiterInvariant, <1>2, PTL DEF LimiterSpec, RefusalIsEarned
=============================================================================
