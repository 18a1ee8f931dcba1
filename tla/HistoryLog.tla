----------------------------- MODULE HistoryLog -----------------------------
(***************************************************************************)
(* The dashboard's event log (history.js): a file of one line per event,   *)
(* a lazily counted number of lines, and a trim that rewrites the file.    *)
(* record() is synchronous, so a whole call is one step; what can go wrong *)
(* inside it is a fault, at most MaxFaults of which occur:                 *)
(*   "append"   the append throws and wrote nothing                        *)
(*   "torn"     the append throws after a part of the line                 *)
(*   "count"    the file cannot be read to be counted                      *)
(*   "trim"     the file cannot be read to be trimmed                      *)
(*   "rewrite"  the rewrite throws, at its open, which leaves the file as  *)
(*              it was, or after some of the kept lines                    *)
(*   "crash"    the process dies after the append, when the rewrite was    *)
(*              due and has not begun, or in the middle of it              *)
(* An event is its number and its type; a line that is not a whole event   *)
(* is Unreadable (readEvents skips it).  MaxRecords bounds the events.     *)
(* misread, untrimmed and halved are history, for the properties only.     *)
(***************************************************************************)
EXTENDS Integers, Sequences, SequencesExt

CONSTANTS MaxEvents, MaxRecords, MaxFaults, Faults, Types, None, Unreadable

ASSUME MaxEventsAssumption == MaxEvents \in Nat \ {0}
ASSUME MaxRecordsAssumption == MaxRecords \in Nat
ASSUME MaxFaultsAssumption == MaxFaults \in Nat
ASSUME FaultsAssumption ==
  Faults \subseteq {"append", "torn", "count", "trim", "rewrite", "crash"}
ASSUME LineAssumption ==
  None \notin Int /\ Unreadable \notin [number : 1 .. MaxRecords, type : Types]

VARIABLES
  file,          \* the lines on disk
  cut,           \* is the last line one without its newline?
  pendingCount,  \* the lines believed to be on disk, or None before the first count
  written,       \* how many events have been appended whole
  faults,        \* how many faults have occurred
  misread,       \* how many of them made the count too small
  untrimmed,     \* how many of them left a file that was due for its trim as it was
  halved         \* has anything been written by halves?

vars == <<file, cut, pendingCount, written, faults, misread, untrimmed, halved>>

Event == [number : 1 .. MaxRecords, type : Types]

TypeOK ==
  /\ file \in Seq(Event \cup {Unreadable})
  /\ cut \in BOOLEAN
  /\ cut => file # <<>> /\ Last(file) = Unreadable
  /\ pendingCount \in Nat \cup {None}
  /\ written \in 0 .. MaxRecords
  /\ faults \in 0 .. MaxFaults
  /\ misread \in 0 .. faults
  /\ untrimmed \in 0 .. faults
  /\ halved \in BOOLEAN

Init ==
  /\ file = <<>>
  /\ cut = FALSE
  /\ pendingCount = None
  /\ written = 0
  /\ faults = 0
  /\ misread = 0
  /\ untrimmed = 0
  /\ halved = FALSE

-----------------------------------------------------------------------------
(* One call of record() *)

\* appendFileSync: a line that follows a cut one becomes a part of it.
WithLine(line) ==
  IF cut THEN [file EXCEPT ![Len(file)] = Unreadable] ELSE Append(file, line)

SlipCountAfter(lines) == IF pendingCount = None THEN 1 ELSE pendingCount + 1

\* The count after the append; the lazy count already sees the new line.
CountAfter(lines) == IF pendingCount = None THEN Len(lines) ELSE pendingCount + 1

SlipOverflows(count) == count * 10 > MaxEvents * 14

\* Trimming waits for a fifth more lines than the cap.
Overflows(count) == count * 10 > MaxEvents * 12

SlipKept(lines) ==
  IF Len(lines) <= MaxEvents THEN lines ELSE SubSeq(lines, 1, MaxEvents)

\* The newest MaxEvents lines.
Kept(lines) ==
  IF Len(lines) <= MaxEvents THEN lines
  ELSE SubSeq(lines, Len(lines) - MaxEvents + 1, Len(lines))

\* What trim returns.
CountOfTrim(lines) == Len(Kept(lines))

Fault(fault) == fault \in Faults /\ faults < MaxFaults /\ faults' = faults + 1

\* Nothing goes wrong: lines is the file after the append.
Counted(lines) ==
  /\ IF Overflows(CountAfter(lines))
     THEN file' = Kept(lines) /\ pendingCount' = CountOfTrim(lines)
     ELSE file' = lines /\ pendingCount' = CountAfter(lines)
  /\ cut' = FALSE
  /\ UNCHANGED <<faults, misread, untrimmed, halved>>

\* The file cannot be read, to be counted (0 - 1 + 1) or to be trimmed (trim returns 0).
Misread(lines) ==
  /\ \/ Fault("count") /\ pendingCount = None
     \/ Fault("trim") /\ Overflows(CountAfter(lines))
  /\ file' = lines
  /\ cut' = FALSE
  /\ pendingCount' = 0
  /\ misread' = misread + 1
  /\ UNCHANGED <<untrimmed, halved>>

\* The trim is due, and the file stays as the append left it: the rewrite throws when it
\* opens the file, and the count that was taken stays; or the process dies before it.
Untrimmed(lines) ==
  /\ Overflows(CountAfter(lines))
  /\ \/ Fault("rewrite") /\ Len(lines) > MaxEvents /\ pendingCount' = CountAfter(lines)
     \/ Fault("crash") /\ pendingCount' = None
  /\ file' = lines
  /\ cut' = FALSE
  /\ untrimmed' = untrimmed + 1
  /\ UNCHANGED <<misread, halved>>

\* The rewrite stops after n of the kept lines and perhaps a part of the next one.  An
\* exception is caught after the count was taken; a crash forgets the count.
Broken(lines) ==
  /\ Overflows(CountAfter(lines)) /\ Len(lines) > MaxEvents
  /\ \E n \in 0 .. MaxEvents - 1, partly \in BOOLEAN :
       /\ file' = SubSeq(Kept(lines), 1, n) \o (IF partly THEN <<Unreadable>> ELSE <<>>)
       /\ cut' = partly
  /\ \/ Fault("rewrite") /\ pendingCount' = CountAfter(lines)
     \/ Fault("crash") /\ pendingCount' = None
  /\ halved' = TRUE
  /\ UNCHANGED <<misread, untrimmed>>

\* record(), when the append goes through.
Record ==
  /\ written < MaxRecords
  /\ written' = written + 1
  /\ \E type \in Types :
       LET lines == WithLine([number |-> written + 1, type |-> type])
       IN Counted(lines) \/ Misread(lines) \/ Untrimmed(lines) \/ Broken(lines)

\* record(), when it does not: the event is lost, the count is not touched.
AppendFails ==
  /\ \/ Fault("append") /\ UNCHANGED <<file, cut, halved>>
     \/ Fault("torn") /\ file' = WithLine(Unreadable) /\ cut' = TRUE /\ halved' = TRUE
  /\ UNCHANGED <<pendingCount, written, misread, untrimmed>>

\* The relay is redeployed: the file stays, the count is forgotten.
Restart ==
  /\ pendingCount' = None
  /\ UNCHANGED <<file, cut, written, faults, misread, untrimmed, halved>>

Next == Record \/ AppendFails \/ Restart

Spec == Init /\ [][Next]_vars

-----------------------------------------------------------------------------
(* Properties *)

Lines == IF cut THEN Len(file) - 1 ELSE Len(file)
Threshold == (MaxEvents * 12) \div 10

\* The log outgrows the margin of the trim (history.js:18-21, 61; the test asks for 12
\* lines of a cap of 10) by one line for every trim that was due and did not begin, by one
\* margin for every time the file could not be read, and no further: failed appends,
\* restarts and rewrites that stop half way add nothing to it.
GrowthIsBounded == Lines <= Threshold + misread * (Threshold + 1) + untrimmed

\* Unless it has misread the file the relay never believes it shorter than it is, so no
\* trim comes late (history.js:58-61).
CountCoversTheFile ==
  misread = 0 /\ pendingCount # None => Lines <= pendingCount

\* As long as nothing was written by halves, the file is the newest events recorded,
\* without a hole, and at least as many of them as a trim keeps (history.js:38-47).
NewestAreKept ==
  ~halved =>
    /\ \A i \in DOMAIN file :
         file[i] # Unreadable /\ file[i].number = written - Len(file) + i
    /\ Len(file) >= MaxEvents \/ Len(file) = written

-----------------------------------------------------------------------------
(* What the dashboard says, and the code does not do *)

\* stats(): totalSessionsEver.
SessionsEver == Len(SelectSeq(file, LAMBDA line : line # Unreadable /\ line.type = "created"))

\* "Sessions ever" (public/dashboard.js:91) only grows.
SessionsEverOnlyGrow == [][SessionsEver' >= SessionsEver]_vars
=============================================================================
