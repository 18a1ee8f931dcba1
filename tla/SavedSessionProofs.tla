-------------------------- MODULE SavedSessionProofs --------------------------
(***************************************************************************)
(* Theorems about SavedSession, for any sessions and bounds.  PageInv says *)
(* that a page without a session has nothing running, SeqInv that what is  *)
(* stored of a session is never ahead of what its page has, and            *)
(* ProgressIsTended that progress not stored is about to be.               *)
(***************************************************************************)
EXTENDS SavedSession, TLAPS

\* Outside a session nothing runs and nothing is known; text is never drawn before its
\* number is taken; a timer is never left spent.
PageInv ==
  /\ page # "session" =>
       /\ line = "none" /\ sessionId = None
       /\ drawn = lastSeq
       /\ ~unparsed /\ ~pending
  /\ drawn <= lastSeq
  /\ timer # "spent"

\* Who may be stored, offered or restored has been paired with; a page that offers a
\* blob offers what is stored; and a page has at least what is stored of its session.
SeqInv ==
  /\ stored # None => stored.session \in paired
  /\ offered # None => offered.session \in paired
  /\ sessionId # None => sessionId \in paired
  /\ page = "landing" /\ offered # None /\ stored # None =>
       stored.session = offered.session /\ stored.seq <= offered.seq
  /\ stored # None /\ stored.session = sessionId => stored.seq <= lastSeq

SavedInv == TypeOK /\ PageInv /\ SeqInv /\ ProgressIsTended

-----------------------------------------------------------------------------
(* Storage *)

LEMMA SnapshotType ==
  ASSUME TypeOK
  PROVE  \A s \in Sessions \cup {None}, n \in 0 .. MaxSeq : Snapshot(s, n) \in Blob \cup {None}
<1> TAKE s \in Sessions \cup {None}, n \in 0 .. MaxSeq
<1>1. CASE s = None
  BY <1>1 DEF Snapshot
<1>2. CASE s # None
  <2>1. 0 \in 0 .. MaxAge + 1
    BY BoundAssumption DEF BoundAssumption
  <2>2. [session |-> s, seq |-> n, age |-> 0] \in Blob
    BY <1>2, <2>1 DEF Blob
  <2> QED BY <1>2, <2>2 DEF Snapshot
<1> QED BY <1>1, <1>2

\* What a write leaves: the blob, or what was there.
LEMMA SaveTypes ==
  ASSUME TypeOK
  PROVE  \A blob \in Blob \cup {None} :
           Save(blob) => stored' \in Blob \cup {None} /\ refused' \in BOOLEAN
BY DEF TypeOK, Save

LEMMA FlushTypes ==
  ASSUME TypeOK, Flush
  PROVE  /\ stored' \in Blob \cup {None} /\ refused' \in BOOLEAN
         /\ pending' = FALSE /\ timer' = "none"
<1>1. CASE pending
  <2>1. Save(Snapshot(sessionId, lastSeq))
    BY <1>1 DEF Flush
  <2>2. Snapshot(sessionId, lastSeq) \in Blob \cup {None}
    BY SnapshotType DEF TypeOK
  <2> QED BY <2>1, <2>2, SaveTypes DEF Flush, TimerAfterFlush
<1>2. CASE ~pending
  BY <1>2 DEF Flush, TimerAfterFlush, TypeOK
<1> QED BY <1>1, <1>2 DEF TypeOK

-----------------------------------------------------------------------------
(* Types *)

LEMMA InitSaved == Init => SavedInv
<1> SUFFICES ASSUME Init PROVE SavedInv
  OBVIOUS
<1>1. TypeOK
  <2>1. lastSeq \in 0 .. MaxSeq /\ drawn \in 0 .. MaxSeq
    BY BoundAssumption DEF Init, BoundAssumption
  <2>2. ended \in [Sessions -> {"no", "lost", "quit", "forgotten"}] /\ paired \subseteq Sessions
    BY DEF Init
  <2>3. /\ stored \in Blob \cup {None} /\ offered \in Blob \cup {None}
        /\ sessionId \in Sessions \cup {None}
    BY DEF Init
  <2> QED BY <2>1, <2>2, <2>3 DEF Init, TypeOK
<1>2. PageInv /\ SeqInv /\ ProgressIsTended
  BY DEF Init, PageInv, SeqInv, ProgressIsTended
<1> QED BY <1>1, <1>2 DEF SavedInv

LEMMA NoPageTypes ==
  ASSUME NoPage
  PROVE  /\ page' \in {"closed", "landing", "session"} /\ offered' \in Blob \cup {None}
         /\ line' \in {"none", "pairing", "deriving", "up", "dead", "left"}
         /\ sessionId' \in Sessions \cup {None} /\ unparsed' \in BOOLEAN
         /\ lastSeq' \in 0 .. MaxSeq /\ drawn' \in 0 .. MaxSeq
<1>1. 0 \in 0 .. MaxSeq
  BY BoundAssumption DEF BoundAssumption
<1> QED BY <1>1 DEF NoPage

LEMMA TypeStep == TypeOK /\ [Next]_vars => TypeOK'
<1> SUFFICES ASSUME TypeOK, [Next]_vars PROVE TypeOK'
  OBVIOUS
<1> USE DEF persister, client, progress, history
<1>1. CASE UNCHANGED vars
  BY <1>1 DEF vars, TypeOK
<1>2. CASE Load
  BY <1>2, BoundAssumption DEF Load, TypeOK, BoundAssumption
<1>3. CASE Forget
  BY <1>3, BoundAssumption DEF Forget, Ending, TypeOK, BoundAssumption
<1>4. CASE StartPairing
  BY <1>4, BoundAssumption DEF StartPairing, TypeOK, BoundAssumption
<1>5. CASE Resume
  BY <1>5, BoundAssumption DEF Resume, SeqOf, Blob, TypeOK, BoundAssumption
<1>6. CASE Derived
  BY <1>6, BoundAssumption DEF Derived, TypeOK, BoundAssumption
<1>7. ASSUME NEW s \in Sessions, PairingAck(s) PROVE TypeOK'
  <2>1. Snapshot(s, lastSeq) \in Blob \cup {None}
    BY <1>7, SnapshotType DEF PairingAck, TypeOK
  <2>2. stored' \in Blob \cup {None} /\ refused' \in BOOLEAN
    BY <1>7, <2>1, SaveTypes DEF PairingAck, TypeOK
  <2> QED BY <1>7, <2>2, BoundAssumption DEF PairingAck, TypeOK, BoundAssumption
<1>8. CASE Output \/ BatchItem
  <2>1. drawn' \in {drawn, lastSeq'} /\ unparsed' \in {unparsed, TRUE}
    BY <1>8 DEF Output, BatchItem
  <2>2. UNCHANGED <<stored, page, offered, line, sessionId, persister, history, refused>>
    BY <1>8 DEF Output, BatchItem
  <2>3. lastSeq' = lastSeq + 1 /\ lastSeq < MaxSeq /\ lastSeq \in 0 .. MaxSeq
    BY <1>8 DEF Output, BatchItem, TypeOK
  <2>4. lastSeq' \in 0 .. MaxSeq
    BY <2>3, BoundAssumption DEF BoundAssumption
  <2>5. drawn' \in 0 .. MaxSeq /\ unparsed' \in BOOLEAN
    BY <2>1, <2>4 DEF TypeOK
  <2> QED BY <2>2, <2>4, <2>5 DEF TypeOK
<1>20. CASE BatchEnds
  BY <1>20 DEF BatchEnds, TypeOK
<1>9. CASE Notice
  BY <1>9, BoundAssumption DEF Notice, Handling, TypeOK, BoundAssumption
<1>10. CASE SyncComplete
  <2>1. Snapshot(sessionId, lastSeq') \in Blob \cup {None}
    BY <1>10, SnapshotType DEF SyncComplete, TypeOK
  <2>2. stored' \in Blob \cup {None} /\ refused' \in BOOLEAN
    BY <1>10, <2>1, SaveTypes DEF SyncComplete, TypeOK
  <2> QED BY <1>10, <2>2, BoundAssumption DEF SyncComplete, TypeOK, BoundAssumption
<1>11. CASE Parsed
  BY <1>11, BoundAssumption DEF Parsed, Armed, TypeOK, BoundAssumption
<1>12. CASE TimerFires
  <2>1. /\ stored' \in Blob \cup {None} /\ refused' \in BOOLEAN
        /\ pending' = FALSE /\ timer' = "none"
    BY <1>12, FlushTypes DEF TimerFires
  <2>2. UNCHANGED <<page, offered, client, unparsed, history>>
    BY <1>12 DEF TimerFires
  <2> QED BY <2>1, <2>2 DEF TypeOK
<1>13. CASE Hidden
  <2>1. /\ stored' \in Blob \cup {None} /\ refused' \in BOOLEAN
        /\ pending' = FALSE /\ timer' = "none"
    BY <1>13, FlushTypes DEF Hidden
  <2>2. UNCHANGED <<page, offered, client, unparsed, history>>
    BY <1>13 DEF Hidden
  <2> QED BY <2>1, <2>2 DEF TypeOK
<1>14. CASE SessionLost
  BY <1>14, BoundAssumption DEF SessionLost, Ending, TypeOK, BoundAssumption
<1>15. CASE Fatal
  BY <1>15, BoundAssumption DEF Fatal, TypeOK, BoundAssumption
<1>16. CASE Quit
  BY <1>16, BoundAssumption DEF Quit, Ending, TypeOK, BoundAssumption
<1>17. CASE PageHide
  <2>1. Snapshot(sessionId, lastSeq) \in Blob \cup {None}
    BY <1>17, SnapshotType DEF PageHide, TypeOK
  <2>2. stored' \in Blob \cup {None} /\ refused' \in BOOLEAN
    BY <1>17, <2>1, SaveTypes DEF PageHide, TypeOK
  <2>3. NoPage /\ pending' = FALSE /\ timer' = "none" /\ UNCHANGED history
    BY <1>17 DEF PageHide
  <2> QED BY <2>2, <2>3, NoPageTypes DEF TypeOK
<1>18. CASE Killed
  <2>1. NoPage /\ pending' = FALSE /\ timer' = "none" /\ UNCHANGED <<stored, history, refused>>
    BY <1>18 DEF Killed
  <2> QED BY <2>1, NoPageTypes DEF TypeOK
<1>19. CASE Ages
  BY <1>19, BoundAssumption DEF Ages, Blob, TypeOK, BoundAssumption
<1> QED BY <1>1, <1>2, <1>3, <1>4, <1>5, <1>6, <1>7, <1>8, <1>9, <1>10, <1>11, <1>12, <1>13,
           <1>14, <1>15, <1>16, <1>17, <1>18, <1>19, <1>20 DEF Next

-----------------------------------------------------------------------------
(* The page *)

LEMMA PageStep == TypeOK /\ PageInv /\ [Next]_vars => PageInv'
<1> SUFFICES ASSUME TypeOK, PageInv, [Next]_vars PROVE PageInv'
  OBVIOUS
<1> USE DEF persister, client, progress, history, PageInv
<1>0. lastSeq \in Nat /\ drawn \in Nat
  BY BoundAssumption DEF TypeOK, BoundAssumption
<1>1. CASE UNCHANGED vars
  BY <1>1 DEF vars
<1>2. CASE Load \/ Forget \/ StartPairing \/ Derived
  BY <1>2 DEF Load, Forget, StartPairing, Derived
<1>10. CASE Resume
  <2>1. offered.seq \in Nat
    BY <1>10, BoundAssumption DEF Resume, TypeOK, Blob, BoundAssumption
  <2> QED BY <1>10, <2>1 DEF Resume, SeqOf
<1>3. CASE (\E s \in Sessions : PairingAck(s)) \/ Notice
  BY <1>3 DEF PairingAck, Notice, Handling
<1>11. CASE Output \/ BatchItem \/ SyncComplete
  <2>1. page' = "session" /\ drawn' \in {drawn, lastSeq'} /\ timer' = timer
    BY <1>11 DEF Output, BatchItem, SyncComplete, Handling
  <2>2. lastSeq' \in Nat /\ lastSeq' >= lastSeq
    BY <1>0, <1>11, BoundAssumption DEF Output, BatchItem, SyncComplete, BoundAssumption
  <2> QED BY <1>0, <2>1, <2>2
<1>9. CASE BatchEnds
  BY <1>0, <1>9 DEF BatchEnds, Batching
<1>4. CASE Parsed
  BY <1>4 DEF Parsed, Armed
<1>5. CASE TimerFires \/ Hidden
  BY <1>5 DEF TimerFires, Hidden, Flush, TimerAfterFlush
<1>6. CASE SessionLost \/ Fatal \/ Quit
  BY <1>6 DEF SessionLost, Fatal, Quit
<1>7. CASE PageHide \/ Killed
  BY <1>7 DEF PageHide, Killed, NoPage
<1>8. CASE Ages
  BY <1>8 DEF Ages
<1> QED BY <1>1, <1>2, <1>3, <1>4, <1>5, <1>6, <1>7, <1>8, <1>9, <1>10, <1>11 DEF Next

-----------------------------------------------------------------------------
(* What is stored *)

\* A write leaves what was written, or what was there.
LEMMA SaveLeaves ==
  ASSUME TypeOK
  PROVE  \A s \in Sessions \cup {None}, n \in 0 .. MaxSeq : Save(Snapshot(s, n)) =>
           \/ stored' = stored
           \/ s # None /\ stored' # None /\ stored'.session = s /\ stored'.seq = n
<1> TAKE s \in Sessions \cup {None}, n \in 0 .. MaxSeq
<1>1. CASE s = None
  BY <1>1 DEF Save, Snapshot
<1>2. CASE s # None
  <2>1. Snapshot(s, n) = [session |-> s, seq |-> n, age |-> 0]
    BY <1>2 DEF Snapshot
  <2>2. Snapshot(s, n) # None => Snapshot(s, n).session = s /\ Snapshot(s, n).seq = n
    BY <2>1
  <2> QED BY <1>2, <2>2 DEF Save
<1> QED BY <1>1, <1>2

LEMMA FlushLeaves ==
  ASSUME TypeOK, Flush
  PROVE  \/ stored' = stored
         \/ /\ sessionId # None
            /\ stored' # None /\ stored'.session = sessionId /\ stored'.seq = lastSeq
BY SaveLeaves DEF Flush, TypeOK

\* Time changes nothing but the age.
LEMMA AgesLeaves ==
  ASSUME TypeOK, Ages
  PROVE  /\ stored # None /\ stored' # None
         /\ stored'.session = stored.session /\ stored'.seq = stored.seq
<1>1. stored \in Blob /\ stored # None /\ stored' = [stored EXCEPT !.age = @ + 1]
  BY DEF Ages, TypeOK
<1>2. stored'.session = stored.session /\ stored'.seq = stored.seq
  BY <1>1 DEF Blob
<1>3. stored' # None
  <2>1. stored'.seq \in 0 .. MaxSeq /\ stored' \in Blob
    <3>1. stored.age \in 0 .. MaxAge + 1 /\ stored.age <= MaxAge
      BY <1>1 DEF Ages, Blob
    <3>2. stored.age + 1 \in 0 .. MaxAge + 1
      BY <3>1, BoundAssumption DEF BoundAssumption
    <3> QED BY <1>1, <3>2 DEF Blob
  <2>2. stored' \in [session : Sessions, seq : Nat, age : Nat]
    BY <2>1, BoundAssumption DEF Blob, BoundAssumption
  <2> QED BY <2>2, NoneAssumption DEF NoneAssumption
<1> QED BY <1>1, <1>2, <1>3

LEMMA SeqStep == TypeOK /\ PageInv /\ SeqInv /\ [Next]_vars => SeqInv'
<1> SUFFICES ASSUME TypeOK, PageInv, SeqInv, [Next]_vars PROVE SeqInv'
  OBVIOUS
<1> USE DEF persister, client, progress, history
<1>1. CASE UNCHANGED vars
  BY <1>1 DEF vars, SeqInv
<1>2. CASE Load
  <2>1. /\ stored' = stored \/ stored' = None
        /\ offered' = stored' /\ sessionId' = None /\ sessionId = None /\ paired' = paired
    BY <1>2 DEF Load, PageInv
  <2>2. stored' # None => stored'.session \in Sessions /\ stored'.seq \in Nat
    BY <2>1, BoundAssumption DEF TypeOK, Blob, BoundAssumption
  <2>3. stored' # None => stored'.session # None
    BY <2>2, NoneAssumption DEF NoneAssumption
  <2>4. stored' # None => stored'.session \in paired
    BY <2>1 DEF SeqInv
  <2>5. stored' # None => stored'.seq <= stored'.seq
    BY <2>2
  <2> QED BY <2>1, <2>3, <2>4, <2>5 DEF SeqInv
<1>3. CASE Forget
  BY <1>3 DEF Forget, SeqInv
<1>4. CASE StartPairing
  BY <1>4 DEF StartPairing, SeqInv
<1>5. CASE Resume
  BY <1>5 DEF Resume, SeqOf, SeqInv
<1>6. CASE Derived \/ BatchEnds \/ Notice \/ Parsed \/ Fatal
  BY <1>6 DEF Derived, BatchEnds, Notice, Parsed, Fatal, SeqInv
<1>7. ASSUME NEW s \in Sessions, PairingAck(s) PROVE SeqInv'
  <2>1. /\ s \notin paired /\ paired' = paired \cup {s} /\ sessionId' = s
        /\ lastSeq' = lastSeq /\ offered' = offered /\ page' = page /\ lastSeq \in Nat
    BY <1>7, BoundAssumption DEF PairingAck, TypeOK, BoundAssumption
  <2>2. stored' = stored \/ (stored'.session = s /\ stored'.seq = lastSeq)
    BY <1>7, SaveLeaves DEF PairingAck, TypeOK
  <2>3. page # "landing"
    BY <1>7 DEF PairingAck, PageInv
  <2> QED BY <2>1, <2>2, <2>3 DEF SeqInv
<1>8. CASE Output \/ BatchItem
  <2>1. lastSeq \in Nat /\ (stored # None => stored.seq \in Nat)
    BY BoundAssumption DEF TypeOK, Blob, BoundAssumption
  <2>2. lastSeq' = lastSeq + 1 /\ UNCHANGED <<stored, page, offered, sessionId, paired>>
    BY <1>8 DEF Output, BatchItem
  <2>3. page # "landing"
    BY <1>8 DEF Output, BatchItem, Handling, PageInv
  <2> QED BY <2>1, <2>2, <2>3 DEF SeqInv
<1>9. CASE SyncComplete
  <2>1. /\ lastSeq \in Nat /\ lastSeq' \in Nat /\ lastSeq <= lastSeq'
        /\ stored # None => stored.seq \in Nat
    BY <1>9, BoundAssumption DEF SyncComplete, TypeOK, Blob, BoundAssumption
  <2>2. stored' = stored \/ (stored'.session = sessionId /\ stored'.seq = lastSeq')
    <3> lastSeq' \in 0 .. MaxSeq
      BY <1>9, BoundAssumption DEF SyncComplete, TypeOK, BoundAssumption
    <3> QED BY <1>9, SaveLeaves DEF SyncComplete, TypeOK
  <2>3. UNCHANGED <<page, offered, sessionId, paired>> /\ sessionId # None /\ page # "landing"
    BY <1>9 DEF SyncComplete, Handling, PageInv
  <2> QED BY <2>1, <2>2, <2>3 DEF SeqInv
<1>10. CASE TimerFires \/ Hidden
  <2>1. stored' = stored
        \/ (sessionId # None /\ stored'.session = sessionId /\ stored'.seq = lastSeq)
    BY <1>10, FlushLeaves DEF TimerFires, Hidden
  <2>2. UNCHANGED <<page, offered, sessionId, lastSeq, paired>> /\ lastSeq \in Nat
    BY <1>10, BoundAssumption DEF TimerFires, Hidden, TypeOK, BoundAssumption
  <2>3. page = "landing" => sessionId = None
    BY DEF PageInv
  <2> QED BY <2>1, <2>2, <2>3 DEF SeqInv
<1>11. CASE SessionLost \/ Quit
  BY <1>11 DEF SessionLost, Quit, SeqInv
<1>12. CASE PageHide
  <2>1. stored' = stored \/ (sessionId # None /\ stored'.session = sessionId)
    BY <1>12, SaveLeaves DEF PageHide, TypeOK
  <2>2. page' = "closed" /\ sessionId' = None /\ offered' = None /\ paired' = paired
    BY <1>12 DEF PageHide, NoPage
  <2>3. (stored' # None => stored'.session \in paired) /\ None \notin paired
    BY <2>1, NoneAssumption DEF SeqInv, TypeOK, NoneAssumption
  <2> QED BY <2>2, <2>3 DEF SeqInv
<1>13. CASE Killed
  <2>1. /\ page' = "closed" /\ sessionId' = None /\ offered' = None
        /\ paired' = paired /\ stored' = stored
    BY <1>13 DEF Killed, NoPage
  <2>2. None \notin paired
    BY NoneAssumption DEF TypeOK, NoneAssumption
  <2> QED BY <2>1, <2>2 DEF SeqInv
<1>14. CASE Ages
  <2>1. /\ stored # None /\ stored'.session = stored.session /\ stored'.seq = stored.seq
        /\ UNCHANGED <<page, offered, sessionId, lastSeq, paired>>
    BY <1>14, AgesLeaves DEF Ages
  <2> QED BY <2>1 DEF SeqInv
<1> QED BY <1>1, <1>2, <1>3, <1>4, <1>5, <1>6, <1>7, <1>8, <1>9, <1>10, <1>11, <1>12, <1>13,
           <1>14 DEF Next

\* One step never stores less of the session that is stored.
LEMMA StoredStep ==
  TypeOK /\ PageInv /\ SeqInv /\ [Next]_vars =>
    (stored # None /\ stored' # None /\ stored'.session = stored.session
       => stored'.seq >= stored.seq)
<1> SUFFICES ASSUME TypeOK, PageInv, SeqInv, [Next]_vars,
                    stored # None, stored' # None, stored'.session = stored.session
             PROVE  stored'.seq >= stored.seq
  OBVIOUS
<1> USE DEF persister, client, progress, history
<1>1. lastSeq \in Nat /\ stored.seq \in Nat
  BY BoundAssumption DEF TypeOK, Blob, BoundAssumption
<1>2. CASE stored' = stored
  BY <1>1, <1>2
<1>3. ASSUME NEW s \in Sessions, PairingAck(s) PROVE stored'.seq >= stored.seq
  <2>1. stored' = stored \/ stored'.session = s
    BY <1>3, SaveLeaves DEF PairingAck, TypeOK
  <2>2. stored.session \in paired /\ s \notin paired
    BY <1>3 DEF PairingAck, SeqInv
  <2> QED BY <2>1, <2>2, <1>1
<1>4. CASE SyncComplete
  <2>1. lastSeq' \in 0 .. MaxSeq /\ lastSeq' \in Nat /\ lastSeq <= lastSeq'
    BY <1>4, BoundAssumption DEF SyncComplete, TypeOK, BoundAssumption
  <2>2. stored' = stored \/ (stored'.session = sessionId /\ stored'.seq = lastSeq')
    BY <1>4, <2>1, SaveLeaves DEF SyncComplete, TypeOK
  <2> QED BY <2>1, <2>2, <1>1 DEF SeqInv
<1>5. CASE TimerFires \/ Hidden \/ PageHide
  <2>1. stored' = stored \/ (stored'.session = sessionId /\ stored'.seq = lastSeq)
    BY <1>5, FlushLeaves, SaveLeaves DEF TimerFires, Hidden, PageHide, TypeOK
  <2> QED BY <2>1, <1>1 DEF SeqInv
<1>6. CASE Ages
  BY <1>6, <1>1, AgesLeaves
<1>7. CASE \/ Load \/ Forget \/ StartPairing \/ Resume \/ Derived
            \/ Output \/ BatchItem \/ BatchEnds \/ Notice \/ Parsed
  BY <1>2, <1>7 DEF Load, Forget, StartPairing, Resume, Derived, Output, BatchItem, BatchEnds,
                    Notice, Parsed
<1>8. CASE SessionLost \/ Fatal \/ Quit \/ Killed \/ UNCHANGED vars
  BY <1>2, <1>8 DEF SessionLost, Fatal, Quit, Killed, vars
<1> QED BY <1>3, <1>4, <1>5, <1>6, <1>7, <1>8 DEF Next

-----------------------------------------------------------------------------
(* Progress *)

LEMMA ProgressStep == SavedInv /\ [Next]_vars => ProgressIsTended'
<1> SUFFICES ASSUME SavedInv, [Next]_vars,
                    line' = "up", sessionId' # None, ~SavedUpTo(lastSeq)', ~refused'
             PROVE  Batching' \/ unparsed' \/ (pending' /\ timer' = "armed")
  BY DEF ProgressIsTended
<1> USE DEF persister, client, progress, history, SavedInv
<1>1. CASE UNCHANGED vars
  BY <1>1 DEF vars, ProgressIsTended, SavedUpTo, Batching
<1>2. CASE Load \/ Forget \/ StartPairing \/ Resume
  BY <1>2 DEF Load, Forget, StartPairing, Resume, PageInv
<1>3. CASE Derived \/ Output \/ BatchEnds \/ Notice
  BY <1>3 DEF Derived, Output, BatchEnds, Notice
<1>10. CASE BatchItem
  <2>1. lastSeq \in Nat /\ drawn \in Nat /\ drawn <= lastSeq
    BY BoundAssumption DEF TypeOK, PageInv, BoundAssumption
  <2>2. lastSeq' = lastSeq + 1 /\ drawn' = drawn
    BY <1>10 DEF BatchItem
  <2> QED BY <2>1, <2>2 DEF Batching
<1>4. CASE Parsed
  BY <1>4 DEF Parsed, Armed, PageInv, TypeOK
<1>5. ASSUME NEW s \in Sessions, PairingAck(s)
      PROVE  Batching' \/ unparsed' \/ (pending' /\ timer' = "armed")
  <2>1. s # None /\ sessionId' = s /\ lastSeq' = lastSeq /\ Save(Snapshot(s, lastSeq))
    BY <1>5, NoneAssumption DEF PairingAck, NoneAssumption
  <2>2. Snapshot(s, lastSeq) = [session |-> s, seq |-> lastSeq, age |-> 0]
    BY <2>1 DEF Snapshot
  <2>3. Snapshot(s, lastSeq) # None
    BY <2>2, BoundAssumption, NoneAssumption DEF TypeOK, BoundAssumption, NoneAssumption
  <2>4. stored' = Snapshot(s, lastSeq)
    BY <2>1, <2>3 DEF Save
  <2>5. SavedUpTo(lastSeq)'
    BY <2>1, <2>2, <2>3, <2>4, BoundAssumption DEF SavedUpTo, TypeOK, BoundAssumption
  <2> QED BY <2>5
<1>6. CASE SyncComplete
  <2>1. /\ lastSeq' \in Nat /\ sessionId \in Sessions /\ sessionId' = sessionId
        /\ Save(Snapshot(sessionId, lastSeq'))
    BY <1>6, BoundAssumption DEF SyncComplete, Handling, TypeOK, BoundAssumption
  <2>2. Snapshot(sessionId, lastSeq') = [session |-> sessionId, seq |-> lastSeq', age |-> 0]
    BY <2>1, NoneAssumption DEF Snapshot, NoneAssumption
  <2>3. Snapshot(sessionId, lastSeq') # None
    BY <2>1, <2>2, NoneAssumption DEF NoneAssumption
  <2>4. stored' = Snapshot(sessionId, lastSeq')
    BY <2>1, <2>3 DEF Save
  <2>5. SavedUpTo(lastSeq)'
    BY <2>1, <2>2, <2>3, <2>4 DEF SavedUpTo
  <2> QED BY <2>5
<1>7. CASE TimerFires \/ Hidden
  <2>1. /\ Flush /\ UNCHANGED <<line, sessionId, lastSeq, drawn, unparsed>>
        /\ sessionId \in Sessions /\ lastSeq \in Nat
    BY <1>7, BoundAssumption DEF TimerFires, Hidden, TypeOK, BoundAssumption
  <2>2. CASE pending
    <3>1. Snapshot(sessionId, lastSeq) = [session |-> sessionId, seq |-> lastSeq, age |-> 0]
      BY <2>1, NoneAssumption DEF Snapshot, NoneAssumption
    <3>2. Snapshot(sessionId, lastSeq) # None
      BY <2>1, <3>1, NoneAssumption DEF NoneAssumption
    <3>3. stored' = Snapshot(sessionId, lastSeq)
      BY <2>1, <2>2, <3>2 DEF Flush, Save
    <3>4. SavedUpTo(lastSeq)'
      BY <2>1, <3>1, <3>2, <3>3 DEF SavedUpTo
    <3> QED BY <3>4
  <2>3. CASE ~pending
    <3>1. UNCHANGED <<stored, refused>>
      BY <2>1, <2>3 DEF Flush
    <3> QED BY <2>1, <2>3, <3>1 DEF ProgressIsTended, SavedUpTo, Batching
  <2> QED BY <2>2, <2>3 DEF TypeOK
<1>8. CASE SessionLost \/ Fatal \/ Quit \/ PageHide \/ Killed
  BY <1>8 DEF SessionLost, Fatal, Quit, PageHide, Killed, NoPage
<1>9. CASE Ages
  <2>1. /\ stored # None /\ stored' # None
        /\ stored'.session = stored.session /\ stored'.seq = stored.seq
        /\ UNCHANGED <<line, sessionId, lastSeq, drawn, unparsed, pending, timer, refused>>
    BY <1>9, AgesLeaves DEF Ages
  <2> QED BY <2>1 DEF ProgressIsTended, SavedUpTo, Batching
<1> QED BY <1>1, <1>2, <1>3, <1>4, <1>5, <1>6, <1>7, <1>8, <1>9, <1>10 DEF Next

-----------------------------------------------------------------------------
(* Theorems *)

THEOREM SavedInvariant == SafeSpec => []SavedInv
<1>1. SavedInv /\ [Next]_vars => SavedInv'
  BY TypeStep, PageStep, SeqStep, ProgressStep DEF SavedInv
<1> QED BY InitSaved, <1>1, PTL DEF SafeSpec

\* Whatever the page, the relay and the system do, the state keeps its shape
\* (termly-session.js:18-121, termly-client.js:58-100).
THEOREM TypeSafety == SafeSpec => []TypeOK
<1>1. SavedInv => TypeOK
  BY DEF SavedInv
<1> QED BY SavedInvariant, <1>1, PTL

\* While a session is live, progress that is not stored is about to be: within a batch,
\* as text not parsed yet, or under a running timer (termly-client.js:284-291,
\* termly-session.js:97-117).
THEOREM ProgressIsAlwaysTended == SafeSpec => []ProgressIsTended
<1>1. SavedInv => ProgressIsTended
  BY DEF SavedInv
<1> QED BY SavedInvariant, <1>1, PTL

\* What is stored of a session never goes back (termly-client.js:83-88).
THEOREM StoredIsMonotone == SafeSpec => StoredNeverRegresses
<1>1. SavedInv /\ [Next]_vars =>
        [stored # None /\ stored' # None /\ stored'.session = stored.session
           => stored'.seq >= stored.seq]_vars
  BY StoredStep DEF SavedInv
<1> QED BY SavedInvariant, <1>1, PTL DEF SafeSpec, StoredNeverRegresses
=============================================================================
