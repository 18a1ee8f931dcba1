----------------------------- MODULE SessionLine -----------------------------
(***************************************************************************)
(* What the web client promises its page about the line of a session, with *)
(* no sockets, frames or timers in it.  There is one line at a time.  While*)
(* the session is known and not ended, a line that breaks is either given  *)
(* up with a verdict or tended: another one will be opened without the page*)
(* asking for it, and nothing takes that away but the opening.  An ended   *)
(* session opens none, but for the restore the user had asked for before.  *)
(*                                                                         *)
(* ClientConnection (termly-client.js) is shown to implement this          *)
(* specification.                                                          *)
(***************************************************************************)

VARIABLES
  line,       \* none yet, or what the browser calls the state of the socket
  phase,      \* whether the session is known, or has been ended by the user
  verdict,    \* whether the session is lost or the line refused for good
  tended,     \* whether something will open the next line
  restoring   \* a saved session is on its way to its first line

lineVars == <<line, phase, verdict, tended, restoring>>

Alive == {"connecting", "open", "closing"}

Init ==
  /\ line = "none" /\ phase = "unknown" /\ verdict = "none"
  /\ tended = FALSE /\ restoring = FALSE

\* A session becomes known with a saved one, or on a line that was opened by its code.
Restore ==
  /\ phase = "unknown" /\ line = "none"
  /\ phase' = "known" /\ restoring' = TRUE
  /\ UNCHANGED <<line, verdict, tended>>

Learn ==
  /\ phase = "unknown" /\ line # "none"
  /\ phase' = "known"
  /\ UNCHANGED <<line, verdict, tended, restoring>>

\* A line is tried in the place of one that is not open.
Try ==
  /\ line # "open"
  /\ phase = "known" \/ (phase = "unknown" /\ line = "none")
  /\ line' = "connecting" /\ verdict' = "none"
  /\ tended' \in BOOLEAN
  /\ UNCHANGED <<phase, restoring>>

\* The restore gets to its own line, whatever has been opened or ended meanwhile.
EndRestore ==
  /\ restoring
  /\ restoring' = FALSE
  /\ line' = "connecting" /\ verdict' = "none"
  /\ UNCHANGED <<phase, tended>>

Rise ==
  /\ line = "connecting"
  /\ line' = "open"
  /\ UNCHANGED <<phase, verdict, tended, restoring>>

\* The client gives a silent line up.
Doubt ==
  /\ line \in {"connecting", "open"}
  /\ line' = "closing"
  /\ UNCHANGED <<phase, verdict, tended, restoring>>

\* The relay ends a line with its verdict, or the line just breaks: then it is tended if
\* the session is known, and that is all there was of it if not.
Break ==
  /\ line \in Alive
  /\ line' = "closed"
  /\ \/ verdict' \in {"lost", "fatal"} /\ UNCHANGED tended
     \/ phase = "known" /\ tended' = TRUE /\ UNCHANGED verdict
     \/ phase = "unknown" /\ verdict' = "fatal" /\ UNCHANGED tended
     \/ phase = "ended" /\ UNCHANGED <<verdict, tended>>
  /\ UNCHANGED <<phase, restoring>>

End ==
  /\ phase # "ended" /\ (line # "none" \/ restoring)
  /\ phase' = "ended"
  /\ line' = IF line \in {"connecting", "open"} THEN "closing" ELSE line
  /\ tended' \in {tended, FALSE}
  /\ UNCHANGED <<verdict, restoring>>

Tend == tended' = TRUE /\ UNCHANGED <<line, phase, verdict, restoring>>

\* Only a line that is open, or a session that is not to be kept, needs no tending.
Rest ==
  /\ line = "open" \/ phase # "known"
  /\ tended' = FALSE
  /\ UNCHANGED <<line, phase, verdict, restoring>>

Next ==
  \/ Restore \/ Learn \/ Try \/ EndRestore \/ Rise \/ Doubt \/ Break \/ End
  \/ Tend \/ Rest

SafeSpec == Init /\ [][Next]_lineVars
=============================================================================
