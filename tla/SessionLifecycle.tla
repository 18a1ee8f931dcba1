-------------------------- MODULE SessionLifecycle --------------------------
(***************************************************************************)
(* What the relay promises about the life of a session, with no sockets,   *)
(* codes or timers in it.  A session is registered, waits for a phone to   *)
(* claim its code, may be paired, and is gone in the end; it is attended   *)
(* while a peer occupies one of its two seats.  It is born once, paired at *)
(* most once in this view, and never comes back.  A session nobody claims  *)
(* does not wait forever, and one nobody attends does not stay.            *)
(*                                                                         *)
(* RelaySession (server.js) is shown to implement this specification.      *)
(***************************************************************************)

CONSTANT Sessions

VARIABLES
  status,    \* how far each session has come
  attended   \* is a peer seated in the session

vars == <<status, attended>>

Status == {"unborn", "waiting", "paired", "gone"}
Live(s) == status[s] \in {"waiting", "paired"}

TypeOK ==
  /\ status \in [Sessions -> Status]
  /\ attended \in [Sessions -> BOOLEAN]

Init ==
  /\ status = [s \in Sessions |-> "unborn"]
  /\ attended = [s \in Sessions |-> FALSE]

Register(s) ==
  /\ status[s] = "unborn"
  /\ status' = [status EXCEPT ![s] = "waiting"]
  /\ UNCHANGED attended

\* The claim may also be the moment the phone is seated: a peer that was taken
\* for the other kind is moved by the very message that pairs it.
Pair(s) ==
  /\ status[s] = "waiting"
  /\ status' = [status EXCEPT ![s] = "paired"]
  /\ \E seated \in {attended[s], TRUE} : attended' = [attended EXCEPT ![s] = seated]

Attend(s) ==
  /\ Live(s)
  /\ ~attended[s]
  /\ attended' = [attended EXCEPT ![s] = TRUE]
  /\ UNCHANGED status

Depart(s) ==
  /\ attended[s]
  /\ attended' = [attended EXCEPT ![s] = FALSE]
  /\ UNCHANGED status

Remove(gone) ==
  /\ status' = [s \in Sessions |-> IF s \in gone THEN "gone" ELSE status[s]]
  /\ attended' = [s \in Sessions |-> attended[s] /\ s \notin gone]

\* The deadline of an unclaimed session, the idle limit of an unattended one,
\* and the operator: a kill takes one session, a shutdown all of them.
Expire(s) == status[s] = "waiting" /\ Remove({s})
Idle(s) == Live(s) /\ ~attended[s] /\ Remove({s})
Kill(s) == Live(s) /\ Remove({s})
Shutdown == Remove({s \in Sessions : Live(s)})

Next ==
  \/ Shutdown
  \/ \E s \in Sessions : \/ Register(s) \/ Pair(s) \/ Attend(s) \/ Depart(s)
                         \/ Expire(s) \/ Idle(s) \/ Kill(s)

Fairness == \A s \in Sessions : WF_vars(Expire(s)) /\ WF_vars(Idle(s))

SafeSpec == Init /\ [][Next]_vars
Spec == SafeSpec /\ Fairness
=============================================================================
