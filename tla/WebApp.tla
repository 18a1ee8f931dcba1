-------------------------------- MODULE WebApp --------------------------------
(***************************************************************************)
(* One page of the web client: the scanner, the update flow and the input  *)
(* path together.  They meet in the client (which the scanner begins, the  *)
(* update spares and a reload ends), in the code field, and in the banner. *)
(***************************************************************************)
EXTENDS QrScanner, UpdateFlow, InputPath

ASSUME VisitAssumption ==
  Visits \subseteq [scans : SUBSET Scans, pastes : SUBSET Pastes, clients : Nat,
                   keys : Nat, faults : Nat, builds : 1 .. MaxBuild]

TypeOK == PageTypeOK /\ ScannerTypeOK /\ UpdateTypeOK /\ InputTypeOK

vars == <<pageVars, scanVars, updateVars, inputVars>>

Init ==
  /\ PageInit
  /\ ScannerInit /\ UpdateInit /\ InputInit

\* A page that starts again has neither scans nor writes under way.
StartsAgain ==
  /\ Reloads \/ Reopens
  /\ awaits' = [s \in Scans |-> "nothing"] /\ live' = {} /\ scanning' = NoScan
  /\ connected' = TRUE /\ cliOnline' = TRUE /\ through' = TRUE
  /\ stage' = [p \in Pastes |-> "idle"] /\ written' = [p \in Pastes |-> 0]
  /\ size' = [p \in Pastes |-> 0] /\ bracketed' = [p \in Pastes |-> FALSE]
  /\ keys' = 0 /\ sealing' = {} /\ ctrlArmed' = FALSE /\ received' = <<>>
  /\ UNCHANGED faults

Next ==
  \/ ScannerNext /\ UNCHANGED <<updateVars, inputVars>>
  \/ UpdateStep /\ UNCHANGED <<scanVars, inputVars>>
  \/ InputNext /\ UNCHANGED <<scanVars, updateVars>>
  \/ StartsAgain

SafeSpec == Init /\ [][Next]_vars
Spec == SafeSpec /\ ScannerFairness /\ UpdateFairness /\ InputFairness
=============================================================================
