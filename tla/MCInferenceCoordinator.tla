------------------------ MODULE MCInferenceCoordinator ------------------------
(***************************************************************************)
(* A camera that leaves the catalogue and comes back, or comes, leaves and *)
(* comes back; and two cameras of which one leaves.                        *)
(***************************************************************************)
EXTENDS InferenceCoordinator

CONSTANTS CamA, CamB

MCInit ==
  /\ Fresh
  /\ \/ listed = {CamA} /\ edits = 0
     \/ listed = {CamA, CamB} /\ edits = 1

MCFairSpec == MCInit /\ [][Next]_vars /\ Fairness
===============================================================================
