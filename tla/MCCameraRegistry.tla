--------------------------- MODULE MCCameraRegistry ---------------------------
(***************************************************************************)
(* A state with two districts. One camera's department names the north,    *)
(* the other's nothing.                                                    *)
(***************************************************************************)
EXTENDS CameraRegistry, TLC

CONSTANTS CamA, CamB, State, North, Chief, Officer, Viewer

MCParent == (State :> None) @@ (North :> State)
MCMatch == (CamA :> North) @@ (CamB :> None)
MCGranted == (Chief :> {State}) @@ (Officer :> {North}) @@ (Viewer :> {State})

Unplaced(listed, malformed) == [listed |-> listed, location |-> None, malformed |-> malformed]

\* one camera, and another that is not listed yet, or whose entry is malformed
MCInit ==
  /\ Fresh
  /\ catalogue \in {(CamA :> Unplaced(TRUE, FALSE)) @@ (CamB :> e) : e \in {Unplaced(FALSE, FALSE), Unplaced(TRUE, TRUE)}}

MCFairSpec == MCInit /\ [][Next]_vars /\ Fairness
===============================================================================
