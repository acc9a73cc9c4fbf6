------------------------- MODULE MCStreamSupervisor -------------------------
(* Instances of StreamSupervisor for TLC.  Cameras and sources are           *)
(* interchangeable until the catalogue tells them apart, so one of the       *)
(* catalogues that differ by a renaming is enough to start from.             *)
EXTENDS StreamSupervisor

CONSTANTS c1, c2, s1, s2

MCInit ==
  /\ Init
  /\ catalogue[c1] # s2
  /\ catalogue[c1] = Absent => catalogue[c2] = Absent

MCFairSpec == MCInit /\ [][Next]_vars /\ Fairness
=============================================================================
