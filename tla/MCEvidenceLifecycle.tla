------------------------- MODULE MCEvidenceLifecycle -------------------------
(***************************************************************************)
(* Two reads of two days that get one name in a bundle, a third that gets  *)
(* the file name of the first, and a vehicle with two images.              *)
(***************************************************************************)
EXTENDS EvidenceLifecycle, TLC

CONSTANTS R1, R2, R3, V1, A, B, C, D, K1, K2

MCNamesOf == (R1 :> {A}) @@ (R2 :> {D}) @@ (R3 :> {A}) @@ (V1 :> {B, C})
MCArcOf == [n \in Names |-> IF n = D THEN A ELSE n]
\* bound: only one of the second and the third read is ever saved
MCNext == EvidenceNext /\ \E e \in {R2, R3} : stage'[e] = "new"

MCSpec == EvidenceInit /\ [][MCNext]_evidenceVars

MCSymmetry == Permutations({K1, K2})
==============================================================================
