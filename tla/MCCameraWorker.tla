--------------------------- MODULE MCCameraWorker ---------------------------
(***************************************************************************)
(* CameraWorker with two vehicles, and, before the worker has done         *)
(* anything, a buffer of PlateBuffer that fills up beside it with reads    *)
(* that are more varied than the worker's.  Letters are A and B and digits *)
(* 1 and 8, B and 8 are confused, and there are three formats of two       *)
(* lengths.                                                                *)
(***************************************************************************)
EXTENDS CameraWorker, PlateBuffer

CONSTANTS v1, v2

Letter == {"A", "B"}
Digit == {"1", "8"}
MCFormats == {<<Letter, Digit, Digit>>, <<Digit, Digit, Letter>>, <<Letter, Digit>>}
MCConfusables == [c \in {"B", "8"} |-> IF c = "B" THEN "8" ELSE "B"]

Texts ==
  { <<"A", "1", "1">>, <<"A", "1", "8">>, <<"A", "8", "1">>, <<"B", "1", "1">>,
    <<"1", "8", "B">>, <<"A", "1">> }

\* weight and confidence vary independently: a sure read of a poor crop weighs
\* little, a doubtful read of a good one much
Scores == {<<2, 98>>, <<3, 65>>, <<6, 70>>}

MCObservations == {[text |-> t, weight |-> s[1], conf |-> s[2]] : t \in Texts, s \in Scores}

\* a doubtful read, and one after which ANPR is not run again
Doubtful == [text |-> <<"A", "1">>, weight |-> 2, conf |-> 70]
Sure == [text |-> <<"B", "1">>, weight |-> 3, conf |-> 92]

Outcome(look, better, found) == [look |-> look, better |-> better, found |-> found]

\* an object that is no vehicle, a doubtful read, a sure one in a better crop
MCOutcomes ==
  {Outcome(Blank, FALSE, FALSE), Outcome(Doubtful, FALSE, FALSE), Outcome(Sure, TRUE, TRUE)}

\* bound: only the session that was opened first is read more than once, as
\* often as it takes to overflow its buffer
ReadOnce(table) == \A id \in DOMAIN table : table[id].n > 1 => Len(table[id].obs) <= 1

MCInit == Init /\ BufferInit

\* Init also says that the worker has not begun.
MCNext ==
  \/ buffer = <<>> /\ Next /\ ReadOnce(sessions') /\ UNCHANGED buffer
  \/ Init /\ BufferNext /\ UNCHANGED vars

MCFairSpec == MCInit /\ [][MCNext]_<<vars, buffer>> /\ Fairness
=============================================================================
