---------------------------- MODULE TrackSession ----------------------------
(***************************************************************************)
(* The session of one vehicle track and its lifecycle                      *)
(* (services/inference/track_state.py): the methods of TrackSession as     *)
(* operators from a session to a session.                                  *)
(*                                                                         *)
(* Images are abstracted to the vehicle they show; who is the set of       *)
(* vehicles that left anything in the session and announced the plate of   *)
(* its last PlateEvent, neither of which the code keeps.  Frames are       *)
(* counted up to the one threshold that looks at them.                     *)
(***************************************************************************)
EXTENDS PlateFusion

CONSTANTS
  Grace,       \* TRACK_LOST_GRACE_FRAMES
  MinFrames,   \* CLASSIFICATION_MIN_FRAMES_BEFORE_ATTEMPT
  SkipAbove,   \* ANPR_SKIP_RERUN_ABOVE_CONFIDENCE, in percent
  Margin,      \* ANPR_REPUBLISH_MARGIN, in percent
  NoImage      \* a best-frame slot with nothing in it

ASSUME SessionAssumption ==
  /\ Grace \in Nat \ {0}
  /\ MinFrames \in Nat
  /\ SkipAbove \in Nat
  /\ Margin \in Nat

Lifecycle ==
  {"new", "active", "plate_observation", "classification", "confirmed", "lost", "finalized"}

\* TrackSession(camera_id, track_id); n numbers the sessions of a camera
NewSession(id, n) ==
  [ id |-> id, n |-> n, state |-> "new", missing |-> 0, frames |-> 0, obs |-> <<>>,
    image |-> NoImage, attempted |-> FALSE, labelled |-> FALSE, published |-> 0,
    announced |-> NoPlate, who |-> {} ]

RecordDetection(s, v) ==
  [s EXCEPT !.state = IF @ = "new" THEN "active" ELSE @,
            !.frames = IF @ < MinFrames THEN @ + 1 ELSE @,
            !.missing = 0,
            !.who = @ \cup {v}]

\* kept only if it is better than the best so far, which the scores decide
ConsiderBestVehicle(s, v, better) ==
  [s EXCEPT !.image = IF @ = NoImage \/ better THEN v ELSE @]

RecordPlate(s, o) ==
  [s EXCEPT !.obs = Appended(@, o),
            !.state = IF @ \in {"new", "active"} THEN "plate_observation" ELSE @]

\* fused_plate() as written but for sessions that are on their way out
FusedPlateMutant(s) ==
  IF s.state \in {"lost", "finalized"} THEN NoFusion ELSE Fuse(s.obs)

\* the value of fused_plate()
FusedPlate(s) == Fuse(s.obs)

\* fused_plate() is also what moves a session to CONFIRMED
AfterFusedPlate(s) ==
  IF FusedPlate(s) # NoFusion /\ s.state \notin {"lost", "finalized"}
  THEN [s EXCEPT !.state = "confirmed"] ELSE s

ShouldSkipAnpr(s) == s.published >= SkipAbove

ShouldPublish(s, confidence) == confidence >= s.published + Margin

RecordPublished(s, fused) ==
  [s EXCEPT !.published = IF fused.confidence > @ THEN fused.confidence ELSE @,
            !.announced = fused.text]

ShouldClassify(s) == ~s.attempted /\ s.frames >= MinFrames /\ s.image # NoImage

\* mark_classification_attempted and record_classification, the classifiers
\* having found a label or none
Classify(s, found) ==
  [s EXCEPT !.attempted = TRUE,
            !.labelled = @ \/ found,
            !.state = IF found THEN "classification" ELSE @]

\* one frame of grace too many
IsFinalizableMutant(s) == s.missing > Grace

IsFinalizable(s) == s.missing >= Grace

\* what mark_seen does to a session whose id is not in the frame
MarkMissing(s) == [s EXCEPT !.missing = @ + 1, !.state = "lost"]

\* and to one whose id is: found again within the grace period
MarkSeen(s) ==
  [s EXCEPT !.missing = 0,
            !.state = IF @ # "lost" THEN @
                      ELSE IF FusedPlate(s) # NoFusion THEN "confirmed" ELSE "active"]

\* finalize(): the VehicleEvent this session becomes
Finalize(s) ==
  LET f == [s EXCEPT !.state = "finalized"]
      fused == FusedPlate(f)
  IN [ n |-> f.n, id |-> f.id, who |-> f.who, image |-> f.image, plate |-> fused.text,
       confidence |-> IF fused = NoFusion THEN 0 ELSE fused.confidence,
       announced |-> f.announced, published |-> f.published ]
=============================================================================
