---------------------------- MODULE CameraWorker ----------------------------
(***************************************************************************)
(* One camera's worker thread (services/inference/pipeline.py): connect,   *)
(* read, detect, track, observe, publish, with the tracker, the sessions   *)
(* and the evidence files of that camera.                                  *)
(*                                                                         *)
(* The thread is alone with this state, so one iteration of its loop is    *)
(* one action.  What the camera shows, whether a read or a connection      *)
(* succeeds, what OCR and the classifiers find and where a stage raises    *)
(* are chosen freely.  A publication that Redis refuses is logged and      *)
(* dropped (event_publisher.py) and changes nothing here.                  *)
(***************************************************************************)
EXTENDS TrackSession, Functions

CONSTANTS
  Vehicles,     \* what passes in front of the camera
  Blank,        \* an object without a vehicle crop: a person, an empty crop
  NoRead,       \* a vehicle crop without a plate read
  Outcomes,     \* what a frame can yield for an object: a look (Blank, NoRead
                \* or a plate read), whether the crop is the best so far, and
                \* whether the classifiers would find a label
  MaxFailures,  \* MAX_CONSECUTIVE_READ_FAILURES
  Memory,       \* frames after which the tracker forgets a track it lost
  MaxSessions   \* bound: sessions opened in a behaviour

ASSUME WorkerAssumption ==
  /\ MaxFailures \in Nat \ {0}
  /\ Memory \in Nat
  /\ MaxSessions \in Nat
  /\ IsFiniteSet(Vehicles)
  /\ NoImage \notin Vehicles
  /\ \A out \in Outcomes : out.better \in BOOLEAN /\ out.found \in BOOLEAN

\* The reads a frame can yield; the quality gate and the least confidence of
\* anpr.py let none through that weighs nothing.
PlateReads == {out.look : out \in Outcomes} \ {Blank, NoRead}

ASSUME ReadsAssumption == \A o \in PlateReads : IsObservation(o) /\ o.weight > 0

VARIABLES
  stop,      \* global_stop or local_stop is set
  thread,    \* whether the thread runs
  link,      \* whether the capture is open
  waiting,   \* whether the back-off still runs
  failures,  \* _consecutive_failures
  tracker,   \* track id |-> the vehicle it follows, frames it has been lost
  nextId,    \* the id the tracker gives next
  sessions,  \* track id |-> session
  opened,    \* how many sessions were ever opened
  events,    \* the VehicleEvents published, in order
  files      \* track id |-> what the day's events/track{id}_vehicle.jpg shows

vars == <<stop, thread, link, waiting, failures, tracker, nextId, sessions, opened, events, files>>

None == [id \in {} |-> NoImage]  \* an empty map

Session ==
  [ id : Nat \ {0}, n : Nat \ {0}, state : Lifecycle, missing : Nat, frames : 0..MinFrames,
    obs : Seq(PlateReads), image : Vehicles \cup {NoImage}, attempted : BOOLEAN,
    labelled : BOOLEAN, published : Nat, announced : Seq(Alphabet) \cup {NoPlate},
    who : SUBSET Vehicles ]

VehicleEvent ==
  [ id : Nat \ {0}, n : Nat \ {0}, who : SUBSET Vehicles, image : Vehicles \cup {NoImage},
    plate : Seq(Alphabet) \cup {NoPlate}, confidence : Int,
    announced : Seq(Alphabet) \cup {NoPlate}, published : Nat ]

TypeOK ==
  /\ stop \in BOOLEAN
  /\ thread \in {"running", "stopped"}
  /\ link \in {"down", "open"}
  /\ waiting \in BOOLEAN
  /\ failures \in 0..MaxFailures
  /\ nextId \in Nat \ {0}
  /\ tracker \in [DOMAIN tracker -> [vehicle : Vehicles, lost : 0..Memory]]
  /\ sessions \in [DOMAIN sessions -> Session]
  /\ \A id \in DOMAIN sessions : Len(sessions[id].obs) <= MaxObservations
  /\ DOMAIN tracker \cup DOMAIN sessions \subseteq 1..(nextId - 1)
  /\ opened \in 0..MaxSessions
  /\ events \in Seq(VehicleEvent)
  /\ files \in [DOMAIN files -> Vehicles]

Init ==
  /\ stop = FALSE
  /\ thread = "running"
  /\ link = "down"
  /\ waiting = FALSE
  /\ failures = 0
  /\ tracker = None
  /\ nextId = 1
  /\ sessions = None
  /\ opened = 0
  /\ events = <<>>
  /\ files = None

-----------------------------------------------------------------------------
(* One tracked object of one frame *)

TryAnpr(s, look) ==
  IF look = NoRead \/ ShouldSkipAnpr(s) THEN s
  ELSE LET read == RecordPlate(s, look)
           fused == FusedPlate(read)
           after == AfterFusedPlate(read)
       IN IF fused # NoFusion /\ ShouldPublish(after, fused.confidence)
          THEN RecordPublished(after, fused)
          ELSE after

TryClassification(s, found) == IF ShouldClassify(s) THEN Classify(s, found) ELSE s

ProcessObject(s, v, out) ==
  LET seen == RecordDetection(s, v)
  IN IF out.look = Blank THEN seen
     ELSE TryClassification(TryAnpr(ConsiderBestVehicle(seen, v, out.better), out.look), out.found)

-----------------------------------------------------------------------------
(* The tracker, the sessions and what they became, as one value, because an *)
(* iteration may reset, process and finalize in turn                         *)

Current ==
  [ tracker |-> tracker, nextId |-> nextId, sessions |-> sessions, opened |-> opened,
    events |-> events, files |-> files ]

Become(next) == \E w \in {next} :
  /\ tracker' = w.tracker
  /\ nextId' = w.nextId
  /\ sessions' = w.sessions
  /\ opened' = w.opened
  /\ events' = w.events
  /\ files' = w.files

\* the ids I of sessions in table, in the order in which they were opened
InOrder(table, I) ==
  [k \in 1..Cardinality(I) |->
    CHOOSE i \in I : Cardinality({j \in I : table[j].n <= table[i].n}) = k]

\* the VehicleEvents they become
Published(table, I) == [k \in 1..Cardinality(I) |-> Finalize(table[InOrder(table, I)[k]])]

\* events are published and the sessions are left where they are
FinalizedMutant(w, I) == [w EXCEPT !.events = @ \o Published(w.sessions, I)]

\* pop and _finalize_track for the sessions of I: save evidence, publish
Finalized(w, I) ==
  LET saved == {i \in I : w.sessions[i].image # NoImage}
  IN [w EXCEPT
        !.sessions = [i \in DOMAIN w.sessions \ I |-> w.sessions[i]],
        !.events = @ \o Published(w.sessions, I),
        !.files = [i \in DOMAIN w.files \cup saved |->
                    IF i \in saved THEN w.sessions[i].image ELSE w.files[i]]]

\* the tracker starts afresh, the sessions of the camera stay
ResetTrackStateMutant(w) == [w EXCEPT !.tracker = None, !.nextId = 1]

\* _reset_track_state: a new tracker, which numbers tracks from 1 again, and
\* every session in flight finalized as it is
ResetTrackState(w) ==
  Finalized([w EXCEPT !.tracker = None, !.nextId = 1], DOMAIN w.sessions)

Untracked(w, seen) == {v \in seen : \A id \in DOMAIN w.tracker : w.tracker[id].vehicle # v}

\* TrackerRegistry.get(...).update: a seen vehicle keeps its id or gets the
\* next one, a track lost for more than Memory frames is forgotten
TrackerUpdate(w, seen, fresh) ==
  LET known == {id \in DOMAIN w.tracker : w.tracker[id].vehicle \in seen}
      kept == {id \in DOMAIN w.tracker : id \in known \/ w.tracker[id].lost < Memory}
      Lost(id) == IF id \in known THEN 0 ELSE w.tracker[id].lost + 1
  IN [w EXCEPT
        !.tracker = [id \in kept \cup DOMAIN fresh |->
                      IF id \in DOMAIN fresh THEN [vehicle |-> fresh[id], lost |-> 0]
                      ELSE [vehicle |-> w.tracker[id].vehicle, lost |-> Lost(id)]],
        !.nextId = @ + Cardinality(Untracked(w, seen))]

\* the ids the tracker can give to the vehicles it does not follow yet
FreshIds(w, seen) ==
  Bijection(w.nextId..(w.nextId + Cardinality(Untracked(w, seen)) - 1), Untracked(w, seen))

\* get_or_create and the per-object work, for the objects with the ids of outs
ProcessObjects(w, outs) ==
  LET new == DOMAIN outs \ DOMAIN w.sessions
      Opened(id) == NewSession(id, w.opened + Cardinality({i \in new : i <= id}))
      Found(id) == IF id \in new THEN Opened(id) ELSE w.sessions[id]
  IN [w EXCEPT
        !.sessions = [id \in DOMAIN w.sessions \cup DOMAIN outs |->
                       IF id \in DOMAIN outs
                       THEN ProcessObject(Found(id), w.tracker[id].vehicle, outs[id])
                       ELSE w.sessions[id]],
        !.opened = @ + Cardinality(new)]

\* mark_seen, and the finalization of the sessions it returns
MarkAndFinalize(w, ids) ==
  LET marked == [id \in DOMAIN w.sessions |->
                  IF id \in ids THEN MarkSeen(w.sessions[id]) ELSE MarkMissing(w.sessions[id])]
  IN Finalized([w EXCEPT !.sessions = marked], {id \in DOMAIN marked : IsFinalizable(marked[id])})

-----------------------------------------------------------------------------
(* The loop *)

AtLoopTop == thread = "running" /\ ~stop

TryConnect ==
  /\ AtLoopTop
  /\ link = "down"
  /\ ~waiting
  /\ \/ link' = "open" /\ failures' = 0 /\ UNCHANGED waiting
     \/ waiting' = TRUE /\ UNCHANGED <<link, failures>>
  /\ UNCHANGED <<stop, thread, tracker, nextId, sessions, opened, events, files>>

BackoffElapses ==
  /\ waiting
  /\ waiting' = FALSE
  /\ UNCHANGED <<stop, thread, link, failures, tracker, nextId, sessions, opened, events, files>>

\* the capture is closed and the sessions wait for the next connection
ReadFailsMutant ==
  /\ AtLoopTop
  /\ link = "open"
  /\ failures' = failures + 1
  /\ IF failures' >= MaxFailures
     THEN link' = "down" /\ waiting' = TRUE
     ELSE UNCHANGED <<link, waiting>>
  /\ UNCHANGED <<stop, thread, tracker, nextId, sessions, opened, events, files>>

\* _on_read_failure; the last tolerated failure closes the capture, and the
\* loop resets the track state and schedules a reconnect
ReadFails ==
  /\ AtLoopTop
  /\ link = "open"
  /\ failures' = failures + 1
  /\ IF failures' >= MaxFailures
     THEN link' = "down" /\ waiting' = TRUE /\ Become(ResetTrackState(Current))
     ELSE UNCHANGED <<link, waiting, tracker, nextId, sessions, opened, events, files>>
  /\ UNCHANGED <<stop, thread>>

\* A frame is read, after a scene cut or not, up to the tracker's answer: the
\* vehicles it reports, or none because its update raised and was caught.
\* Then(w, ids) is the rest of the iteration.  (\E x \in {e} names the value e.)
ReadFrame(Then(_, _)) ==
  /\ AtLoopTop
  /\ link = "open"
  /\ failures' = 0
  /\ \E w \in {Current, ResetTrackState(Current)}, seen \in SUBSET Vehicles :
       \/ Then(w, {})
       \/ \E fresh \in FreshIds(w, seen) :
            \E t \in {TrackerUpdate(w, seen, fresh)} :
              Then(t, {id \in DOMAIN t.tracker : t.tracker[id].vehicle \in seen})

\* _process_frame to its end
ProcessFrame ==
  /\ ReadFrame(LAMBDA w, ids : \E outs \in [ids -> Outcomes] :
       \E p \in {ProcessObjects(w, outs)} :
         p.opened <= MaxSessions /\ Become(MarkAndFinalize(p, ids)))
  /\ UNCHANGED <<stop, thread, link, waiting>>

\* the finally clause: close the capture, drop the tracker, finalize
WindUp(w) ==
  /\ thread' = "stopped"
  /\ link' = "down"
  /\ Become(ResetTrackState(w))

\* a stage raises for some object: those before it are processed, the others
\* and mark_seen are not, and the exception ends the thread
FrameRaises ==
  /\ ReadFrame(LAMBDA w, ids : \E before \in SUBSET ids : \E outs \in [before -> Outcomes] :
       \E p \in {ProcessObjects(w, outs)} : p.opened <= MaxSessions /\ WindUp(p))
  /\ UNCHANGED <<stop, waiting>>

\* the thread leaves as soon as it is told to
ExitMutant ==
  /\ thread = "running"
  /\ stop
  /\ thread' = "stopped"
  /\ link' = "down"
  /\ UNCHANGED <<stop, waiting, failures, tracker, nextId, sessions, opened, events, files>>

Exit ==
  /\ thread = "running"
  /\ stop
  /\ WindUp(Current)
  /\ UNCHANGED <<stop, waiting, failures>>

StopRequested ==
  /\ ~stop
  /\ stop' = TRUE
  /\ UNCHANGED <<thread, link, waiting, failures, tracker, nextId, sessions, opened, events, files>>

Loop == TryConnect \/ ReadFails \/ ProcessFrame \/ FrameRaises \/ Exit

Next == Loop \/ BackoffElapses \/ StopRequested

Spec == Init /\ [][Next]_vars

\* The thread is scheduled, a read of the capture returns (OpenCV's FFmpeg
\* backend gives up on a silent stream) and time passes. The first conjunct is
\* WF_vars(Loop) with ENABLED <<Loop>>_vars and <<Loop>>_vars written out.
CanIterate == thread = "running" /\ (stop \/ link = "open" \/ ~waiting)

Iterates == UNCHANGED stop /\ (waiting => waiting')

Fairness ==
  /\ <>[]CanIterate => []<><<Iterates>>_vars
  /\ WF_vars(BackoffElapses)

FairSpec == Spec /\ Fairness

-----------------------------------------------------------------------------
Open == {sessions[id] : id \in DOMAIN sessions}

Ended == {events[i] : i \in DOMAIN events}

\* No session, and no VehicleEvent, ever holds detections, images or plate
\* reads of two vehicles, across scene cuts, reconnects and reused track ids
\* (as long as the tracker itself does not confuse two vehicles).
OneVehiclePerSession ==
  \A s \in Open \cup Ended : Cardinality(s.who) <= 1 /\ (s.image # NoImage => s.who = {s.image})

\* Every session that was opened is either still open or was published in
\* exactly one VehicleEvent; none is dropped by a reset, an exception or a stop.
ExactlyOneEvent ==
  /\ {s.n : s \in Open \cup Ended} = 1..opened
  /\ Cardinality(Open) + Len(events) = opened

\* A track of which a plate was announced in a PlateEvent never becomes a
\* VehicleEvent without a plate, whatever the buffer dropped in between; and a
\* plate other than the one announced last is in it only if it is not sure enough
\* to have been announced.  (It may be less sure than what was announced.)
EventsFollowAnnouncements ==
  \A e \in Ended :
    /\ e.announced # NoPlate => e.plate # NoPlate
    /\ e.plate \notin {NoPlate, e.announced} => e.confidence < e.published + Margin

\* That the plate of the event is the one that was announced does not hold.
AnnouncedPlateIsKept == \A e \in Ended : e.announced # NoPlate => e.plate = e.announced

\* Between two iterations no session has been missing for the grace period,
\* and a thread that stopped left no session behind.
NothingLingers ==
  /\ \A s \in Open : s.missing < Grace
  /\ thread = "stopped" => Open = {}

\* A session that is lost is found again or finalized: it does not stay open
\* because the stream froze, broke or kept reconnecting.
LostTrackIsSettled ==
  \A n \in 1..MaxSessions :
    (\E s \in Open : s.n = n /\ s.missing > 0) ~> (\A s \in Open : s.n = n => s.missing = 0)

\* A worker told to stop ends with every session finalized.
StopFinalizes == stop ~> (thread = "stopped" /\ Open = {})

\* The evidence image a VehicleEvent names shows the vehicle of the event.
EvidenceShowsItsVehicle ==
  \A e \in Ended : e.image # NoImage => files[e.id] = e.image
=============================================================================
