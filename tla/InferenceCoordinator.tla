------------------------- MODULE InferenceCoordinator -------------------------
(***************************************************************************)
(* The main loop of the inference service (services/inference/main.py):    *)
(* it polls the catalogue, starts a CameraWorker thread for a camera that  *)
(* has appeared and stops the one of a camera that has gone, waiting five  *)
(* seconds for it to end.                                                  *)
(*                                                                         *)
(* The threads share the two registries. A worker is what it does to them: *)
(* CameraWorker has the rest, for one thread that is alone on its camera.  *)
(* Sessions are numbered in the order in which they are opened.            *)
(***************************************************************************)
EXTENDS Naturals, FiniteSets, Sequences

CONSTANTS
  Cameras,
  MaxSessions, \* bound on sessions opened
  MaxEdits,    \* bound on changes of the catalogue
  MaxFaults,   \* bound on exceptions
  NoThread

ASSUME CoordinatorAssumptions ==
  /\ {MaxSessions, MaxEdits, MaxFaults} \subseteq Nat
  /\ NoThread \notin Nat

VARIABLES
  listed,    \* cameras the catalogue lists as live
  edits,     \* changes of the catalogue
  coord,     \* the main loop: where it is and what it has still to do
  workers,   \* workers: camera_id -> thread
  stopAll,   \* global_stop
  thread,    \* the threads started, in order
  open,      \* TrackSessionRegistry: the sessions of each camera
  sessionOf, \* the camera of each session
  published, \* VehicleEvents of each session
  faults     \* exceptions

vars == <<listed, edits, coord, workers, stopAll, thread, open, sessionOf, published, faults>>
registry == <<open, sessionOf, published>>

Threads == DOMAIN thread
Sessions == DOMAIN sessionOf
Alive(w) == thread[w].pc # "ended"
OnCamera(c) == {w \in Threads : thread[w].camera = c}

\* The main loop asks the catalogue, stops and joins what has gone, starts what
\* is new, and joins everything when it is told to stop. A thread is at the top
\* of its loop, inside a frame, finalizing the sessions it holds (one by one as
\* they are lost, or after it has taken them all) or ended; last is its finally.
TypeOK ==
  /\ listed \subseteq Cameras
  /\ edits \in 0..MaxEdits
  /\ coord \in [pc : {"poll", "remove", "join", "shutdown", "exited"},
                removed : SUBSET Cameras, added : SUBSET Cameras, joining : SUBSET Threads]
  /\ workers \in [Cameras -> Threads \cup {NoThread}]
  /\ stopAll \in BOOLEAN
  /\ thread \in Seq([camera : Cameras, stop : BOOLEAN, last : BOOLEAN, raised : BOOLEAN,
                     abandoned : BOOLEAN, hold : SUBSET Sessions,
                     pc : {"top", "frame", "lost", "popped", "ended"}])
  /\ sessionOf \in Seq(Cameras) /\ Len(sessionOf) <= MaxSessions
  /\ published \in Seq(Nat) /\ DOMAIN published = Sessions
  /\ open \in [Cameras -> SUBSET Sessions]
  /\ faults \in 0..MaxFaults

\* the service before its first poll
Fresh ==
  /\ coord = [pc |-> "poll", removed |-> {}, added |-> {}, joining |-> {}]
  /\ workers = [c \in Cameras |-> NoThread]
  /\ stopAll = FALSE
  /\ thread = <<>>
  /\ open = [c \in Cameras |-> {}]
  /\ sessionOf = <<>>
  /\ published = <<>>
  /\ faults = 0

Init == Fresh /\ listed \subseteq Cameras /\ edits = 0

-----------------------------------------------------------------------------
(* The main loop *)

Watched == {c \in Cameras : workers[c] # NoThread}

Reconcile(active) ==
  coord' = [pc |-> "remove", removed |-> Watched \ active, added |-> active \ Watched, joining |-> {}]

\* the cameras that fetch_active_camera_ids returns
Polled ==
  /\ coord.pc = "poll"
  /\ ~stopAll
  /\ Reconcile(listed)
  /\ UNCHANGED <<listed, edits, workers, stopAll, thread, faults, registry>>

\* the catalogue gave no answer: the workers stay as they are
PollFails ==
  /\ coord.pc = "poll"
  /\ ~stopAll
  /\ faults < MaxFaults
  /\ faults' = faults + 1
  /\ Reconcile(Watched)
  /\ UNCHANGED <<listed, edits, workers, stopAll, thread, registry>>

Stopped(ws) == [w \in Threads |-> [thread[w] EXCEPT !.stop = @ \/ w \in ws]]

\* A bug: the entry is deleted without a join.
RemoveMutant(c) ==
  /\ coord.pc = "remove"
  /\ c \in coord.removed
  /\ thread' = Stopped({workers[c]})
  /\ coord' = [coord EXCEPT !.removed = @ \ {c}]
  /\ workers' = [workers EXCEPT ![c] = NoThread]
  /\ UNCHANGED <<listed, edits, stopAll, faults, registry>>

\* CameraWorker.stop of the next camera that has gone
Remove(c) ==
  /\ coord.pc = "remove"
  /\ c \in coord.removed
  /\ thread' = Stopped({workers[c]})
  /\ coord' = [coord EXCEPT !.pc = "join", !.removed = @ \ {c}, !.joining = {workers[c]}]
  /\ UNCHANGED <<listed, edits, workers, stopAll, faults, registry>>

\* join(timeout=5.0) returns when the thread has ended, or five seconds later
Joins(w) ==
  /\ w \in coord.joining
  /\ thread' = [thread EXCEPT ![w].abandoned = Alive(w)]

\* A bug: the entry of a camera that has gone is kept.
JoinRemovedMutant(w) ==
  /\ coord.pc = "join"
  /\ Joins(w)
  /\ coord' = [coord EXCEPT !.pc = "remove", !.joining = {}]
  /\ UNCHANGED <<listed, edits, workers, stopAll, faults, registry>>

\* and the entry is deleted in both cases
JoinRemoved(w) ==
  /\ coord.pc = "join"
  /\ Joins(w)
  /\ coord' = [coord EXCEPT !.pc = "remove", !.joining = {}]
  /\ workers' = [workers EXCEPT ![thread[w].camera] = NoThread]
  /\ UNCHANGED <<listed, edits, stopAll, faults, registry>>

NewThread(c) == [camera |-> c, stop |-> FALSE, last |-> FALSE, raised |-> FALSE,
                 abandoned |-> FALSE, hold |-> {}, pc |-> "top"]

Start(c) ==
  /\ coord.pc = "remove"
  /\ coord.removed = {}
  /\ c \in coord.added
  /\ thread' = Append(thread, NewThread(c))
  /\ workers' = [workers EXCEPT ![c] = Len(thread) + 1]
  /\ coord' = [coord EXCEPT !.added = @ \ {c}]
  /\ UNCHANGED <<listed, edits, stopAll, faults, registry>>

\* global_stop.wait: until the next poll
Reconciled ==
  /\ coord.pc = "remove"
  /\ coord.removed = {}
  /\ coord.added = {}
  /\ coord' = [coord EXCEPT !.pc = "poll"]
  /\ UNCHANGED <<listed, edits, workers, stopAll, thread, faults, registry>>

\* the loop has ended: every worker is told to stop before the first is joined
StopWorkers ==
  /\ coord.pc = "poll"
  /\ stopAll
  /\ \E ws \in {{workers[c] : c \in Watched}} :
       /\ thread' = Stopped(ws)
       /\ coord' = [coord EXCEPT !.pc = "shutdown", !.joining = ws]
  /\ UNCHANGED <<listed, edits, workers, stopAll, faults, registry>>

JoinLast(w) ==
  /\ coord.pc = "shutdown"
  /\ Joins(w)
  /\ coord' = [coord EXCEPT !.joining = @ \ {w}]
  /\ UNCHANGED <<listed, edits, workers, stopAll, faults, registry>>

\* the process ends, and the daemon threads that are left with it
Exit ==
  /\ coord.pc = "shutdown"
  /\ coord.joining = {}
  /\ coord' = [coord EXCEPT !.pc = "exited"]
  /\ UNCHANGED <<listed, edits, workers, stopAll, thread, faults, registry>>

MainLoop ==
  \/ Polled \/ PollFails \/ Reconciled \/ StopWorkers \/ Exit
  \/ \E c \in Cameras : Remove(c) \/ Start(c)
  \/ \E w \in Threads : JoinRemoved(w) \/ JoinLast(w)

-----------------------------------------------------------------------------
(* A worker thread, as far as it shares something with another *)

RunsAt(w, pc) == coord.pc # "exited" /\ thread[w].pc = pc
Stopping(w) == stopAll \/ thread[w].stop
coordinator == <<listed, edits, coord, workers, stopAll>>

\* A bug: the sessions are returned, and stay in the registry.
PopAllMutant(w, last, raised) ==
  /\ thread' = [thread EXCEPT ![w].hold = open[thread[w].camera], ![w].last = last,
                              ![w].raised = raised, ![w].pc = "popped"]
  /\ UNCHANGED <<open, sessionOf, published>>

\* pop_all_camera_sessions takes every session of the camera out of the registry
PopAll(w, last, raised) ==
  LET c == thread[w].camera
  IN  /\ thread' = [thread EXCEPT ![w].hold = open[c], ![w].last = last, ![w].raised = raised,
                                  ![w].pc = "popped"]
      /\ open' = [open EXCEPT ![c] = {}]
      /\ UNCHANGED <<sessionOf, published>>

\* the loop ends, and its finally
Leave(w) ==
  /\ RunsAt(w, "top")
  /\ Stopping(w)
  /\ PopAll(w, TRUE, FALSE)
  /\ UNCHANGED <<coordinator, faults>>

\* _reset_track_state: the source has disconnected, or the scene has changed
Reset(w) ==
  /\ RunsAt(w, "top")
  /\ ~Stopping(w)
  /\ PopAll(w, FALSE, FALSE)
  /\ UNCHANGED <<coordinator, faults>>

\* _process_frame: get_or_create of what is seen, one new session or none
Frame(w) ==
  /\ RunsAt(w, "top")
  /\ ~Stopping(w)
  /\ thread' = [thread EXCEPT ![w].pc = "frame"]
  /\ \/ /\ Len(sessionOf) < MaxSessions
        /\ sessionOf' = Append(sessionOf, thread[w].camera)
        /\ published' = Append(published, 0)
        /\ open' = [open EXCEPT ![thread[w].camera] = @ \cup {Len(sessionOf) + 1}]
     \/ UNCHANGED registry
  /\ UNCHANGED <<coordinator, faults>>

\* mark_seen returns the sessions that have been missing for too long
MarkSeen(w) ==
  /\ RunsAt(w, "frame")
  /\ \E lost \in SUBSET open[thread[w].camera] :
       thread' = [thread EXCEPT ![w].hold = lost, ![w].pc = "lost"]
  /\ UNCHANGED <<coordinator, registry, faults>>

\* The next of them is finalized. A lost one is popped first, and finalized
\* whether or not the registry still had it.
Finalize(w, s) ==
  /\ \/ RunsAt(w, "lost") /\ open' = [open EXCEPT ![thread[w].camera] = @ \ {s}]
     \/ RunsAt(w, "popped") /\ UNCHANGED open
  /\ s \in thread[w].hold
  /\ published' = [published EXCEPT ![s] = @ + 1]
  /\ thread' = [thread EXCEPT ![w].hold = @ \ {s}]
  /\ UNCHANGED <<coordinator, sessionOf, faults>>

\* all are finalized: the next turn of the loop, or the end of the thread
Finalized(w) ==
  /\ RunsAt(w, "lost") \/ RunsAt(w, "popped")
  /\ thread[w].hold = {}
  /\ thread' = [thread EXCEPT ![w].pc = IF thread[w].last THEN "ended" ELSE "top"]
  /\ UNCHANGED <<coordinator, registry, faults>>

\* An exception that run does not catch, in the back-off, in the detector, or
\* in mark_seen when another thread changes the dictionary: only the finally runs.
Raises(w) ==
  /\ RunsAt(w, "top") \/ RunsAt(w, "frame")
  /\ faults < MaxFaults
  /\ faults' = faults + 1
  /\ PopAll(w, TRUE, TRUE)
  /\ UNCHANGED coordinator

Worker(w) ==
  \/ Leave(w) \/ Reset(w) \/ Frame(w) \/ MarkSeen(w) \/ Finalized(w) \/ Raises(w)
  \/ \E s \in thread[w].hold : Finalize(w, s)

-----------------------------------------------------------------------------
(* The catalogue and the operator *)

EditCatalogue(c) ==
  /\ edits < MaxEdits
  /\ edits' = edits + 1
  /\ listed' = IF c \in listed THEN listed \ {c} ELSE listed \cup {c}
  /\ UNCHANGED <<coord, workers, stopAll, thread, registry, faults>>

\* SIGTERM or SIGINT
Signal ==
  /\ ~stopAll
  /\ stopAll' = TRUE
  /\ UNCHANGED <<listed, edits, coord, workers, thread, registry, faults>>

Next ==
  \/ MainLoop
  \/ \E w \in Threads : Worker(w)
  \/ \E c \in Cameras : EditCatalogue(c)
  \/ Signal

\* The main thread goes on: every wait of its loop has a timeout. Nothing is
\* asked of the workers, which a camera may block for as long as it likes.
Fairness == WF_vars(MainLoop)

Spec == Init /\ [][Next]_vars
FairSpec == Spec /\ Fairness

-----------------------------------------------------------------------------
(* Properties *)

\* Two threads are on one camera only after a join has given up on one of them,
\* and the service ends with none but such threads running.
AloneUnlessAbandoned ==
  /\ \A c \in Cameras : \A v, w \in OnCamera(c) :
       v # w /\ Alive(v) /\ Alive(w) => thread[v].abandoned \/ thread[w].abandoned
  /\ coord.pc = "exited" => \A w \in Threads : Alive(w) => thread[w].abandoned

\* On a camera where no join has given up, a session is published once at most,
\* and every session has been published once its threads have ended, across the
\* resets, the exceptions and the restarts of its workers.
SessionsPublishedOnce ==
  \A s \in Sessions :
    LET ws == OnCamera(sessionOf[s])
    IN  (\A w \in ws : ~thread[w].abandoned)
          => /\ published[s] <= 1
             /\ (\A w \in ws : ~Alive(w)) => published[s] = 1

\* A camera that stays in the catalogue ends up with a worker that nobody has
\* told to stop and that runs, unless it has raised: the loop does not replace
\* a thread that died, and never leaves a camera with the one it has stopped.
ListedIsWatched ==
  \A c \in Cameras :
    <>[](c \in listed /\ ~stopAll)
      => <>[](/\ workers[c] # NoThread
              /\ ~thread[workers[c]].stop
              /\ Alive(workers[c]) \/ thread[workers[c]].raised)
=============================================================================
