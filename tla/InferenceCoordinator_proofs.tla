-------------------- MODULE InferenceCoordinator_proofs --------------------
(***************************************************************************)
(* Proofs about InferenceCoordinator, for any cameras and any number of    *)
(* threads, sessions, changes of the catalogue and exceptions.             *)
(***************************************************************************)
EXTENDS InferenceCoordinator, SequenceTheorems, TLAPS

\* The entry of a camera is a thread of it. While the loop reconciles, what is
\* to be removed has an entry and what is to be added has none; what it joins
\* is the entry of a camera.
EntryInv ==
  /\ \A c \in Watched : thread[workers[c]].camera = c
  /\ \A c \in coord.removed : c \in Watched
  /\ coord.pc \in {"remove", "join"} => \A c \in coord.added : c \notin Watched
  /\ coord.pc \in {"join", "shutdown"} => \A w \in coord.joining : workers[thread[w].camera] = w
  /\ coord.pc = "join" => \A w \in coord.joining : thread[w].camera \notin coord.removed

\* A thread that runs and is not abandoned is the entry of its camera; at the
\* end, it is still to be joined. A thread that is to be joined, or whose camera
\* may still be removed, has not been abandoned yet.
AloneInv ==
  /\ \A w \in Threads : Alive(w) /\ ~thread[w].abandoned => workers[thread[w].camera] = w
  /\ coord.pc \in {"shutdown", "exited"} =>
       \A w \in Threads : Alive(w) /\ ~thread[w].abandoned => w \in coord.joining
  /\ coord.pc = "exited" => coord.joining = {}
  /\ coord.pc \in {"poll", "remove", "join"} => \A c \in Watched : ~thread[workers[c]].abandoned
  /\ coord.pc \in {"shutdown", "join"} => \A w \in coord.joining : ~thread[w].abandoned

\* What is open on a camera, or held by a thread of it, is a session of it.
CameraInv ==
  /\ \A c \in Cameras : \A s \in open[c] : sessionOf[s] = c
  /\ \A w \in Threads : \A s \in thread[w].hold : sessionOf[s] = thread[w].camera

Sound(c) == \A w \in OnCamera(c) : ~thread[w].abandoned

\* On a camera where no join has given up, a session is open and unpublished,
\* held by one thread and unpublished, or published once.
SessionsOf(c) ==
  /\ \A s \in open[c] : published[s] = 0
  /\ \A w \in OnCamera(c) :
       /\ \A s \in thread[w].hold : published[s] = 0
       /\ thread[w].pc \notin {"lost", "popped"} => thread[w].hold = {}
       /\ thread[w].pc = "lost" => thread[w].hold \subseteq open[c]
       /\ thread[w].pc = "popped" => thread[w].hold \cap open[c] = {}
       /\ thread[w].last => thread[w].pc \in {"popped", "ended"}
       /\ thread[w].last /\ thread[w].pc = "popped" => open[c] = {}
  /\ (\A w \in OnCamera(c) : ~Alive(w)) => open[c] = {}
  /\ \A s \in Sessions : sessionOf[s] = c =>
       \/ published[s] = 1
       \/ s \in open[c]
       \/ \E w \in OnCamera(c) : s \in thread[w].hold

SessionInv == \A c \in Cameras : Sound(c) => SessionsOf(c)

IInv == TypeOK /\ EntryInv /\ AloneInv /\ CameraInv /\ SessionInv

-----------------------------------------------------------------------------
(* Types *)

ThreadT == [camera : Cameras, stop : BOOLEAN, last : BOOLEAN, raised : BOOLEAN,
            abandoned : BOOLEAN, hold : SUBSET Sessions,
            pc : {"top", "frame", "lost", "popped", "ended"}]

LEMMA SeqFacts ==
  ASSUME NEW S, NEW f \in Seq(S)
  PROVE  Len(f) \in Nat /\ DOMAIN f = 1..Len(f) /\ f \in [1..Len(f) -> S]
OBVIOUS

LEMMA SeqBuilt ==
  ASSUME NEW S, NEW n \in Nat, NEW f \in [1..n -> S]
  PROVE  f \in Seq(S)
OBVIOUS

\* The sequences of the state as functions.
LEMMA TypeFacts ==
  ASSUME TypeOK
  PROVE  /\ Len(thread) \in Nat /\ Threads = 1..Len(thread)
         /\ thread \in [Threads -> ThreadT]
         /\ Len(sessionOf) \in Nat /\ Sessions = 1..Len(sessionOf)
         /\ sessionOf \in [Sessions -> Cameras]
         /\ published \in [Sessions -> Nat]
<1>1. thread \in Seq(ThreadT)
  BY DEF TypeOK, ThreadT
<1>2. sessionOf \in Seq(Cameras) /\ published \in Seq(Nat) /\ DOMAIN published = Sessions
  BY DEF TypeOK
<1>3. Len(thread) \in Nat /\ Threads = 1..Len(thread) /\ thread \in [Threads -> ThreadT]
  BY <1>1, SeqFacts DEF Threads
<1>4. /\ Len(sessionOf) \in Nat /\ Sessions = 1..Len(sessionOf)
      /\ sessionOf \in [Sessions -> Cameras]
  BY <1>2, SeqFacts DEF Sessions
<1>5. published \in [Sessions -> Nat]
  BY <1>2, SeqFacts
<1> QED
  BY <1>3, <1>4, <1>5

\* The threads after a step that starts none and opens no session.
LEMMA ThreadsType ==
  ASSUME TypeOK, UNCHANGED sessionOf, thread' \in [Threads -> ThreadT]
  PROVE  /\ thread' \in Seq(ThreadT')
         /\ DOMAIN thread' = Threads
<1>1. ThreadT' = ThreadT
  BY DEF ThreadT, Sessions
<1>2. thread' \in Seq(ThreadT)
  BY TypeFacts, SeqBuilt
<1> QED
  BY <1>1, <1>2

-----------------------------------------------------------------------------
(* What the main loop and the workers leave alone *)

\* A step that leaves the registry and the place of every thread alone, and
\* abandons threads or starts one.
LEMMA SessionsUntouched ==
  ASSUME TypeOK, CameraInv, SessionInv, UNCHANGED registry,
         Threads \subseteq DOMAIN thread',
         \A w \in Threads : /\ thread'[w].camera = thread[w].camera
                            /\ thread'[w].hold = thread[w].hold
                            /\ thread'[w].pc = thread[w].pc
                            /\ thread'[w].last = thread[w].last
                            /\ thread[w].abandoned => thread'[w].abandoned,
         \A w \in DOMAIN thread' \ Threads :
           thread'[w].hold = {} /\ thread'[w].pc = "top" /\ ~thread'[w].last
  PROVE  CameraInv' /\ SessionInv'
<1>1. UNCHANGED <<open, sessionOf, published>> /\ Sessions' = Sessions
  BY DEF registry, Sessions
<1>2. CameraInv'
  BY <1>1 DEF CameraInv, Threads
<1>3. ASSUME NEW c \in Cameras, Sound(c)'
      PROVE  /\ Sound(c)
             /\ \A w \in OnCamera(c) : w \in OnCamera(c)'
  BY <1>3 DEF Sound, OnCamera, Threads
<1>4. SessionInv'
  BY <1>1, <1>3 DEF SessionInv, SessionsOf, OnCamera, Threads, Alive
<1> QED
  BY <1>2, <1>4

\* A step of one worker: no thread comes to life, none is started, joined or
\* abandoned.
LEMMA EntriesUntouched ==
  ASSUME TypeOK, EntryInv, AloneInv, UNCHANGED <<coord, workers>>,
         DOMAIN thread' = Threads,
         \A w \in Threads : /\ thread'[w].camera = thread[w].camera
                            /\ thread'[w].abandoned = thread[w].abandoned
                            /\ thread'[w].pc # "ended" => thread[w].pc # "ended"
  PROVE  EntryInv' /\ AloneInv'
<1>1. /\ \A c \in Watched : workers[c] \in Threads
      /\ coord.joining \subseteq Threads
  BY DEF TypeOK, Watched
<1>2. EntryInv'
  BY <1>1 DEF EntryInv, Watched
<1>3. AloneInv'
  BY <1>1 DEF AloneInv, Alive, Threads, Watched
<1> QED
  BY <1>2, <1>3

-----------------------------------------------------------------------------
(* The main loop *)

\* The watched cameras have threads for entries.
LEMMA EntryFacts ==
  ASSUME TypeOK
  PROVE  /\ Watched \subseteq Cameras
         /\ \A c \in Watched : workers[c] \in Threads
         /\ \A c \in Cameras \ Watched : workers[c] = NoThread
         /\ NoThread \notin Threads
         /\ coord.joining \subseteq Threads
<1>1. NoThread \notin Threads
  BY TypeFacts, CoordinatorAssumptions
<1> QED
  BY <1>1 DEF TypeOK, Watched

\* A step of the loop that touches no thread.
LEMMA LoopStep ==
  ASSUME IInv, UNCHANGED <<listed, edits, workers, stopAll, thread, registry>>,
         faults' \in 0..MaxFaults,
         coord' \in [pc : {"poll", "remove", "join", "shutdown", "exited"},
                     removed : SUBSET Cameras, added : SUBSET Cameras, joining : SUBSET Threads],
         EntryInv', AloneInv'
  PROVE  IInv'
<1>1. TypeOK'
  BY DEF IInv, TypeOK, registry, Threads, Sessions
<1>2. CameraInv' /\ SessionInv'
  BY SessionsUntouched DEF IInv, Threads
<1> QED
  BY <1>1, <1>2 DEF IInv

LEMMA ReconcileStep ==
  ASSUME IInv, NEW active \in SUBSET Cameras, coord.pc = "poll", Reconcile(active),
         UNCHANGED <<listed, edits, workers, stopAll, thread, registry>>, faults' \in 0..MaxFaults
  PROVE  IInv'
<1>1. Watched' = Watched
  BY DEF Watched
<1>2. /\ coord'.pc = "remove" /\ coord'.removed = Watched \ active
      /\ coord'.added = active \ Watched /\ coord'.joining = {}
      /\ coord' \in [pc : {"poll", "remove", "join", "shutdown", "exited"},
                     removed : SUBSET Cameras, added : SUBSET Cameras, joining : SUBSET Threads]
  BY EntryFacts DEF Reconcile, IInv
<1>3. EntryInv'
  BY <1>1, <1>2 DEF IInv, EntryInv
<1>4. AloneInv'
  BY <1>1, <1>2 DEF IInv, AloneInv, Threads, Alive
<1> QED
  BY <1>2, <1>3, <1>4, LoopStep

LEMMA PollStep ==
  ASSUME IInv, Polled \/ PollFails
  PROVE  IInv'
<1>1. CASE Polled
  <2>1. listed \in SUBSET Cameras /\ faults' \in 0..MaxFaults
    BY <1>1 DEF Polled, IInv, TypeOK
  <2> QED
    BY <1>1, <2>1, ReconcileStep DEF Polled
<1>2. CASE PollFails
  <2>1. Watched \in SUBSET Cameras /\ faults' \in 0..MaxFaults
    BY <1>2, EntryFacts, CoordinatorAssumptions DEF PollFails, IInv, TypeOK
  <2> QED
    BY <1>2, <2>1, ReconcileStep DEF PollFails
<1> QED
  BY <1>1, <1>2

\* The loop goes on to its next poll, or the service ends.
LEMMA RestStep ==
  ASSUME IInv, Reconciled \/ Exit
  PROVE  IInv'
<1> DEFINE CoordT == [pc : {"poll", "remove", "join", "shutdown", "exited"},
                      removed : SUBSET Cameras, added : SUBSET Cameras, joining : SUBSET Threads]
<1>1. /\ Watched' = Watched /\ coord \in CoordT
      /\ UNCHANGED <<listed, edits, workers, stopAll, thread, registry>>
      /\ faults' \in 0..MaxFaults
  BY DEF IInv, TypeOK, Watched, Reconciled, Exit
<1>2. /\ coord' \in CoordT
      /\ coord'.removed = coord.removed /\ coord'.added = coord.added
      /\ coord'.joining = coord.joining
      /\ \/ coord.pc = "remove" /\ coord'.pc = "poll"
         \/ coord.pc = "shutdown" /\ coord'.pc = "exited" /\ coord.joining = {}
  BY <1>1 DEF Reconciled, Exit
<1>3. EntryInv'
  BY <1>1, <1>2 DEF IInv, EntryInv
<1>4. AloneInv'
  BY <1>1, <1>2 DEF IInv, AloneInv, Threads, Alive
<1> QED
  BY <1>1, <1>2, <1>3, <1>4, LoopStep

\* What a stop leaves of a thread: everything but the flag.
LEMMA StoppedFacts ==
  ASSUME TypeOK, NEW ws, thread' = Stopped(ws)
  PROVE  /\ thread' \in [Threads -> ThreadT]
         /\ DOMAIN thread' = Threads
         /\ \A w \in Threads : /\ thread'[w].camera = thread[w].camera
                               /\ thread'[w].hold = thread[w].hold
                               /\ thread'[w].pc = thread[w].pc
                               /\ thread'[w].last = thread[w].last
                               /\ thread'[w].abandoned = thread[w].abandoned
<1>1. \A w \in Threads : thread[w] \in ThreadT
  BY TypeFacts
<1>2. \A w \in Threads : [thread[w] EXCEPT !.stop = @ \/ w \in ws] \in ThreadT
  BY <1>1 DEF ThreadT
<1> QED
  BY <1>1, <1>2 DEF Stopped, ThreadT

\* A step of the loop that keeps the threads and their sessions.
LEMMA ThreadsStep ==
  ASSUME IInv, UNCHANGED <<listed, edits, stopAll, faults, registry>>,
         thread' \in [Threads -> ThreadT],
         \A w \in Threads : /\ thread'[w].camera = thread[w].camera
                            /\ thread'[w].hold = thread[w].hold
                            /\ thread'[w].pc = thread[w].pc
                            /\ thread'[w].last = thread[w].last
                            /\ thread[w].abandoned => thread'[w].abandoned,
         coord' \in [pc : {"poll", "remove", "join", "shutdown", "exited"},
                     removed : SUBSET Cameras, added : SUBSET Cameras, joining : SUBSET Threads],
         workers' \in [Cameras -> Threads \cup {NoThread}],
         EntryInv', AloneInv'
  PROVE  IInv'
<1>1. UNCHANGED <<open, sessionOf, published>> /\ Sessions' = Sessions
  BY DEF registry, Sessions
<1>2. /\ thread' \in Seq(ThreadT') /\ Threads' = Threads
  BY <1>1, ThreadsType DEF IInv, Threads
<1>3. TypeOK'
  BY <1>1, <1>2 DEF IInv, TypeOK, ThreadT
<1>4. CameraInv' /\ SessionInv'
  BY <1>2, SessionsUntouched DEF IInv, Threads
<1> QED
  BY <1>3, <1>4 DEF IInv

LEMMA RemoveStep ==
  ASSUME IInv, NEW c \in Cameras, Remove(c)
  PROVE  IInv'
<1>1. /\ thread' \in [Threads -> ThreadT] /\ Threads' = Threads
      /\ \A w \in Threads : /\ thread'[w].camera = thread[w].camera
                            /\ thread'[w].hold = thread[w].hold
                            /\ thread'[w].pc = thread[w].pc
                            /\ thread'[w].last = thread[w].last
                            /\ thread'[w].abandoned = thread[w].abandoned
  BY StoppedFacts DEF IInv, Remove, Threads
<1>2. /\ c \in Watched /\ workers[c] \in Threads /\ thread[workers[c]].camera = c
      /\ Watched' = Watched /\ workers' = workers
      /\ UNCHANGED <<listed, edits, stopAll, faults, registry>>
  BY EntryFacts DEF IInv, EntryInv, Remove, Watched
<1>3. /\ coord.pc = "remove" /\ coord'.pc = "join"
      /\ coord'.removed = coord.removed \ {c} /\ coord'.added = coord.added
      /\ coord'.joining = {workers[c]}
      /\ coord' \in [pc : {"poll", "remove", "join", "shutdown", "exited"},
                     removed : SUBSET Cameras, added : SUBSET Cameras, joining : SUBSET Threads]
  BY <1>2 DEF IInv, TypeOK, Remove
<1>4. EntryInv'
  BY <1>1, <1>2, <1>3, EntryFacts DEF IInv, EntryInv
<1>5. AloneInv'
  BY <1>1, <1>2, <1>3, EntryFacts DEF IInv, AloneInv, Alive
<1>6. workers' \in [Cameras -> Threads \cup {NoThread}]
  BY <1>2 DEF IInv, TypeOK
<1> QED
  BY <1>1, <1>2, <1>3, <1>4, <1>5, <1>6, ThreadsStep

\* What a join leaves of the threads.
LEMMA JoinsFacts ==
  ASSUME TypeOK, NEW w \in Threads, Joins(w), ~thread[w].abandoned
  PROVE  /\ thread' \in [Threads -> ThreadT] /\ Threads' = Threads
         /\ thread'[w].abandoned = Alive(w)
         /\ \A v \in Threads : /\ thread'[v].camera = thread[v].camera
                               /\ thread'[v].hold = thread[v].hold
                               /\ thread'[v].pc = thread[v].pc
                               /\ thread'[v].last = thread[v].last
                               /\ v # w => thread'[v].abandoned = thread[v].abandoned
                               /\ thread[v].abandoned => thread'[v].abandoned
<1>1. thread \in [Threads -> ThreadT] /\ Alive(w) \in BOOLEAN
  BY TypeFacts DEF Alive
<1>2. thread' = [thread EXCEPT ![w].abandoned = Alive(w)]
  BY DEF Joins
<1> QED
  BY <1>1, <1>2 DEF ThreadT, Threads

LEMMA JoinRemovedStep ==
  ASSUME IInv, NEW w \in Threads, JoinRemoved(w)
  PROVE  IInv'
<1> DEFINE c == thread[w].camera
<1>1. /\ coord.pc = "join" /\ w \in coord.joining /\ c \in Cameras
      /\ workers[c] = w /\ c \notin coord.removed /\ ~thread[w].abandoned
  BY TypeFacts DEF IInv, EntryInv, AloneInv, JoinRemoved, Joins, ThreadT
<1>2. /\ thread' \in [Threads -> ThreadT] /\ Threads' = Threads
      /\ thread'[w].abandoned = Alive(w)
      /\ \A v \in Threads : /\ thread'[v].camera = thread[v].camera
                            /\ thread'[v].hold = thread[v].hold
                            /\ thread'[v].pc = thread[v].pc
                            /\ thread'[v].last = thread[v].last
                            /\ v # w => thread'[v].abandoned = thread[v].abandoned
                            /\ thread[v].abandoned => thread'[v].abandoned
  BY <1>1, JoinsFacts DEF IInv, JoinRemoved
<1>3. /\ workers' \in [Cameras -> Threads \cup {NoThread}]
      /\ workers'[c] = NoThread
      /\ \A d \in Cameras \ {c} : workers'[d] = workers[d]
      /\ Watched' = Watched \ {c}
      /\ UNCHANGED <<listed, edits, stopAll, faults, registry>>
  BY <1>1 DEF IInv, TypeOK, JoinRemoved, Watched
<1>4. /\ coord'.pc = "remove" /\ coord'.joining = {}
      /\ coord'.removed = coord.removed /\ coord'.added = coord.added
      /\ coord' \in [pc : {"poll", "remove", "join", "shutdown", "exited"},
                     removed : SUBSET Cameras, added : SUBSET Cameras, joining : SUBSET Threads]
  BY DEF IInv, TypeOK, JoinRemoved
<1> HIDE DEF c
<1>5. EntryInv'
  BY <1>1, <1>2, <1>3, <1>4, EntryFacts DEF IInv, EntryInv
<1>6. \A v \in Threads : Alive(v)' /\ ~thread'[v].abandoned => workers'[thread'[v].camera] = v
  <2> SUFFICES ASSUME NEW v \in Threads, Alive(v)', ~thread'[v].abandoned
               PROVE  workers'[thread'[v].camera] = v
    OBVIOUS
  <2>1. v # w /\ Alive(v) /\ ~thread[v].abandoned
    BY <1>2 DEF Alive
  <2>2. workers[thread[v].camera] = v /\ thread[v].camera \in Cameras
    BY <2>1, TypeFacts DEF IInv, AloneInv, ThreadT
  <2> QED
    BY <1>1, <1>2, <1>3, <2>1, <2>2
<1>7. \A d \in Watched' : ~thread'[workers'[d]].abandoned
  BY <1>1, <1>2, <1>3, EntryFacts DEF IInv, EntryInv, AloneInv
<1>8. AloneInv'
  BY <1>2, <1>4, <1>6, <1>7 DEF AloneInv
<1> QED
  BY <1>2, <1>3, <1>4, <1>5, <1>8, ThreadsStep

LEMMA JoinLastStep ==
  ASSUME IInv, NEW w \in Threads, JoinLast(w)
  PROVE  IInv'
<1>1. coord.pc = "shutdown" /\ w \in coord.joining /\ ~thread[w].abandoned
  BY DEF IInv, AloneInv, JoinLast, Joins
<1>2. /\ thread' \in [Threads -> ThreadT] /\ Threads' = Threads
      /\ thread'[w].abandoned = Alive(w)
      /\ \A v \in Threads : /\ thread'[v].camera = thread[v].camera
                            /\ thread'[v].hold = thread[v].hold
                            /\ thread'[v].pc = thread[v].pc
                            /\ thread'[v].last = thread[v].last
                            /\ v # w => thread'[v].abandoned = thread[v].abandoned
                            /\ thread[v].abandoned => thread'[v].abandoned
  BY <1>1, JoinsFacts DEF IInv, JoinLast
<1>3. /\ UNCHANGED <<listed, edits, workers, stopAll, faults, registry>>
      /\ Watched' = Watched
      /\ workers' \in [Cameras -> Threads \cup {NoThread}]
  BY DEF IInv, TypeOK, JoinLast, Watched
<1>4. /\ coord'.pc = "shutdown" /\ coord'.joining = coord.joining \ {w}
      /\ coord'.removed = coord.removed /\ coord'.added = coord.added
      /\ coord' \in [pc : {"poll", "remove", "join", "shutdown", "exited"},
                     removed : SUBSET Cameras, added : SUBSET Cameras, joining : SUBSET Threads]
  BY DEF IInv, TypeOK, JoinLast
<1>5. EntryInv'
  BY <1>1, <1>2, <1>3, <1>4, EntryFacts DEF IInv, EntryInv
<1>6. ASSUME NEW v \in Threads, Alive(v)', ~thread'[v].abandoned
      PROVE  workers'[thread'[v].camera] = v /\ v \in coord'.joining
  <2>1. v # w /\ Alive(v) /\ ~thread[v].abandoned
    BY <1>2, <1>6 DEF Alive
  <2>2. workers[thread[v].camera] = v /\ v \in coord.joining
    BY <1>1, <2>1 DEF IInv, AloneInv
  <2> QED
    BY <1>2, <1>3, <1>4, <2>1, <2>2
<1>7. \A v \in coord'.joining : ~thread'[v].abandoned
  BY <1>1, <1>2, <1>4, EntryFacts DEF IInv, AloneInv
<1>8. AloneInv'
  BY <1>2, <1>4, <1>6, <1>7 DEF AloneInv
<1> QED
  BY <1>2, <1>3, <1>4, <1>5, <1>8, ThreadsStep

LEMMA StopWorkersStep ==
  ASSUME IInv, StopWorkers
  PROVE  IInv'
<1> DEFINE ws == {workers[c] : c \in Watched}
<1>1. /\ thread' = Stopped(ws)
      /\ coord' = [coord EXCEPT !.pc = "shutdown", !.joining = ws]
      /\ coord.pc = "poll"
      /\ UNCHANGED <<listed, edits, workers, stopAll, faults, registry>>
  BY DEF StopWorkers
<1>2. /\ thread' \in [Threads -> ThreadT] /\ Threads' = Threads
      /\ \A w \in Threads : /\ thread'[w].camera = thread[w].camera
                            /\ thread'[w].hold = thread[w].hold
                            /\ thread'[w].pc = thread[w].pc
                            /\ thread'[w].last = thread[w].last
                            /\ thread'[w].abandoned = thread[w].abandoned
  BY <1>1, StoppedFacts DEF IInv, Threads
<1>3. /\ ws \subseteq Threads
      /\ \A w \in ws : workers[thread[w].camera] = w /\ ~thread[w].abandoned
      /\ Watched' = Watched
  BY <1>1, EntryFacts DEF IInv, EntryInv, AloneInv, Watched
<1>4. /\ coord'.pc = "shutdown" /\ coord'.joining = ws
      /\ coord'.removed = coord.removed /\ coord'.added = coord.added
      /\ coord' \in [pc : {"poll", "remove", "join", "shutdown", "exited"},
                     removed : SUBSET Cameras, added : SUBSET Cameras, joining : SUBSET Threads]
  BY <1>1, <1>3 DEF IInv, TypeOK
<1> HIDE DEF ws
<1>5. EntryInv'
  BY <1>1, <1>2, <1>3, <1>4, EntryFacts DEF IInv, EntryInv
<1>6. \A w \in Threads : Alive(w) /\ ~thread[w].abandoned => w \in ws
  <2> SUFFICES ASSUME NEW w \in Threads, Alive(w), ~thread[w].abandoned
               PROVE  w \in ws
    OBVIOUS
  <2>1. workers[thread[w].camera] = w /\ thread[w].camera \in Cameras
    BY TypeFacts DEF IInv, AloneInv, ThreadT
  <2> QED
    BY <2>1, EntryFacts DEF IInv, Watched, ws
<1>7. AloneInv'
  BY <1>1, <1>2, <1>3, <1>4, <1>6 DEF IInv, AloneInv, Alive
<1>8. workers' \in [Cameras -> Threads \cup {NoThread}]
  BY <1>1 DEF IInv, TypeOK
<1> QED
  BY <1>1, <1>2, <1>4, <1>5, <1>7, <1>8, ThreadsStep

LEMMA StartStep ==
  ASSUME IInv, NEW c \in Cameras, Start(c)
  PROVE  IInv'
<1> DEFINE n == Len(thread) + 1
<1>1. /\ thread \in Seq(ThreadT) /\ Len(thread) \in Nat /\ Threads = 1..Len(thread)
  BY TypeFacts DEF IInv, TypeOK, ThreadT
<1>2. UNCHANGED <<listed, edits, stopAll, faults, registry, open, sessionOf, published>> /\ ThreadT' = ThreadT
  BY DEF Start, registry, ThreadT, Sessions
<1>3. NewThread(c) \in ThreadT
  BY DEF NewThread, ThreadT
<1>4. /\ thread' \in Seq(ThreadT)
      /\ Threads' = Threads \cup {n} /\ n \notin Threads
      /\ \A w \in Threads : thread'[w] = thread[w]
      /\ thread'[n] = NewThread(c)
  <2>1. /\ Append(thread, NewThread(c)) \in Seq(ThreadT)
        /\ Len(Append(thread, NewThread(c))) = Len(thread) + 1
        /\ \A i \in 1..Len(thread) : Append(thread, NewThread(c))[i] = thread[i]
        /\ Append(thread, NewThread(c))[Len(thread) + 1] = NewThread(c)
    BY <1>1, <1>3, AppendProperties
  <2>2. DOMAIN thread' = 1..(Len(thread) + 1)
    BY <2>1, SeqFacts DEF Start
  <2> QED
    BY <1>1, <2>1, <2>2 DEF Start, Threads
<1>5. /\ workers' = [workers EXCEPT ![c] = n]
      /\ coord' = [coord EXCEPT !.added = @ \ {c}]
      /\ coord.pc = "remove" /\ coord.removed = {} /\ c \in coord.added
  BY DEF Start
<1> HIDE DEF n
<1>6. /\ workers'[c] = n /\ \A d \in Cameras \ {c} : workers'[d] = workers[d]
      /\ workers' \in [Cameras -> Threads' \cup {NoThread}]
      /\ coord'.pc = "remove" /\ coord'.removed = {} /\ coord'.added = coord.added \ {c}
      /\ coord'.joining = coord.joining
      /\ coord' \in [pc : {"poll", "remove", "join", "shutdown", "exited"},
                     removed : SUBSET Cameras, added : SUBSET Cameras, joining : SUBSET Threads']
  BY <1>4, <1>5 DEF IInv, TypeOK
<1>7. Watched' = Watched \cup {c} /\ c \notin Watched
  <2>1. n # NoThread
    BY <1>1, CoordinatorAssumptions DEF n
  <2> QED
    BY <1>5, <1>6, <2>1 DEF Watched, IInv, EntryInv
<1>8. TypeOK'
  <2>1. /\ Sessions' = Sessions
        /\ open' \in [Cameras -> SUBSET Sessions]
        /\ sessionOf' \in Seq(Cameras) /\ Len(sessionOf') <= MaxSessions
        /\ published' \in Seq(Nat) /\ DOMAIN published' = Sessions
    BY <1>2 DEF IInv, TypeOK, Sessions
  <2>2. /\ listed' \subseteq Cameras /\ edits' \in 0..MaxEdits
        /\ stopAll' \in BOOLEAN /\ faults' \in 0..MaxFaults
    BY <1>2 DEF IInv, TypeOK
  <2>3. thread' \in Seq(ThreadT')
    BY <1>2, <1>4
  <2> QED
    BY <1>6, <2>1, <2>2, <2>3 DEF TypeOK, ThreadT
<1>9. thread'[n].camera = c /\ ~thread'[n].abandoned /\ thread'[n].hold = {}
      /\ thread'[n].pc = "top" /\ ~thread'[n].last
  BY <1>4 DEF NewThread
<1>10. EntryInv'
  BY <1>4, <1>5, <1>6, <1>7, <1>9, EntryFacts DEF IInv, EntryInv
<1>11. AloneInv'
  <2>1. ASSUME NEW w \in Threads, Alive(w), ~thread[w].abandoned
        PROVE  workers'[thread[w].camera] = w
    <3>1. workers[thread[w].camera] = w /\ thread[w].camera \in Cameras
      BY <2>1, TypeFacts DEF IInv, AloneInv, ThreadT
    <3>2. thread[w].camera # c
      BY <1>7, <2>1, <3>1, EntryFacts DEF IInv
    <3> QED
      BY <1>6, <3>1, <3>2
  <2>2. \A w \in Threads' : Alive(w)' /\ ~thread'[w].abandoned => workers'[thread'[w].camera] = w
    BY <1>4, <1>6, <1>9, <2>1 DEF Alive
  <2>3. \A d \in Watched' : ~thread'[workers'[d]].abandoned
    BY <1>4, <1>5, <1>6, <1>7, <1>9, EntryFacts DEF IInv, AloneInv
  <2> QED
    BY <1>6, <2>2, <2>3 DEF AloneInv
<1>12. CameraInv' /\ SessionInv'
  BY <1>2, <1>4, <1>9, SessionsUntouched DEF IInv, Threads
<1> QED
  BY <1>8, <1>10, <1>11, <1>12 DEF IInv

LEMMA MainLoopStep ==
  ASSUME IInv, MainLoop
  PROVE  IInv'
BY PollStep, RestStep, RemoveStep, StartStep, JoinRemovedStep, JoinLastStep, StopWorkersStep
  DEF MainLoop

-----------------------------------------------------------------------------
(* The worker threads *)

\* Two threads of a camera that no join has given up on do not run together.
LEMMA OneRuns ==
  ASSUME IInv, NEW c \in Cameras, Sound(c), NEW v \in OnCamera(c), NEW w \in OnCamera(c),
         Alive(v), Alive(w)
  PROVE  v = w
BY DEF IInv, AloneInv, Sound, OnCamera

\* What a step changes of the thread that takes it.
LEMMA WorkerFacts ==
  ASSUME IInv, NEW w \in Threads, NEW new,
         new \in ThreadT', Sessions \subseteq Sessions',
         new.camera = thread[w].camera, new.abandoned = thread[w].abandoned,
         Alive(w), thread' = [thread EXCEPT ![w] = new], UNCHANGED <<coord, workers>>
  PROVE  /\ thread' \in Seq(ThreadT') /\ Threads' = Threads
         /\ thread'[w] = new
         /\ \A v \in Threads \ {w} : thread'[v] = thread[v]
         /\ \A c \in Cameras : OnCamera(c)' = OnCamera(c) /\ (Sound(c)' <=> Sound(c))
         /\ EntryInv' /\ AloneInv'
<1>1. thread \in [Threads -> ThreadT] /\ Len(thread) \in Nat /\ Threads = 1..Len(thread)
  BY TypeFacts DEF IInv
<1>2. ThreadT \subseteq ThreadT'
  BY DEF ThreadT
<1>3. thread' \in [Threads -> ThreadT']
  BY <1>1, <1>2
<1>4. thread' \in Seq(ThreadT')
  BY <1>1, <1>3, SeqBuilt
<1>5. DOMAIN thread' = Threads
  BY <1>3
<1>6. thread'[w] = new /\ \A v \in Threads \ {w} : thread'[v] = thread[v]
  BY <1>1
<1>7. \A v \in Threads : thread'[v].camera = thread[v].camera /\ thread'[v].abandoned = thread[v].abandoned
  BY <1>6
<1>8. \A c \in Cameras : OnCamera(c)' = OnCamera(c) /\ (Sound(c)' <=> Sound(c))
  BY <1>5, <1>7 DEF OnCamera, Sound, Threads
<1>9. EntryInv' /\ AloneInv'
  BY <1>5, <1>6, <1>7, EntriesUntouched DEF IInv, Alive
<1> QED
  BY <1>4, <1>5, <1>6, <1>8, <1>9 DEF Threads

\* The types after a step of a worker.
LEMMA WorkerType ==
  ASSUME IInv, UNCHANGED coordinator, faults' \in 0..MaxFaults,
         thread' \in Seq(ThreadT'), Threads' = Threads,
         open' \in [Cameras -> SUBSET Sessions'],
         sessionOf' \in Seq(Cameras), Len(sessionOf') <= MaxSessions,
         published' \in Seq(Nat), DOMAIN published' = Sessions'
  PROVE  TypeOK'
<1>1. UNCHANGED <<listed, edits, coord, workers, stopAll>>
  BY DEF coordinator
<1> QED
  BY <1>1 DEF IInv, TypeOK, ThreadT

\* A camera that the step of a worker does not concern.
LEMMA OtherCamera ==
  ASSUME IInv, NEW w \in Threads, NEW c \in Cameras, Sound(c), thread[w].camera # c,
         OnCamera(c)' = OnCamera(c), \A v \in Threads \ {w} : thread'[v] = thread[v],
         open'[c] = open[c], Sessions \subseteq Sessions',
         \A s \in Sessions : sessionOf'[s] = sessionOf[s],
         \A s \in Sessions : sessionOf[s] = c => published'[s] = published[s],
         \A s \in Sessions' \ Sessions : sessionOf'[s] # c
  PROVE  SessionsOf(c)'
<1>1. SessionsOf(c)
  BY DEF IInv, SessionInv
<1>2. \A v \in OnCamera(c) : v # w /\ v \in Threads
  BY DEF OnCamera
<1>3. \A v \in OnCamera(c) : thread'[v] = thread[v]
  BY <1>2
<1>4. /\ open[c] \subseteq Sessions
      /\ \A s \in open[c] : sessionOf[s] = c
      /\ \A v \in OnCamera(c) : thread[v].hold \subseteq Sessions
      /\ \A v \in OnCamera(c) : \A s \in thread[v].hold : sessionOf[s] = c
  BY <1>2, TypeFacts DEF IInv, TypeOK, CameraInv, ThreadT, OnCamera
<1> QED
  BY <1>1, <1>3, <1>4 DEF SessionsOf, Alive

\* A thread takes every session of its camera out of the registry.
LEMMA PopStep ==
  ASSUME IInv, NEW w \in Threads, thread[w].pc \in {"top", "frame"},
         NEW last \in BOOLEAN, NEW raised \in BOOLEAN,
         PopAll(w, last, raised), UNCHANGED coordinator, faults' \in 0..MaxFaults
  PROVE  IInv'
<1> DEFINE c == thread[w].camera
           new == [thread[w] EXCEPT !.hold = open[c], !.last = last, !.raised = raised, !.pc = "popped"]
<1>1. /\ thread[w] \in ThreadT /\ c \in Cameras /\ open[c] \subseteq Sessions
  BY TypeFacts DEF IInv, TypeOK, ThreadT
<1>2. /\ thread' = [thread EXCEPT ![w] = new]
      /\ open' = [open EXCEPT ![c] = {}]
      /\ UNCHANGED <<sessionOf, published, coord, workers>>
      /\ Sessions' = Sessions /\ ThreadT' = ThreadT
  BY DEF PopAll, coordinator, Sessions, ThreadT
<1>3. /\ new \in ThreadT
      /\ new.camera = c /\ new.abandoned = thread[w].abandoned
      /\ new.hold = open[c] /\ new.last = last /\ new.pc = "popped"
  BY <1>1 DEF ThreadT
<1>4. Alive(w)
  BY DEF Alive
<1> HIDE DEF new
<1>5. /\ thread' \in Seq(ThreadT') /\ Threads' = Threads
      /\ thread'[w] = new
      /\ \A v \in Threads \ {w} : thread'[v] = thread[v]
      /\ \A d \in Cameras : OnCamera(d)' = OnCamera(d) /\ (Sound(d)' <=> Sound(d))
      /\ EntryInv' /\ AloneInv'
  BY <1>2, <1>3, <1>4, WorkerFacts
<1>6. /\ open'[c] = {} /\ \A d \in Cameras \ {c} : open'[d] = open[d]
      /\ open' \in [Cameras -> SUBSET Sessions]
  BY <1>1, <1>2 DEF IInv, TypeOK
<1>7. TypeOK'
  <2>1. /\ sessionOf \in Seq(Cameras) /\ Len(sessionOf) <= MaxSessions
        /\ published \in Seq(Nat) /\ DOMAIN published = Sessions
    BY DEF IInv, TypeOK
  <2> QED
    BY <1>2, <1>5, <1>6, <2>1, WorkerType
<1>8. CameraInv'
  BY <1>1, <1>2, <1>3, <1>5, <1>6 DEF IInv, CameraInv
<1>9. SessionInv'
  <2> SUFFICES ASSUME NEW d \in Cameras, Sound(d)
               PROVE  SessionsOf(d)'
    BY <1>5 DEF SessionInv
  <2>1. CASE d # c
    BY <1>2, <1>5, <1>6, <2>1, OtherCamera
  <2>2. CASE d = c
    <3>1. SessionsOf(d) /\ w \in OnCamera(d)
      BY <2>2 DEF IInv, SessionInv, OnCamera
    <3>2. \A v \in OnCamera(d) \ {w} : ~Alive(v) /\ thread'[v] = thread[v] /\ v \in Threads
      BY <1>4, <1>5, <3>1, OneRuns DEF OnCamera
    <3>3. thread[w].hold = {}
      BY <3>1 DEF SessionsOf
    <3>4. \A v \in OnCamera(d) \ {w} : thread[v].hold = {} /\ thread[v].pc = "ended"
      BY <3>1, <3>2 DEF SessionsOf, Alive
    <3> QED
      BY <1>2, <1>3, <1>5, <1>6, <2>2, <3>1, <3>2, <3>3, <3>4 DEF SessionsOf, Alive
  <2> QED
    BY <2>1, <2>2
<1> QED
  BY <1>5, <1>7, <1>8, <1>9 DEF IInv

\* A thread goes on to another place with nothing opened, taken or published.
LEMMA MoveStep ==
  ASSUME IInv, NEW w \in Threads, NEW hold,
         NEW pc \in {"top", "frame", "lost", "ended"},
         Alive(w), UNCHANGED <<coordinator, registry, faults>>,
         thread' = [thread EXCEPT ![w].hold = hold, ![w].pc = pc],
         \/ pc = "frame" /\ thread[w].pc = "top" /\ hold = thread[w].hold
         \/ pc = "lost" /\ thread[w].pc = "frame" /\ hold \subseteq open[thread[w].camera]
         \/ pc = "top" /\ thread[w].hold = {} /\ hold = {} /\ ~thread[w].last
            /\ thread[w].pc \in {"lost", "popped"}
         \/ pc = "ended" /\ thread[w].hold = {} /\ hold = {} /\ thread[w].last
            /\ thread[w].pc \in {"lost", "popped"}
  PROVE  IInv'
<1> DEFINE c == thread[w].camera
           new == [thread[w] EXCEPT !.hold = hold, !.pc = pc]
<1>1. /\ thread[w] \in ThreadT /\ c \in Cameras /\ open[c] \subseteq Sessions
      /\ hold \in SUBSET Sessions /\ \A s \in hold : sessionOf[s] = c
  <2>1. /\ thread[w] \in ThreadT /\ c \in Cameras /\ open[c] \subseteq Sessions
        /\ thread[w].hold \subseteq Sessions
    BY TypeFacts DEF IInv, TypeOK, ThreadT
  <2> QED
    BY <2>1 DEF IInv, CameraInv
<1>2. /\ thread' = [thread EXCEPT ![w] = new]
      /\ UNCHANGED <<open, sessionOf, published, coord, workers, faults>>
      /\ Sessions' = Sessions /\ ThreadT' = ThreadT
  <2>1. thread \in [Threads -> ThreadT]
    BY TypeFacts DEF IInv
  <2> QED
    BY <2>1 DEF registry, coordinator, Sessions, ThreadT
<1>3. /\ new \in ThreadT
      /\ new.camera = c /\ new.abandoned = thread[w].abandoned
      /\ new.hold = hold /\ new.last = thread[w].last /\ new.pc = pc
  BY <1>1 DEF ThreadT
<1> HIDE DEF new
<1>5. /\ thread' \in Seq(ThreadT') /\ Threads' = Threads
      /\ thread'[w] = new
      /\ \A v \in Threads \ {w} : thread'[v] = thread[v]
      /\ \A d \in Cameras : OnCamera(d)' = OnCamera(d) /\ (Sound(d)' <=> Sound(d))
      /\ EntryInv' /\ AloneInv'
  BY <1>2, <1>3, WorkerFacts
<1>7. TypeOK'
  <2>1. /\ sessionOf \in Seq(Cameras) /\ Len(sessionOf) <= MaxSessions
        /\ published \in Seq(Nat) /\ DOMAIN published = Sessions
        /\ open \in [Cameras -> SUBSET Sessions] /\ faults \in 0..MaxFaults
    BY DEF IInv, TypeOK
  <2> QED
    BY <1>2, <1>5, <2>1, WorkerType
<1>8. CameraInv'
  <2>1. ASSUME NEW v \in Threads, NEW s \in thread'[v].hold
        PROVE  sessionOf[s] = thread'[v].camera
    <3>1. CASE v = w
      BY <1>1, <1>3, <1>5, <2>1, <3>1 DEF IInv, CameraInv
    <3>2. CASE v # w
      <4>1. thread'[v] = thread[v]
        BY <1>5, <3>2
      <4>2. \A r \in thread[v].hold : sessionOf[r] = thread[v].camera
        BY DEF IInv, CameraInv
      <4> QED
        BY <2>1, <4>1, <4>2
    <3> QED
      BY <3>1, <3>2
  <2> QED
    BY <1>2, <1>5, <2>1 DEF IInv, CameraInv
<1>9. SessionInv'
  <2> SUFFICES ASSUME NEW d \in Cameras, Sound(d)
               PROVE  SessionsOf(d)'
    BY <1>5 DEF SessionInv
  <2>1. CASE d # c
    BY <1>2, <1>5, <2>1, OtherCamera
  <2>2. CASE d = c
    <3>1. SessionsOf(d) /\ w \in OnCamera(d)
      BY <2>2 DEF IInv, SessionInv, OnCamera
    <3>2. \A v \in OnCamera(d) \ {w} : ~Alive(v) /\ thread'[v] = thread[v] /\ v \in Threads
      BY <1>5, <3>1, OneRuns DEF OnCamera
    <3>3. thread[w].hold = {} \/ pc \in {"top", "ended"}
      BY <3>1 DEF SessionsOf
    <3>4. thread[w].hold = {}
      BY <3>3
    <3>5. pc = "ended" => open[c] = {}
      BY <2>2, <3>1 DEF SessionsOf
    <3>6. \A v \in OnCamera(d) \ {w} : thread[v].hold = {} /\ thread[v].pc = "ended"
      BY <3>1, <3>2 DEF SessionsOf, Alive
    <3>7. pc # "ended" => ~thread[w].last
      BY <3>1 DEF SessionsOf
    <3>8. \A v \in OnCamera(d) :
            /\ thread'[v].hold \subseteq open[d]
            /\ thread'[v].pc # "lost" => thread'[v].hold = {}
            /\ thread'[v].pc # "popped"
            /\ thread'[v].last => thread'[v].pc = "ended"
      BY <1>1, <1>3, <1>5, <2>2, <3>2, <3>4, <3>6, <3>7 DEF ThreadT
    <3>9. (\A v \in OnCamera(d) : thread'[v].pc = "ended") => open[d] = {}
      BY <1>3, <1>5, <2>2, <3>1, <3>5
    <3>10. \A s \in Sessions : sessionOf[s] = d => published[s] = 1 \/ s \in open[d]
      BY <3>1, <3>4, <3>6 DEF SessionsOf
    <3> QED
      BY <1>2, <1>5, <3>1, <3>8, <3>9, <3>10 DEF SessionsOf, Alive
  <2> QED
    BY <2>1, <2>2
<1> QED
  BY <1>5, <1>7, <1>8, <1>9 DEF IInv

\* A frame that opens a session.
LEMMA OpenStep ==
  ASSUME IInv, NEW w \in Threads, thread[w].pc = "top", UNCHANGED <<coordinator, faults>>,
         thread' = [thread EXCEPT ![w].pc = "frame"],
         Len(sessionOf) < MaxSessions,
         sessionOf' = Append(sessionOf, thread[w].camera),
         published' = Append(published, 0),
         open' = [open EXCEPT ![thread[w].camera] = @ \cup {Len(sessionOf) + 1}]
  PROVE  IInv'
<1> DEFINE c == thread[w].camera
           n == Len(sessionOf) + 1
           new == [thread[w] EXCEPT !.pc = "frame"]
<1>1. /\ thread[w] \in ThreadT /\ c \in Cameras /\ open[c] \subseteq Sessions
      /\ Len(sessionOf) \in Nat /\ Sessions = 1..Len(sessionOf)
      /\ sessionOf \in Seq(Cameras) /\ published \in Seq(Nat) /\ DOMAIN published = Sessions
  BY TypeFacts DEF IInv, TypeOK, ThreadT
<1>2. /\ sessionOf' \in Seq(Cameras) /\ Len(sessionOf') = n
      /\ \A s \in Sessions : sessionOf'[s] = sessionOf[s]
      /\ sessionOf'[n] = c
  BY <1>1, AppendProperties
<1>3. Sessions' = Sessions \cup {n} /\ n \notin Sessions
  BY <1>1, <1>2, SeqFacts DEF Sessions
<1>4. Len(published) = Len(sessionOf)
  BY <1>1, SeqFacts
<1>5. /\ published' \in Seq(Nat) /\ Len(published') = n
      /\ \A s \in Sessions : published'[s] = published[s]
      /\ published'[n] = 0
  BY <1>1, <1>4, AppendProperties
<1>6. DOMAIN published' = Sessions'
  BY <1>2, <1>5, SeqFacts DEF Sessions
<1>7. /\ new \in ThreadT' /\ ThreadT \subseteq ThreadT'
      /\ new.camera = c /\ new.abandoned = thread[w].abandoned
      /\ new.hold = thread[w].hold /\ new.last = thread[w].last /\ new.pc = "frame"
  BY <1>1, <1>3 DEF ThreadT
<1>8. thread' = [thread EXCEPT ![w] = new] /\ Alive(w) /\ UNCHANGED <<coord, workers, faults>>
  <2>1. thread \in [Threads -> ThreadT]
    BY TypeFacts DEF IInv
  <2> QED
    BY <2>1 DEF Alive, coordinator
<1>9. /\ open'[c] = open[c] \cup {n} /\ \A d \in Cameras \ {c} : open'[d] = open[d]
      /\ open' \in [Cameras -> SUBSET Sessions']
  BY <1>1, <1>3 DEF IInv, TypeOK
<1>10. n <= MaxSessions
  BY <1>1, CoordinatorAssumptions
<1> HIDE DEF new, n
<1>11. /\ thread' \in Seq(ThreadT') /\ Threads' = Threads
       /\ thread'[w] = new
       /\ \A v \in Threads \ {w} : thread'[v] = thread[v]
       /\ \A d \in Cameras : OnCamera(d)' = OnCamera(d) /\ (Sound(d)' <=> Sound(d))
       /\ EntryInv' /\ AloneInv'
  BY <1>3, <1>7, <1>8, WorkerFacts
<1>12. TypeOK'
  <2>1. faults \in 0..MaxFaults
    BY DEF IInv, TypeOK
  <2> QED
    BY <1>2, <1>5, <1>6, <1>8, <1>9, <1>10, <1>11, <2>1, WorkerType
<1>13. \A v \in Threads : thread[v].hold \subseteq Sessions
  BY TypeFacts DEF IInv, ThreadT
<1>14. CameraInv'
  <2>1. \A d \in Cameras : \A s \in open'[d] : sessionOf'[s] = d
    BY <1>2, <1>3, <1>9 DEF IInv, CameraInv, TypeOK
  <2>2. ASSUME NEW v \in Threads, NEW s \in thread'[v].hold
        PROVE  sessionOf'[s] = thread'[v].camera
    <3>1. thread'[v].hold = thread[v].hold /\ thread'[v].camera = thread[v].camera
      BY <1>7, <1>11
    <3>2. sessionOf[s] = thread[v].camera /\ s \in Sessions
      BY <1>13, <2>2, <3>1 DEF IInv, CameraInv
    <3> QED
      BY <1>2, <3>1, <3>2
  <2> QED
    BY <1>11, <2>1, <2>2 DEF CameraInv
<1>15. SessionInv'
  <2> SUFFICES ASSUME NEW d \in Cameras, Sound(d)
               PROVE  SessionsOf(d)'
    BY <1>11 DEF SessionInv
  <2>1. CASE d # c
    BY <1>2, <1>3, <1>5, <1>9, <1>11, <2>1, OtherCamera
  <2>2. CASE d = c
    <3>1. SessionsOf(d) /\ w \in OnCamera(d)
      BY <2>2 DEF IInv, SessionInv, OnCamera
    <3>2. \A v \in OnCamera(d) \ {w} : ~Alive(v) /\ thread'[v] = thread[v] /\ v \in Threads
      BY <1>8, <1>11, <3>1, OneRuns DEF OnCamera
    <3>3. thread[w].hold = {} /\ ~thread[w].last
      BY <3>1, <1>1 DEF SessionsOf, ThreadT
    <3>4. \A v \in OnCamera(d) \ {w} : thread[v].hold = {} /\ thread[v].pc = "ended"
      BY <3>1, <3>2 DEF SessionsOf, Alive
    <3>5. \A v \in OnCamera(d) : thread'[v].hold = {} /\ thread'[v].pc \in {"ended", "frame"}
                                 /\ (thread'[v].last => thread'[v].pc = "ended")
      BY <1>7, <1>11, <3>2, <3>3, <3>4
    <3>6. \A s \in open'[d] : published'[s] = 0
      BY <1>1, <1>3, <1>5, <1>9, <2>2, <3>1 DEF SessionsOf
    <3>7. ~ \A v \in OnCamera(d) : thread'[v].pc = "ended"
      BY <1>7, <1>11, <3>1
    <3>8. ASSUME NEW s \in Sessions', sessionOf'[s] = d
          PROVE  published'[s] = 1 \/ s \in open'[d]
      <4>1. CASE s = n
        BY <1>9, <2>2, <4>1
      <4>2. CASE s \in Sessions
        BY <1>2, <1>5, <1>9, <2>2, <3>1, <3>3, <3>4, <3>8, <4>2 DEF SessionsOf
      <4> QED
        BY <1>3, <4>1, <4>2
    <3> QED
      BY <1>11, <3>5, <3>6, <3>7, <3>8 DEF SessionsOf, Alive
  <2> QED
    BY <2>1, <2>2
<1> QED
  BY <1>11, <1>12, <1>14, <1>15 DEF IInv

\* The next session is published, and a lost one leaves the registry.
LEMMA FinalizeStep ==
  ASSUME IInv, NEW w \in Threads, NEW s \in thread[w].hold, Finalize(w, s)
  PROVE  IInv'
<1> DEFINE c == thread[w].camera
           new == [thread[w] EXCEPT !.hold = @ \ {s}]
<1>1. /\ thread[w] \in ThreadT /\ c \in Cameras /\ open[c] \subseteq Sessions
      /\ s \in Sessions /\ sessionOf[s] = c
      /\ published \in [Sessions -> Nat] /\ Len(published) \in Nat /\ Sessions = 1..Len(published)
  <2>1. published \in Seq(Nat) /\ DOMAIN published = Sessions
    BY DEF IInv, TypeOK
  <2> QED
    BY <2>1, TypeFacts, SeqFacts DEF IInv, TypeOK, ThreadT, CameraInv
<1>2. /\ thread' = [thread EXCEPT ![w] = new]
      /\ UNCHANGED <<sessionOf, coord, workers, faults>> /\ UNCHANGED coordinator
      /\ Sessions' = Sessions /\ ThreadT' = ThreadT
  <2>1. thread \in [Threads -> ThreadT]
    BY TypeFacts DEF IInv
  <2> QED
    BY <2>1 DEF Finalize, coordinator, Sessions, ThreadT
<1>3. /\ new \in ThreadT
      /\ new.camera = c /\ new.abandoned = thread[w].abandoned
      /\ new.hold = thread[w].hold \ {s} /\ new.last = thread[w].last /\ new.pc = thread[w].pc
  BY <1>1 DEF ThreadT
<1>4. Alive(w)
  BY DEF Finalize, RunsAt, Alive
<1> HIDE DEF new
<1>5. /\ thread' \in Seq(ThreadT') /\ Threads' = Threads
      /\ thread'[w] = new
      /\ \A v \in Threads \ {w} : thread'[v] = thread[v]
      /\ \A d \in Cameras : OnCamera(d)' = OnCamera(d) /\ (Sound(d)' <=> Sound(d))
      /\ EntryInv' /\ AloneInv'
  BY <1>2, <1>3, <1>4, WorkerFacts
<1>6. /\ open' \in [Cameras -> SUBSET Sessions]
      /\ \A d \in Cameras \ {c} : open'[d] = open[d]
      /\ \/ thread[w].pc = "lost" /\ open'[c] = open[c] \ {s}
         \/ thread[w].pc = "popped" /\ open'[c] = open[c]
  BY <1>1 DEF IInv, TypeOK, Finalize, RunsAt
<1>7. /\ published' \in [Sessions -> Nat]
      /\ published'[s] = published[s] + 1
      /\ \A r \in Sessions \ {s} : published'[r] = published[r]
  BY <1>1 DEF Finalize
<1>8. TypeOK'
  <2>1. sessionOf \in Seq(Cameras) /\ Len(sessionOf) <= MaxSessions /\ faults \in 0..MaxFaults
    BY DEF IInv, TypeOK
  <2>2. published' \in Seq(Nat) /\ DOMAIN published' = Sessions
    BY <1>1, <1>7, SeqBuilt
  <2> QED
    BY <1>2, <1>5, <1>6, <2>1, <2>2, WorkerType
<1>9. CameraInv'
  <2>1. ASSUME NEW v \in Threads, NEW r \in thread'[v].hold
        PROVE  sessionOf[r] = thread'[v].camera
    <3>1. thread'[v].hold \subseteq thread[v].hold /\ thread'[v].camera = thread[v].camera
      BY <1>3, <1>5
    <3> QED
      BY <2>1, <3>1 DEF IInv, CameraInv
  <2>2. \A d \in Cameras : open'[d] \subseteq open[d]
    BY <1>6
  <2> QED
    BY <1>2, <1>5, <2>1, <2>2 DEF IInv, CameraInv
<1>10. SessionInv'
  <2> SUFFICES ASSUME NEW d \in Cameras, Sound(d)
               PROVE  SessionsOf(d)'
    BY <1>5 DEF SessionInv
  <2>1. CASE d # c
    BY <1>1, <1>2, <1>5, <1>6, <1>7, <2>1, OtherCamera
  <2>2. CASE d = c
    <3>1. SessionsOf(d) /\ w \in OnCamera(d)
      BY <2>2 DEF IInv, SessionInv, OnCamera
    <3>2. \A v \in OnCamera(d) \ {w} : ~Alive(v) /\ thread'[v] = thread[v] /\ v \in Threads
      BY <1>4, <1>5, <3>1, OneRuns DEF OnCamera
    <3>3. \A v \in OnCamera(d) \ {w} : thread'[v].hold = {} /\ thread'[v].pc = "ended"
      BY <3>1, <3>2 DEF SessionsOf, Alive
    <3>4. /\ published[s] = 0
          /\ \A r \in thread[w].hold : published[r] = 0
          /\ thread[w].pc = "lost" => thread[w].hold \subseteq open[d] /\ ~thread[w].last
          /\ thread[w].pc = "popped" => thread[w].hold \cap open[d] = {}
          /\ thread[w].pc = "popped" /\ thread[w].last => open[d] = {}
      BY <3>1 DEF SessionsOf
    <3>5. published'[s] = 1 /\ s \notin open'[d] /\ s \notin thread'[w].hold
      BY <1>3, <1>5, <1>6, <1>7, <2>2, <3>4
    <3>6. \A r \in open'[d] : r \in open[d] /\ r \in Sessions /\ r # s
      BY <1>1, <1>6, <2>2, <3>5
    <3>7. \A r \in open'[d] : published'[r] = 0
      BY <1>7, <3>1, <3>6 DEF SessionsOf
    <3>8. \A r \in thread'[w].hold : r \in thread[w].hold /\ r \in Sessions /\ r # s
      BY <1>1, <1>3, <1>5 DEF ThreadT
    <3>9. /\ \A r \in thread'[w].hold : published'[r] = 0
          /\ thread'[w].pc \in {"lost", "popped"}
          /\ thread'[w].pc = "lost" => thread'[w].hold \subseteq open'[d] /\ ~thread'[w].last
          /\ thread'[w].pc = "popped" => thread'[w].hold \cap open'[d] = {}
          /\ thread'[w].pc = "popped" /\ thread'[w].last => open'[d] = {}
      BY <1>3, <1>5, <1>6, <1>7, <2>2, <3>4, <3>8
    <3>10. ASSUME NEW r \in Sessions, sessionOf[r] = d
           PROVE  published'[r] = 1 \/ r \in open'[d] \/ r \in thread'[w].hold
      <4>1. CASE r = s
        BY <3>5, <4>1
      <4>2. CASE r # s
        <5>1. published[r] = 1 \/ r \in open[d] \/ r \in thread[w].hold
          BY <3>1, <3>2, <3>3, <3>10 DEF SessionsOf
        <5> QED
          BY <1>3, <1>5, <1>6, <1>7, <2>2, <4>2, <5>1
      <4> QED
        BY <4>1, <4>2
    <3>11. /\ \A v \in OnCamera(d) :
                /\ \A r \in thread'[v].hold : published'[r] = 0
                /\ thread'[v].pc \notin {"lost", "popped"} => thread'[v].hold = {}
                /\ thread'[v].pc = "lost" => thread'[v].hold \subseteq open'[d]
                /\ thread'[v].pc = "popped" => thread'[v].hold \cap open'[d] = {}
                /\ thread'[v].last => thread'[v].pc \in {"popped", "ended"}
                /\ thread'[v].last /\ thread'[v].pc = "popped" => open'[d] = {}
      BY <3>3, <3>9
    <3>12. ~ \A v \in OnCamera(d) : thread'[v].pc = "ended"
      BY <3>1, <3>9
    <3> QED
      BY <1>2, <1>5, <3>1, <3>7, <3>10, <3>11, <3>12 DEF SessionsOf, Alive
  <2> QED
    BY <2>1, <2>2
<1> QED
  BY <1>5, <1>8, <1>9, <1>10 DEF IInv

\* A step of a worker.
LEMMA WorkerStep ==
  ASSUME IInv, NEW w \in Threads, Worker(w)
  PROVE  IInv'
<1>1. thread \in [Threads -> ThreadT] /\ thread[w] \in ThreadT /\ thread[w].camera \in Cameras
  BY TypeFacts DEF IInv, ThreadT
<1>2. faults \in 0..MaxFaults /\ MaxFaults \in Nat
  BY CoordinatorAssumptions DEF IInv, TypeOK
<1>3. CASE Leave(w)
  <2>1. /\ thread[w].pc = "top" /\ PopAll(w, TRUE, FALSE) /\ UNCHANGED coordinator
        /\ faults' \in 0..MaxFaults
    BY <1>2, <1>3 DEF Leave, RunsAt
  <2> QED
    BY <2>1, PopStep
<1>4. CASE Reset(w)
  <2>1. /\ thread[w].pc = "top" /\ PopAll(w, FALSE, FALSE) /\ UNCHANGED coordinator
        /\ faults' \in 0..MaxFaults
    BY <1>2, <1>4 DEF Reset, RunsAt
  <2> QED
    BY <2>1, PopStep
<1>5. CASE Raises(w)
  <2>1. thread[w].pc \in {"top", "frame"} /\ PopAll(w, TRUE, TRUE) /\ UNCHANGED coordinator
    BY <1>5 DEF Raises, RunsAt
  <2>2. faults < MaxFaults /\ faults' = faults + 1
    BY <1>5 DEF Raises
  <2>3. faults' \in 0..MaxFaults
    BY <1>2, <2>2
  <2>4. TRUE \in BOOLEAN
    OBVIOUS
  <2> QED
    BY <2>1, <2>3, <2>4, PopStep
<1>6. CASE Frame(w)
  <2>1. /\ thread[w].pc = "top" /\ thread' = [thread EXCEPT ![w].pc = "frame"]
        /\ UNCHANGED <<coordinator, faults>> /\ Alive(w)
    BY <1>6 DEF Frame, RunsAt, Alive
  <2>2. CASE UNCHANGED registry
    <3>1. thread' = [thread EXCEPT ![w].hold = thread[w].hold, ![w].pc = "frame"]
      BY <1>1, <2>1 DEF ThreadT
    <3> QED
      BY <2>1, <2>2, <3>1, MoveStep
  <2>3. CASE ~ UNCHANGED registry
    <3>1. /\ Len(sessionOf) < MaxSessions
          /\ sessionOf' = Append(sessionOf, thread[w].camera)
          /\ published' = Append(published, 0)
          /\ open' = [open EXCEPT ![thread[w].camera] = @ \cup {Len(sessionOf) + 1}]
      BY <1>6, <2>3 DEF Frame
    <3> QED
      BY <2>1, <3>1, OpenStep
  <2> QED
    BY <2>2, <2>3
<1>7. CASE MarkSeen(w)
  <2>1. PICK lost \in SUBSET open[thread[w].camera] :
          thread' = [thread EXCEPT ![w].hold = lost, ![w].pc = "lost"]
    BY <1>7 DEF MarkSeen
  <2>2. /\ thread[w].pc = "frame" /\ Alive(w)
        /\ UNCHANGED <<coordinator, registry, faults>>
    BY <1>7 DEF MarkSeen, RunsAt, Alive
  <2> QED
    BY <2>1, <2>2, MoveStep
<1>8. CASE Finalized(w)
  <2>1. /\ thread[w].pc \in {"lost", "popped"} /\ Alive(w) /\ thread[w].hold = {}
        /\ UNCHANGED <<coordinator, registry, faults>>
    BY <1>8 DEF Finalized, RunsAt, Alive
  <2>2. CASE thread[w].last
    <3>1. thread' = [thread EXCEPT ![w].hold = {}, ![w].pc = "ended"]
      BY <1>1, <1>8, <2>1, <2>2 DEF Finalized, ThreadT
    <3> QED
      BY <2>1, <2>2, <3>1, MoveStep
  <2>3. CASE ~thread[w].last
    <3>1. thread' = [thread EXCEPT ![w].hold = {}, ![w].pc = "top"]
      BY <1>1, <1>8, <2>1, <2>3 DEF Finalized, ThreadT
    <3> QED
      BY <2>1, <2>3, <3>1, MoveStep
  <2> QED
    BY <2>2, <2>3
<1>9. CASE \E s \in thread[w].hold : Finalize(w, s)
  BY <1>9, FinalizeStep
<1> QED
  BY <1>3, <1>4, <1>5, <1>6, <1>7, <1>8, <1>9 DEF Worker

-----------------------------------------------------------------------------
(* The invariant of the specification *)

\* The catalogue, the operator and stuttering touch no thread and no entry.
LEMMA OutsideStep ==
  ASSUME IInv, UNCHANGED <<coord, workers, thread, registry, faults>>,
         listed' \subseteq Cameras, edits' \in 0..MaxEdits, stopAll' \in BOOLEAN
  PROVE  IInv'
<1>1. TypeOK'
  BY DEF IInv, TypeOK, registry, Threads, Sessions
<1>2. EntryInv' /\ AloneInv'
  BY DEF IInv, EntryInv, AloneInv, Watched, Threads, Alive
<1>3. CameraInv' /\ SessionInv'
  BY SessionsUntouched DEF IInv, Threads
<1> QED
  BY <1>1, <1>2, <1>3 DEF IInv

LEMMA InitInv ==
  ASSUME Init
  PROVE  IInv
<1>1. /\ thread = <<>> /\ Threads = {} /\ sessionOf = <<>> /\ Sessions = {} /\ published = <<>>
  BY DEF Init, Fresh, Threads, Sessions
<1>2. TypeOK
  <2>1. MaxSessions \in Nat /\ 0 \in 0..MaxEdits /\ 0 \in 0..MaxFaults
    BY CoordinatorAssumptions
  <2>2. thread \in Seq(ThreadT) /\ sessionOf \in Seq(Cameras) /\ published \in Seq(Nat)
    BY <1>1
  <2>3. Len(sessionOf) <= MaxSessions /\ DOMAIN published = Sessions
    BY <1>1, <2>1 DEF Sessions
  <2>4. /\ coord \in [pc : {"poll", "remove", "join", "shutdown", "exited"},
                     removed : SUBSET Cameras, added : SUBSET Cameras, joining : SUBSET Threads]
        /\ workers \in [Cameras -> Threads \cup {NoThread}]
        /\ open \in [Cameras -> SUBSET Sessions]
    BY DEF Init, Fresh
  <2> QED
    BY <2>1, <2>2, <2>3, <2>4 DEF Init, Fresh, TypeOK, ThreadT
<1>3. EntryInv /\ AloneInv
  BY <1>1 DEF Init, Fresh, EntryInv, AloneInv, Watched
<1>4. CameraInv /\ SessionInv
  BY <1>1 DEF Init, Fresh, CameraInv, SessionInv, SessionsOf, OnCamera
<1> QED
  BY <1>2, <1>3, <1>4 DEF IInv

LEMMA StepInv ==
  ASSUME IInv, [Next]_vars
  PROVE  IInv'
<1>1. listed \subseteq Cameras /\ edits \in 0..MaxEdits /\ stopAll \in BOOLEAN /\ MaxEdits \in Nat
  BY CoordinatorAssumptions DEF IInv, TypeOK
<1>2. CASE MainLoop
  BY <1>2, MainLoopStep
<1>3. CASE \E w \in Threads : Worker(w)
  BY <1>3, WorkerStep
<1>4. ASSUME NEW c \in Cameras, EditCatalogue(c)
      PROVE  IInv'
  BY <1>1, <1>4, OutsideStep DEF EditCatalogue
<1>5. CASE Signal
  BY <1>1, <1>5, OutsideStep DEF Signal
<1>6. CASE UNCHANGED vars
  BY <1>1, <1>6, OutsideStep DEF vars, registry
<1> QED
  BY <1>2, <1>3, <1>4, <1>5, <1>6 DEF Next

THEOREM Invariance == Spec => []IInv
<1>1. Init => IInv
  BY InitInv
<1>2. IInv /\ [Next]_vars => IInv'
  BY StepInv
<1> QED
  BY <1>1, <1>2, PTL DEF Spec

\* The state of the coordinator, its threads and their registry is well formed
\* in every reachable state.
THEOREM TypeCorrect == Spec => []TypeOK
<1>1. IInv => TypeOK
  BY DEF IInv
<1> QED
  BY <1>1, Invariance, PTL

\* Whatever the joins of the main loop run into, two threads are alive on one
\* camera only if a join has given up on one of them, and none but such threads
\* outlive the loop.
THEOREM WorkersAreAlone == Spec => []AloneUnlessAbandoned
<1>1. IInv => AloneUnlessAbandoned
  BY DEF IInv, AloneInv, AloneUnlessAbandoned, OnCamera
<1> QED
  BY <1>1, Invariance, PTL

\* However the workers of a camera are reset, raise or are replaced, its sessions
\* are published once each, as long as no join has given up on one of them.
THEOREM SessionsArePublishedOnce == Spec => []SessionsPublishedOnce
<1>1. ASSUME IInv, NEW s \in Sessions, \A w \in OnCamera(sessionOf[s]) : ~thread[w].abandoned
      PROVE  /\ published[s] <= 1
             /\ (\A w \in OnCamera(sessionOf[s]) : ~Alive(w)) => published[s] = 1
  <2> DEFINE c == sessionOf[s]
  <2>1. c \in Cameras
    BY <1>1, TypeFacts DEF IInv
  <2>2. SessionsOf(c)
    BY <1>1, <2>1 DEF IInv, SessionInv, Sound
  <2>3. published[s] = 1 \/ published[s] = 0
    BY <2>2 DEF SessionsOf
  <2>4. ASSUME \A w \in OnCamera(c) : ~Alive(w)
        PROVE  published[s] = 1
    <3>1. open[c] = {}
      BY <2>2, <2>4 DEF SessionsOf
    <3>2. \A w \in OnCamera(c) : thread[w].hold = {}
      BY <2>2, <2>4 DEF SessionsOf, Alive
    <3> QED
      BY <2>2, <3>1, <3>2 DEF SessionsOf
  <2> QED
    BY <2>3, <2>4
<1>2. IInv => SessionsPublishedOnce
  BY <1>1 DEF SessionsPublishedOnce
<1> QED
  BY <1>2, Invariance, PTL
=============================================================================
