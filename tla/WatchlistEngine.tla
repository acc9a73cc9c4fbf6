--------------------------- MODULE WatchlistEngine ---------------------------
(***************************************************************************)
(* The watchlist engine (services/api/services/watchlist_engine.py), the   *)
(* broadcaster of live alerts (alert_dispatcher.py) and the consoles that  *)
(* are connected to it (api/alerts.py).                                    *)
(*                                                                         *)
(* The engine is a second consumer group of the plate stream.  For each    *)
(* read of a batch that hits the watchlist and was not alerted lately it   *)
(* flushes a match, sends it to the consoles, and only after the last read *)
(* of the batch commits the matches.  An exception while one read is       *)
(* processed is caught; if the database raised it, the session refuses     *)
(* everything until it is rolled back, the commit included, and that       *)
(* exception ends the task.  What makes the database raise is taken to be  *)
(* a connection that is gone.                                              *)
(*                                                                         *)
(* A match is known by the number of its read.  The group's pending list,  *)
(* which nothing reads, is in EventConsumer and left out here, and so is   *)
(* the stream watchlist_matches, which nothing in the repository reads.    *)
(***************************************************************************)
EXTENDS Integers, Sequences

CONSTANTS
  Entries,    \* watchlist entries
  Cameras,
  Kinds,      \* the plate reads there are: the entries a read would match, best
              \* first, its camera, and whether its numbers fail to parse
  Consoles,   \* connections to the alert stream, each made at most once
  Scope,      \* the cameras each console may see; one without a jurisdiction
              \* is in nobody's scope
  Window,     \* _DEDUP_WINDOW, in ticks
  BatchSize,  \* _BATCH_SIZE
  N,          \* bound: reads ever published
  MaxNow,     \* bound: ticks of the clock
  MaxFaults   \* bound: failed round trips and process stops

ASSUME EngineAssumption ==
  /\ \A k \in Kinds : k.camera \in Cameras /\ k.hits \in Seq(Entries) /\ k.bad \in BOOLEAN
  /\ Scope \in [Consoles -> SUBSET Cameras]
  /\ Window \in Nat \ {0}
  /\ BatchSize \in Nat \ {0}
  /\ N \in Nat /\ MaxNow \in Nat /\ MaxFaults \in Nat

VARIABLES
  reads,     \* the reads in the stream, in order
  group,     \* whether the consumer group exists
  position,  \* the last read delivered to it
  task,      \* what the task does next; "off" or "dead" if nothing
  batch,     \* the reads of the batch, not yet processed ones only
  held,      \* the whole batch, while it is not concluded
  watch,     \* the active watchlist entries
  list,      \* the active entries as read for this batch
  dedup,     \* _last_alerted
  flushed,   \* matches flushed in the open transaction
  broken,    \* the session waits for a rollback
  rows,      \* the matches in the table
  console,   \* each connection: new, up, dropped (not yet noticed) or gone
  registry,  \* the connections of the broadcaster
  todo,      \* the connections the broadcast under way has not come to
  failed,    \* those it failed to send to
  inbox,     \* the matches each console was sent
  now,       \* the clock
  decided,   \* history: what was decided about each read, and when
  audience,  \* history: the consoles the broadcast of a match was meant for
  concluded, \* history: the reads of the batches that were committed
  origin,    \* history: how many reads were there before the group
  life,      \* history: how often the process was stopped
  faults     \* history: how often something failed

stream == <<reads, group, position, origin>>
work == <<batch, held, list, dedup>>
session == <<flushed, broken, rows>>
alerts == <<console, registry, todo, failed, inbox, audience>>
world == <<watch, now>>
vars == <<stream, task, work, session, alerts, world, decided, concluded, life, faults>>

None == [e \in {} |-> 0]    \* an empty map
Never == 0 - Window         \* so long ago that it does not count

Init ==
  /\ reads = <<>>
  /\ group = FALSE
  /\ position = 0
  /\ task = "off"
  /\ batch = {} /\ held = {}
  /\ watch \in SUBSET Entries /\ list = {}
  /\ dedup = [key \in Entries \X Cameras |-> Never]
  /\ flushed = {} /\ broken = FALSE /\ rows = {}
  /\ console = [c \in Consoles |-> "new"]
  /\ registry = {} /\ todo = {} /\ failed = {}
  /\ inbox = [c \in Consoles |-> {}]
  /\ now = 0
  /\ decided = None /\ audience = None /\ concluded = {}
  /\ origin = 0 /\ life = 0 /\ faults = 0

-----------------------------------------------------------------------------
(* The batch *)

Start ==
  /\ task = "off"
  /\ task' = "ensure"
  /\ UNCHANGED <<stream, work, session, alerts, world, decided, concluded, life, faults>>

\* the group is created anew at every start, at the beginning of the stream
CreateGroupMutant ==
  /\ group' = TRUE
  /\ position' = 0
  /\ UNCHANGED <<reads, origin>>

\* XGROUP CREATE id="$": a new group starts after what is already there
CreateGroup ==
  /\ group' = TRUE
  /\ position' = IF group THEN position ELSE Len(reads)
  /\ origin' = IF group THEN origin ELSE Len(reads)
  /\ UNCHANGED reads

EnsureGroup ==
  /\ task = "ensure"
  /\ CreateGroup
  /\ task' = "read"
  /\ UNCHANGED <<work, session, alerts, world, decided, concluded, life, faults>>

Available ==
  (position + 1)..(IF position + BatchSize < Len(reads) THEN position + BatchSize ELSE Len(reads))

Deliver ==
  /\ Available # {}
  /\ position' \in Available
  /\ \A e \in Available : e <= position'
  /\ UNCHANGED <<reads, group, origin>>

Read ==
  /\ task = "read"
  /\ Deliver
  /\ batch' = Available
  /\ held' = Available
  /\ task' = "list"
  /\ UNCHANGED <<list, dedup, session, alerts, world, decided, concluded, life, faults>>

\* one SELECT of the active entries for the whole batch
LoadList ==
  /\ task = "list"
  /\ list' = watch
  /\ task' = "process"
  /\ UNCHANGED <<stream, batch, held, dedup, session, alerts, world, decided, concluded, life, faults>>

-----------------------------------------------------------------------------
(* One read: _process_event *)

Current(e) == e \in batch /\ \A d \in batch : e <= d

\* _best_match: the first of the entries it would match that is active
Hit(e, w) ==
  LET hits == reads[e].hits IN
  \E i \in DOMAIN hits :
    /\ hits[i] = w
    /\ w \in list
    /\ \A j \in 1..(i - 1) : hits[j] \notin list

Key(e, w) == <<w, reads[e].camera>>

\* the window is kept by entry, whatever the camera
ShouldAlertMutant(e, w) == \A cam \in Cameras : now - dedup[<<w, cam>>] >= Window

ShouldAlert(e, w) == now - dedup[Key(e, w)] >= Window

Decide(e, w, how) ==
  decided' = [d \in DOMAIN decided \cup {e} |->
               IF d = e THEN [how |-> how, entry |-> w, at |-> now, life |-> life]
               ELSE decided[d]]

\* Nothing on the watchlist, or alerted within the window: on to the next read.
\* With a broken session nothing more comes of any read.
PassOver ==
  /\ task = "process"
  /\ \E e \in batch :
       /\ Current(e)
       /\ \/ (broken \/ \A w \in Entries : ~Hit(e, w)) /\ UNCHANGED decided
          \/ ~broken /\ \E w \in Entries : Hit(e, w) /\ ~ShouldAlert(e, w) /\ Decide(e, w, "quiet")
       /\ batch' = batch \ {e}
  /\ UNCHANGED <<stream, task, held, list, dedup, session, alerts, world, concluded, life, faults>>

\* The alert is noted for the window first; then the numbers are parsed, and
\* if they fail to the read is given up, else its match is to be flushed.
Note ==
  /\ task = "process"
  /\ ~broken
  /\ \E e \in batch, w \in Entries :
       /\ Current(e) /\ Hit(e, w) /\ ShouldAlert(e, w)
       /\ dedup' = [dedup EXCEPT ![Key(e, w)] = now]
       /\ IF reads[e].bad
          THEN batch' = batch \ {e} /\ Decide(e, w, "bad") /\ UNCHANGED task
          ELSE task' = "flush" /\ Decide(e, w, "match") /\ UNCHANGED batch
  /\ UNCHANGED <<stream, held, list, session, alerts, world, concluded, life, faults>>

Flush ==
  /\ task = "flush"
  /\ \E e \in batch : Current(e) /\ flushed' = flushed \cup {e}
  /\ task' = "camera"
  /\ UNCHANGED <<stream, work, broken, rows, alerts, world, decided, concluded, life, faults>>

InScope(c, e) == reads[e].camera \in Scope[c]

\* the camera is looked up, and broadcast() copies the connections in its scope
LookUpCamera ==
  /\ task = "camera"
  /\ \E e \in batch : \E meant \in {{c \in registry : InScope(c, e)}} :
       /\ Current(e)
       /\ todo' = meant
       /\ audience' = [d \in DOMAIN audience \cup {e} |-> IF d = e THEN meant ELSE audience[d]]
  /\ failed' = {}
  /\ task' = "send"
  /\ UNCHANGED <<stream, work, session, console, registry, inbox, world, decided, concluded, life, faults>>

\* an exception from one connection leaves the loop
SendMutant ==
  /\ task = "send"
  /\ \E c \in todo, e \in batch :
       /\ Current(e)
       /\ IF console[c] = "up"
          THEN inbox' = [inbox EXCEPT ![c] = @ \cup {e}] /\ todo' = todo \ {c} /\ UNCHANGED failed
          ELSE failed' = failed \cup {c} /\ todo' = {} /\ UNCHANGED inbox
  /\ UNCHANGED <<stream, task, work, session, console, registry, audience, world, decided, concluded, life, faults>>

\* send_json to one connection; what it raises is caught and remembered
Send ==
  /\ task = "send"
  /\ \E c \in todo, e \in batch :
       /\ Current(e)
       /\ todo' = todo \ {c}
       /\ IF console[c] = "up"
          THEN inbox' = [inbox EXCEPT ![c] = @ \cup {e}] /\ UNCHANGED failed
          ELSE failed' = failed \cup {c} /\ UNCHANGED inbox
  /\ UNCHANGED <<stream, task, work, session, console, registry, audience, world, decided, concluded, life, faults>>

\* the next read waits until every connection took the alert
EndBroadcastMutant ==
  /\ task = "send"
  /\ todo = {}
  /\ failed = {}
  /\ \E e \in batch : Current(e) /\ batch' = batch \ {e}
  /\ task' = "process"
  /\ UNCHANGED <<stream, held, list, dedup, session, alerts, world, decided, concluded, life, faults>>

\* the failed connections are unregistered, XADD done or its error logged
EndBroadcast ==
  /\ task = "send"
  /\ todo = {}
  /\ registry' = registry \ failed
  /\ \E e \in batch : Current(e) /\ batch' = batch \ {e}
  /\ task' = "process"
  /\ UNCHANGED <<stream, held, list, dedup, session, console, todo, failed, inbox, audience,
                 world, decided, concluded, life, faults>>

Fault == faults < MaxFaults /\ faults' = faults + 1

\* the session goes on as if nothing happened, and what was flushed before
\* the statement that raised is committed
DatabaseRaisesMutant ==
  /\ task \in {"flush", "camera"}
  /\ Fault
  /\ \E e \in batch : Current(e) /\ batch' = batch \ {e}
  /\ task' = "process"
  /\ UNCHANGED <<stream, held, list, dedup, session, alerts, world, decided, concluded, life>>

\* a statement of _process_event raises: caught, logged, and the next read is
\* processed with the same session
DatabaseRaises ==
  /\ task \in {"flush", "camera"}
  /\ Fault
  /\ broken' = TRUE
  /\ \E e \in batch : Current(e) /\ batch' = batch \ {e}
  /\ task' = "process"
  /\ UNCHANGED <<stream, held, list, dedup, flushed, rows, alerts, world, decided, concluded, life>>

-----------------------------------------------------------------------------
(* The end of the batch *)

CommitMatches ==
  /\ rows' = rows \cup flushed
  /\ concluded' = concluded \cup held

AtCommit == task = "process" /\ batch = {}

Commit ==
  /\ AtCommit
  /\ ~broken
  /\ CommitMatches
  /\ flushed' = {}
  /\ held' = {}
  /\ task' = "ack"
  /\ UNCHANGED <<stream, batch, list, dedup, broken, alerts, world, decided, life, faults>>

Ack ==
  /\ task = "ack"
  /\ task' = "read"
  /\ UNCHANGED <<stream, work, session, alerts, world, decided, concluded, life, faults>>

\* the reads not processed yet are kept for the next session
AbandonMutant ==
  /\ flushed' = {}
  /\ broken' = FALSE
  /\ batch' = batch
  /\ held' = {}

\* the session is closed, and with it what it flushed
Abandon ==
  /\ flushed' = {}
  /\ broken' = FALSE
  /\ batch' = {}
  /\ held' = {}

\* what the round trip under way may have done before its answer is lost
Effect ==
  \/ UNCHANGED <<stream, rows, concluded>>
  \/ task = "ensure" /\ CreateGroup /\ UNCHANGED <<rows, concluded>>
  \/ task = "read" /\ Deliver /\ UNCHANGED <<rows, concluded>>
  \/ AtCommit /\ ~broken /\ CommitMatches /\ UNCHANGED stream

\* XREADGROUP raises: sleep, and read what comes after
ReadFails ==
  /\ task = "read"
  /\ Fault
  /\ Effect
  /\ UNCHANGED <<task, work, flushed, broken, alerts, world, decided, life>>

\* the commit of a broken session raises, and ends the task
BrokenCommit ==
  /\ AtCommit
  /\ broken
  /\ Abandon
  /\ task' = "dead"
  /\ UNCHANGED <<stream, list, dedup, rows, alerts, world, decided, concluded, life, faults>>

\* so does any round trip outside _process_event but the read
TaskDies ==
  /\ task \in {"ensure", "list", "ack"} \/ (AtCommit /\ ~broken)
  /\ Fault
  /\ Effect
  /\ Abandon
  /\ task' = "dead"
  /\ UNCHANGED <<list, dedup, alerts, world, decided, life>>

\* the API process stops, wherever the task is, with the connections and the
\* window
ProcessStops ==
  /\ task # "off"
  /\ Fault
  /\ Effect
  /\ Abandon
  /\ task' = "off"
  /\ life' = life + 1
  /\ dedup' = [key \in Entries \X Cameras |-> Never]
  /\ registry' = {} /\ todo' = {} /\ failed' = {}
  /\ console' = [c \in Consoles |-> IF console[c] = "new" THEN "new" ELSE "gone"]
  /\ UNCHANGED <<list, inbox, audience, world, decided>>

-----------------------------------------------------------------------------
(* Publisher, consoles, watchlist and clock *)

Publish ==
  /\ Len(reads) < N
  /\ \E k \in Kinds : reads' = Append(reads, k)
  /\ UNCHANGED <<group, position, origin, task, work, session, alerts, world, decided, concluded, life, faults>>

\* accept and register
Connect(c) ==
  /\ task # "off"
  /\ console[c] = "new"
  /\ console' = [console EXCEPT ![c] = "up"]
  /\ registry' = registry \cup {c}
  /\ UNCHANGED <<stream, task, work, session, todo, failed, inbox, audience, world, decided,
                 concluded, life, faults>>

\* the browser is gone; receive_text has not told yet
Drop(c) ==
  /\ console[c] = "up"
  /\ console' = [console EXCEPT ![c] = "dropped"]
  /\ UNCHANGED <<stream, task, work, session, registry, todo, failed, inbox, audience, world,
                 decided, concluded, life, faults>>

\* alert_stream leaves its loop and unregisters
Notice(c) ==
  /\ console[c] = "dropped"
  /\ console' = [console EXCEPT ![c] = "gone"]
  /\ registry' = registry \ {c}
  /\ UNCHANGED <<stream, task, work, session, todo, failed, inbox, audience, world, decided,
                 concluded, life, faults>>

\* create_watchlist_entry and deactivate_watchlist_entry
EditWatchlist(w) ==
  /\ watch' = IF w \in watch THEN watch \ {w} ELSE watch \cup {w}
  /\ UNCHANGED <<stream, task, work, session, alerts, now, decided, concluded, life, faults>>

Tick ==
  /\ now < MaxNow
  /\ now' = now + 1
  /\ UNCHANGED <<stream, task, work, session, alerts, watch, decided, concluded, life, faults>>

TaskStep ==
  \/ Start \/ EnsureGroup \/ Read \/ LoadList \/ PassOver \/ Note \/ Flush \/ LookUpCamera
  \/ Send \/ EndBroadcast \/ Commit \/ BrokenCommit \/ Ack

Next ==
  \/ TaskStep
  \/ DatabaseRaises \/ TaskDies \/ ReadFails \/ ProcessStops
  \/ Publish
  \/ \E c \in Consoles : Connect(c) \/ Drop(c) \/ Notice(c)
  \/ \E w \in Entries : EditWatchlist(w)
  \/ Tick

Spec == Init /\ [][Next]_vars

\* The event loop runs the task, round trips that do not fail return, and a
\* connection that takes nothing is closed by its ping timeout.
FairSpec == Spec /\ WF_vars(TaskStep)

-----------------------------------------------------------------------------
\* the number of a read
Reads == 1..Len(reads)

\* Every variable keeps its type.
TypeOK ==
  /\ reads \in Seq(Kinds) /\ Len(reads) <= N
  /\ group \in BOOLEAN
  /\ position \in 0..Len(reads)
  /\ origin \in 0..position
  /\ task \in {"off", "ensure", "read", "list", "process", "flush", "camera", "send", "ack", "dead"}
  /\ held \subseteq 1..position
  /\ batch \subseteq held
  /\ watch \subseteq Entries /\ list \subseteq Entries
  /\ dedup \in [Entries \X Cameras -> Never..now]
  /\ flushed \subseteq held /\ broken \in BOOLEAN
  /\ rows \subseteq concluded /\ concluded \subseteq 1..position
  /\ console \in [Consoles -> {"new", "up", "dropped", "gone"}]
  /\ registry \subseteq Consoles /\ todo \subseteq Consoles /\ failed \subseteq Consoles
  /\ inbox \in [Consoles -> SUBSET Reads]
  /\ now \in 0..MaxNow
  /\ DOMAIN decided \subseteq 1..position /\ DOMAIN audience \subseteq DOMAIN decided
  /\ life \in 0..MaxFaults /\ faults \in 0..MaxFaults

\* A console that was connected when an alert in its scope was broadcast and
\* still is has received it, whichever others failed, came or left meanwhile
\* (alert_dispatcher.py, broadcast).
EveryConsoleTold ==
  \A e \in DOMAIN audience : \A c \in audience[e] :
    console[c] = "up" => e \in inbox[c] \/ (task = "send" /\ Current(e) /\ c \in todo)

\* A match in the table was broadcast before: an alert that failed half way
\* takes its match, and those of its batch, with it.
RecordedWasAnnounced == \A e \in rows : e \in DOMAIN audience

SameAlert(d, e) ==
  /\ decided[d].entry = decided[e].entry
  /\ reads[d].camera = reads[e].camera
  /\ decided[e].at - decided[d].at < Window

\* A hit stays silent only after another of the same entry on the same camera
\* that was announced within the window, or that did not parse; and two hits
\* so close are both announced only across a restart (_RecentAlertCache).
SilenceMeansDuplicate ==
  /\ \A e \in DOMAIN decided \cap concluded :
       decided[e].how = "quiet" =>
         \E d \in DOMAIN decided :
           /\ d < e /\ SameAlert(d, e)
           /\ decided[d].how = "bad" \/ d \in DOMAIN audience
  /\ \A e \in DOMAIN audience, d \in DOMAIN audience :
       d < e /\ SameAlert(d, e) => decided[d].life < decided[e].life

FateOf(e) ==
  CASE e > Len(reads) -> "unpublished"
    [] e <= origin -> "discarded"
    [] e <= Len(reads) /\ e > origin /\ e > position -> "waiting"
    [] e \in concluded -> "stored"
    [] e \in held /\ e \notin concluded -> "inflight"
    [] e > origin /\ e <= position /\ e \notin concluded \cup held -> "lost"

Delivery == INSTANCE EventDelivery WITH
  Malformed <- {}, fate <- [e \in 1..N |-> FateOf(e)]

\* The engine keeps the contract of the other consumers: batches in order,
\* concluded or lost as a whole, and never processed twice.
DeliverySpec == Delivery!Spec

\* A batch that was read is concluded, unless its task dies or the process
\* stops: no console and no read holds up the ones after it.
BatchesEnd == held # {} ~> held = {}

\* "records a WatchlistMatch, and pushes it to any connected alert console"
\* (watchlist_engine.py): once the batch is over, what was broadcast is in the
\* table, where acknowledge_match looks for it.
AnnouncedIsRecorded ==
  \A e \in DOMAIN audience : e \in held \/ e \in rows
=============================================================================
