----------------------- MODULE WatchlistEngine_proofs -----------------------
(***************************************************************************)
(* Proofs about WatchlistEngine, for any number of reads, consoles,        *)
(* entries and failures: whoever is connected is told, nothing is recorded *)
(* that nobody could have been told of, a hit is silent only for a reason, *)
(* and batches are delivered as EventDelivery promises.                    *)
(***************************************************************************)
EXTENDS WatchlistEngine, TLAPS

\* Reads are numbers, so there is one current read.
OrderInv ==
  /\ position \in Nat
  /\ reads \in Seq(Kinds)
  /\ batch \subseteq Nat

\* Nothing is flushed that was not broadcast, but for the read under way, as
\* long as the session can still commit.
RecordInv ==
  /\ broken => task = "process"
  /\ \A e \in rows : e \in DOMAIN audience
  /\ ~broken => \A e \in flushed :
       e \in DOMAIN audience \/ (task = "camera" /\ Current(e))

\* A registered connection was made, and so was one an alert was meant for;
\* a connection that was lost never comes back.
ConsoleInv ==
  /\ console \in [Consoles -> {"new", "up", "dropped", "gone"}]
  /\ inbox \in [Consoles -> SUBSET Nat]
  /\ registry \subseteq Consoles
  /\ \A c \in registry : console[c] # "new"
  /\ \A e \in DOMAIN audience : audience[e] \subseteq Consoles
  /\ \A e \in DOMAIN audience : \A c \in audience[e] : console[c] # "new"
  /\ EveryConsoleTold

IInv == OrderInv /\ RecordInv /\ ConsoleInv

-----------------------------------------------------------------------------
LEMMA InitInv == Init => IInv
<1> SUFFICES ASSUME Init PROVE IInv
  OBVIOUS
<1>1. OrderInv
  BY DEF Init, OrderInv
<1>2. RecordInv
  BY DEF Init, RecordInv
<1>3. ConsoleInv
  BY DEF Init, ConsoleInv, EveryConsoleTold, None
<1> QED
  BY <1>1, <1>2, <1>3 DEF IInv

\* What the server does keeps reads and positions numbers.
LEMMA ServerKeepsOrder ==
  ASSUME OrderInv, CreateGroup \/ Deliver \/ UNCHANGED stream
  PROVE  position' \in Nat /\ reads' \in Seq(Kinds)
<1>1. CASE CreateGroup
  BY <1>1 DEF CreateGroup, OrderInv
<1>2. CASE Deliver
  BY <1>2 DEF Deliver, Available, OrderInv
<1>3. CASE UNCHANGED stream
  BY <1>3 DEF stream, OrderInv
<1> QED
  BY <1>1, <1>2, <1>3

\* A step of any action keeps the order of reads.
LEMMA OrderKept ==
  ASSUME IInv, [Next]_vars
  PROVE  OrderInv'
<1> USE DEF IInv, OrderInv
<1>1. ASSUME UNCHANGED stream, batch' \subseteq batch
      PROVE  OrderInv'
  BY <1>1 DEF stream
<1>2. ASSUME CreateGroup \/ Deliver \/ UNCHANGED stream, batch' \subseteq batch
      PROVE  OrderInv'
  BY <1>2, ServerKeepsOrder
<1>3. CASE Read
  <2>1. Available \subseteq Nat
    BY DEF Available
  <2> QED
    BY <1>3, <2>1, ServerKeepsOrder DEF Read
<1>4. CASE Publish
  BY <1>4 DEF Publish, work
<1>5. CASE Start \/ LoadList \/ PassOver \/ Note \/ Flush \/ LookUpCamera
  BY <1>1, <1>5 DEF Start, LoadList, PassOver, Note, Flush, LookUpCamera, work
<1>6. CASE Send \/ EndBroadcast \/ Commit \/ BrokenCommit \/ Ack \/ DatabaseRaises
  BY <1>1, <1>6 DEF Send, EndBroadcast, Commit, BrokenCommit, Ack, DatabaseRaises, Abandon, work
<1>7. CASE EnsureGroup
  BY <1>2, <1>7 DEF EnsureGroup, work
<1>8. CASE TaskDies \/ ReadFails \/ ProcessStops
  BY <1>2, <1>8 DEF TaskDies, ReadFails, ProcessStops, Effect, Abandon, work, stream
<1>9. CASE Tick \/ (\E w \in Entries : EditWatchlist(w)) \/ UNCHANGED vars
  BY <1>1, <1>9 DEF Tick, EditWatchlist, work, vars
<1>10. CASE \E c \in Consoles : Connect(c) \/ Drop(c) \/ Notice(c)
  BY <1>1, <1>10 DEF Connect, Drop, Notice, work
<1> QED
  BY <1>3, <1>4, <1>5, <1>6, <1>7, <1>8, <1>9, <1>10 DEF Next, TaskStep
-----------------------------------------------------------------------------
\* There is one current read.
LEMMA OneCurrent ==
  ASSUME OrderInv, NEW d \in batch, NEW e \in batch, Current(d), Current(e)
  PROVE  d = e
BY DEF OrderInv, Current

\* A step of any action keeps flushed matches behind the broadcast.
LEMMA RecordKept ==
  ASSUME IInv, [Next]_vars
  PROVE  RecordInv'
<1> USE DEF IInv
<1>1. CASE Start \/ EnsureGroup \/ Read \/ LoadList \/ Ack
  BY <1>1 DEF Start, EnsureGroup, Read, LoadList, Ack, session, alerts, RecordInv
<1>12. CASE ReadFails
  BY <1>12 DEF ReadFails, Effect, alerts, RecordInv, AtCommit
<1>2. CASE PassOver \/ Note
  BY <1>2 DEF PassOver, Note, session, alerts, RecordInv
<1>3. CASE Flush
  BY <1>3 DEF Flush, work, alerts, RecordInv, Current
<1>4. CASE LookUpCamera
  <2>1. PICK e \in batch : Current(e) /\ DOMAIN audience' = DOMAIN audience \cup {e}
    BY <1>4 DEF LookUpCamera
  <2>2. \A d \in flushed : ~broken => d \in DOMAIN audience \cup {e}
    BY <2>1, <1>4, OneCurrent DEF LookUpCamera, RecordInv, Current
  <2> QED
    BY <1>4, <2>1, <2>2 DEF LookUpCamera, session, RecordInv
<1>5. CASE Send \/ EndBroadcast
  BY <1>5 DEF Send, EndBroadcast, session, alerts, RecordInv
<1>6. CASE DatabaseRaises
  BY <1>6 DEF DatabaseRaises, alerts, RecordInv
<1>7. ASSUME CommitMatches, AtCommit, ~broken
      PROVE  \A e \in rows' : e \in DOMAIN audience
  BY <1>7 DEF CommitMatches, AtCommit, RecordInv
<1>8. CASE Commit
  BY <1>7, <1>8 DEF Commit, alerts, AtCommit, RecordInv
<1>9. CASE BrokenCommit \/ TaskDies \/ ProcessStops
  <2>1. \A e \in rows' : e \in DOMAIN audience
    BY <1>7, <1>9 DEF BrokenCommit, TaskDies, ProcessStops, Effect, RecordInv
  <2>2. flushed' = {} /\ broken' = FALSE /\ audience' = audience
    BY <1>9 DEF BrokenCommit, TaskDies, ProcessStops, Abandon, alerts
  <2> QED
    BY <2>1, <2>2 DEF RecordInv
<1>10. CASE Publish \/ Tick \/ (\E w \in Entries : EditWatchlist(w)) \/ UNCHANGED vars
  BY <1>10 DEF Publish, Tick, EditWatchlist, vars, session, alerts, work, RecordInv, Current
<1>11. CASE \E c \in Consoles : Connect(c) \/ Drop(c) \/ Notice(c)
  BY <1>11 DEF Connect, Drop, Notice, session, work, RecordInv, Current
<1> QED
  BY <1>1, <1>2, <1>3, <1>4, <1>5, <1>6, <1>8, <1>9, <1>10, <1>11, <1>12 DEF Next, TaskStep

-----------------------------------------------------------------------------
\* A step of any action keeps the promise to the consoles.
LEMMA ConsoleKept ==
  ASSUME IInv, [Next]_vars
  PROVE  ConsoleInv'
<1> USE DEF IInv
\* no broadcast is under way before or after the step
<1>0. ASSUME UNCHANGED alerts, task # "send"
      PROVE  ConsoleInv'
  BY <1>0 DEF alerts, ConsoleInv, EveryConsoleTold
<1>1. CASE Start \/ EnsureGroup \/ Read \/ LoadList \/ PassOver \/ Note \/ Flush \/ Commit
           \/ BrokenCommit \/ Ack \/ DatabaseRaises \/ TaskDies \/ ReadFails
  BY <1>0, <1>1 DEF Start, EnsureGroup, Read, LoadList, PassOver, Note, Flush, Commit, AtCommit,
                    BrokenCommit, Ack, DatabaseRaises, TaskDies, ReadFails
\* a step of the environment that leaves the alerts and the batch alone
<1>2. CASE Publish \/ Tick \/ (\E w \in Entries : EditWatchlist(w)) \/ UNCHANGED vars
  BY <1>2 DEF Publish, Tick, EditWatchlist, vars, work, alerts, ConsoleInv, EveryConsoleTold, Current
<1>3. CASE LookUpCamera
  <2>1. PICK e \in batch, meant \in SUBSET registry :
          /\ Current(e) /\ todo' = meant
          /\ audience' = [d \in DOMAIN audience \cup {e} |-> IF d = e THEN meant ELSE audience[d]]
    BY <1>3 DEF LookUpCamera
  <2>2. /\ UNCHANGED <<console, registry, inbox, batch>>
        /\ task # "send" /\ task' = "send"
    BY <1>3 DEF LookUpCamera, work
  <2>3. EveryConsoleTold'
    BY <2>1, <2>2 DEF ConsoleInv, EveryConsoleTold, Current
  <2> QED
    BY <2>1, <2>2, <2>3 DEF ConsoleInv
<1>4. CASE Send
  <2>1. PICK c \in todo, e \in batch :
          /\ Current(e)
          /\ todo' = todo \ {c}
          /\ IF console[c] = "up"
             THEN inbox' = [inbox EXCEPT ![c] = @ \cup {e}]
             ELSE inbox' = inbox
    BY <1>4 DEF Send
  <2>2. UNCHANGED <<console, registry, audience, batch, task>> /\ task = "send"
    BY <1>4 DEF Send, work
  <2>3. inbox' \in [Consoles -> SUBSET Nat]
    BY <2>1 DEF ConsoleInv, OrderInv
  <2>4. ASSUME NEW d \in DOMAIN audience, NEW b \in audience[d], console[b] = "up"
        PROVE  d \in inbox'[b] \/ (Current(d) /\ b \in todo')
    <3>1. b \in Consoles /\ (d \in inbox[b] \/ (Current(d) /\ b \in todo))
      BY <2>4 DEF ConsoleInv, EveryConsoleTold
    <3>2. CASE d \in inbox[b]
      BY <2>1, <3>1, <3>2 DEF ConsoleInv
    <3>3. CASE Current(d) /\ b = c
      <4>1. d = e
        BY <2>1, <3>3, OneCurrent DEF Current
      <4> QED
        BY <2>1, <2>4, <3>1, <3>3, <4>1 DEF ConsoleInv
    <3>4. CASE Current(d) /\ b \in todo /\ b # c
      BY <2>1, <3>4
    <3> QED
      BY <3>1, <3>2, <3>3, <3>4
  <2>5. EveryConsoleTold'
    BY <2>2, <2>4 DEF EveryConsoleTold, Current
  <2> QED
    BY <2>2, <2>3, <2>5 DEF ConsoleInv
<1>5. CASE EndBroadcast
  BY <1>5 DEF EndBroadcast, ConsoleInv, EveryConsoleTold
<1>6. CASE ProcessStops
  <2>1. /\ console' = [c \in Consoles |-> IF console[c] = "new" THEN "new" ELSE "gone"]
        /\ registry' = {} /\ UNCHANGED <<inbox, audience>>
    BY <1>6 DEF ProcessStops
  <2> QED
    BY <2>1 DEF ConsoleInv, EveryConsoleTold
<1>7. ASSUME NEW c \in Consoles, Connect(c) \/ Drop(c) \/ Notice(c)
      PROVE  ConsoleInv'
  <2>1. /\ UNCHANGED <<todo, inbox, audience, task, batch>>
        /\ registry' \subseteq registry \cup {c}
        /\ \E how \in {"up", "dropped", "gone"} : console' = [console EXCEPT ![c] = how]
        /\ console'[c] = "up" => console[c] = "new"
    BY <1>7 DEF Connect, Drop, Notice, work, ConsoleInv
  <2>2. \A b \in Consoles : console[b] # "new" /\ console'[b] = "up" => console[b] = "up"
    BY <2>1 DEF ConsoleInv
  <2>3. EveryConsoleTold'
    BY <2>1, <2>2 DEF ConsoleInv, EveryConsoleTold, Current
  <2> QED
    BY <2>1, <2>3 DEF ConsoleInv
<1> QED
  BY <1>1, <1>2, <1>3, <1>4, <1>5, <1>6, <1>7 DEF Next, TaskStep

-----------------------------------------------------------------------------
\* The invariant is inductive.
THEOREM InvariantHolds == Spec => []IInv
<1>1. IInv /\ [Next]_vars => IInv'
  BY OrderKept, RecordKept, ConsoleKept DEF IInv
<1> QED
  BY InitInv, <1>1, PTL DEF Spec

\* A match is in the table only if it was broadcast before, whatever statement,
\* commit or process failed (watchlist_engine.py, run and _process_event).
THEOREM RecordedAlwaysAnnounced == Spec => []RecordedWasAnnounced
<1>1. IInv => RecordedWasAnnounced
  BY DEF IInv, RecordInv, RecordedWasAnnounced
<1> QED
  BY <1>1, InvariantHolds, PTL

\* Every console that was meant to get an alert and is still connected has it,
\* or its turn in the broadcast is to come (alert_dispatcher.py, broadcast).
THEOREM EveryConsoleAlwaysTold == Spec => []EveryConsoleTold
<1>1. IInv => EveryConsoleTold
  BY DEF IInv, ConsoleInv
<1> QED
  BY <1>1, InvariantHolds, PTL
-----------------------------------------------------------------------------
(* The course of a batch *)

Between == {"off", "ensure", "read", "ack", "dead"}
MatchUnderWay == {"flush", "camera", "send"}

\* A batch is held only while it is processed, comes from after the start of the
\* group, and is not concluded yet; a match under way is that of the current read.
FlowInv ==
  /\ TypeOK
  /\ life <= faults
  /\ task \in Between => held = {}
  /\ ~group => task \in {"off", "ensure", "dead"} /\ position = 0
  /\ held \cup concluded \subseteq (origin + 1)..position
  /\ held \cap concluded = {}
  /\ task \in MatchUnderWay =>
       \E e \in batch :
         /\ Current(e)
         /\ e \in DOMAIN decided /\ decided[e].how = "match"
         /\ task = "send" => e \in DOMAIN audience

Decision == [how : {"quiet", "bad", "match"}, entry : Entries, at : 0..now, life : 0..life]

Noted == {d \in DOMAIN decided : decided[d].how \in {"bad", "match"}}

\* what d was decided on is over: it was announced, or did not parse
Settled(d) == d \in DOMAIN audience \/ decided[d].how = "bad"

\* it is settled, or its match is under way, or took the session down with it
Accounted(d) ==
  Settled(d) \/ broken \/ task = "dead" \/ (task \in MatchUnderWay /\ d \in batch)

\* Reads are decided in order.
Ordered ==
  \A d \in DOMAIN decided, b \in batch :
    d < b \/ (d = b /\ Current(b) /\ task \in MatchUnderWay)

\* What the window remembers was noted then, and is accounted for.
Remembered ==
  \A key \in Entries \X Cameras :
    dedup[key] # Never =>
      \E d \in Noted :
        Key(d, decided[d].entry) = key /\ decided[d].at = dedup[key] /\ Accounted(d)

\* It remembers the last of what was noted in this life of the process.
Latest ==
  \A d \in Noted : decided[d].life = life => decided[d].at <= dedup[Key(d, decided[d].entry)]

Justified ==
  \A e \in DOMAIN decided :
    decided[e].how = "quiet" => \E d \in Noted : d < e /\ SameAlert(d, e) /\ Settled(d)

Apart ==
  \A e \in Noted, d \in Noted : d < e /\ SameAlert(d, e) => decided[d].life < decided[e].life

DecisionInv ==
  /\ \A d \in DOMAIN decided : decided[d] \in Decision
  /\ \A d \in DOMAIN audience : decided[d].how = "match"
  /\ Ordered
  /\ Remembered
  /\ Latest
  /\ Justified
  /\ Apart

-----------------------------------------------------------------------------
LEMMA FlowInit == Init => FlowInv
<1> SUFFICES ASSUME Init PROVE FlowInv
  OBVIOUS
<1>1. Never \in Int /\ Never <= 0
  BY EngineAssumption DEF Never
<1>2. TypeOK
  <2>1. /\ dedup \in [Entries \X Cameras -> Never..now]
        /\ console \in [Consoles -> {"new", "up", "dropped", "gone"}]
        /\ inbox \in [Consoles -> SUBSET Reads]
    BY <1>1 DEF Init
  <2>2. reads \in Seq(Kinds) /\ Len(reads) = 0
    BY DEF Init
  <2>3. DOMAIN decided = {} /\ DOMAIN audience = {}
    BY DEF Init, None
  <2>4. now \in 0..MaxNow /\ life \in 0..MaxFaults /\ faults \in 0..MaxFaults /\ 0 <= N
    BY EngineAssumption DEF Init
  <2>5. group \in BOOLEAN /\ broken \in BOOLEAN
    BY DEF Init
  <2> QED
    BY <2>1, <2>2, <2>3, <2>4, <2>5 DEF Init, TypeOK
<1> QED
  BY <1>2 DEF Init, FlowInv, Between, MatchUnderWay

\* What a read can return: reads that come after the position.
LEMMA AvailableFacts ==
  ASSUME TypeOK
  PROVE  Available \subseteq (position + 1)..Len(reads)
BY EngineAssumption DEF TypeOK, Available

\* What the round trips do to the stream.
LEMMA StreamFacts ==
  ASSUME FlowInv, \/ UNCHANGED stream
                  \/ CreateGroup
                  \/ Deliver /\ group
  PROVE  /\ UNCHANGED reads /\ Len(reads) \in Nat
         /\ group' \in BOOLEAN /\ (group => group')
         /\ position' \in position..Len(reads)
         /\ origin' \in 0..position'
         /\ group => origin' = origin
         /\ ~group /\ group' => position' = origin' /\ held \cup concluded = {}
         /\ ~group' => position' = 0
<1>1. Len(reads) \in Nat /\ position \in 0..Len(reads) /\ origin \in 0..position /\ group \in BOOLEAN
  BY DEF FlowInv, TypeOK
<1>2. ~group => held \cup concluded = {}
  BY <1>1 DEF FlowInv
<1>3. CASE UNCHANGED stream
  BY <1>1, <1>2, <1>3 DEF stream, FlowInv
<1>4. CASE CreateGroup
  BY <1>1, <1>2, <1>4 DEF CreateGroup
<1>5. CASE Deliver /\ group
  <2>1. position' \in (position + 1)..Len(reads)
    BY <1>5, AvailableFacts DEF Deliver, FlowInv
  <2> QED
    BY <1>1, <1>5, <2>1 DEF Deliver
<1> QED
  BY <1>3, <1>4, <1>5
\* A step of any action keeps the types.
LEMMA TypeKept ==
  ASSUME FlowInv, [Next]_vars
  PROVE  TypeOK'
<1> USE DEF TypeOK
<1>1. TypeOK
  BY DEF FlowInv
<1>2. group \/ task \notin {"read", "list", "process", "flush", "camera", "send", "ack"}
  BY DEF FlowInv
<1> DEFINE Advance == position' \in position..Len(reads)
<1>20. \A S : Advance /\ S \subseteq 1..position => S \subseteq 1..position'
  BY <1>1
<1>3. CASE Start \/ LoadList \/ Ack
  BY <1>1, <1>3 DEF Start, LoadList, Ack, stream, work, session, alerts, world, Reads
<1>4. CASE EnsureGroup
  <2>1. UNCHANGED reads /\ group' \in BOOLEAN /\ position' \in position..Len(reads) /\ origin' \in 0..position'
    BY <1>4, StreamFacts DEF EnsureGroup
  <2> QED
    BY <1>1, <1>4, <2>1 DEF EnsureGroup, work, session, alerts, world, Reads
<1>5. CASE Read
  <2>1. UNCHANGED <<reads, group, origin>> /\ position' \in position..Len(reads) /\ origin' \in 0..position'
    BY <1>2, <1>5, StreamFacts DEF Read, Deliver
  <2>2. Available \subseteq 1..position'
    BY <1>1, <1>5, AvailableFacts DEF Read, Deliver
  <2>3. DOMAIN decided \subseteq 1..position' /\ concluded \subseteq 1..position' /\ flushed = {}
    BY <1>1, <1>5, <1>20, <2>1 DEF Read, FlowInv, Between
  <2>4. position' \in 0..Len(reads)
    BY <1>1, <2>1
  <2> QED
    BY <1>1, <1>5, <2>1, <2>2, <2>3, <2>4 DEF Read, session, alerts, world, Reads
<1>6. CASE PassOver
  <2>1. PICK e \in batch : batch' = batch \ {e} /\ DOMAIN decided' \subseteq DOMAIN decided \cup {e}
                           /\ DOMAIN decided \subseteq DOMAIN decided'
    BY <1>6 DEF PassOver, Decide
  <2> QED
    BY <1>1, <1>6, <2>1 DEF PassOver, stream, session, alerts, world, Reads
<1>7. CASE Note
  <2>1. PICK e \in batch, w \in Entries :
          /\ dedup' = [dedup EXCEPT ![Key(e, w)] = now]
          /\ batch' \subseteq batch
          /\ DOMAIN decided' = DOMAIN decided \cup {e}
    BY <1>7 DEF Note, Decide
  <2>2. now \in Never..now
    BY <1>1, EngineAssumption DEF Never
  <2>3. dedup' \in [Entries \X Cameras -> Never..now]
    BY <1>1, <2>1, <2>2
  <2>4. task' \in {"process", "flush"}
    BY <1>7 DEF Note
  <2> QED
    BY <1>1, <1>7, <2>1, <2>3, <2>4 DEF Note, stream, session, alerts, world, Reads
<1>8. CASE Flush
  BY <1>1, <1>8 DEF Flush, stream, work, alerts, world, Reads
<1>9. CASE LookUpCamera
  <2>1. PICK e \in batch : Current(e) /\ todo' \subseteq registry /\ DOMAIN audience' = DOMAIN audience \cup {e}
    BY <1>9 DEF LookUpCamera
  <2>2. PICK f \in batch : Current(f) /\ f \in DOMAIN decided
    BY <1>9 DEF LookUpCamera, FlowInv, MatchUnderWay
  <2>3. OrderInv
    BY <1>1 DEF OrderInv
  <2>4. e = f
    BY <2>1, <2>2, <2>3, OneCurrent
  <2> QED
    BY <1>1, <1>9, <2>1, <2>2, <2>4 DEF LookUpCamera, stream, work, session, world, Reads
<1>10. CASE Send
  <2>1. PICK c \in todo, e \in batch :
          /\ todo' \subseteq todo /\ failed' \subseteq failed \cup {c}
          /\ \/ inbox' = [inbox EXCEPT ![c] = @ \cup {e}]
             \/ inbox' = inbox
    BY <1>10 DEF Send
  <2>2. e \in Reads
    BY <1>1, <2>1 DEF Reads
  <2>3. inbox' \in [Consoles -> SUBSET Reads]
    BY <1>1, <2>1, <2>2
  <2>4. todo' \subseteq Consoles /\ failed' \subseteq Consoles
    BY <1>1, <2>1
  <2>5. UNCHANGED <<stream, task, work, session, console, registry, audience, world, decided,
                    concluded, life, faults>>
    BY <1>10 DEF Send
  <2> QED
    BY <1>1, <2>3, <2>4, <2>5 DEF stream, work, session, world, Reads
<1>11. CASE EndBroadcast \/ Commit \/ BrokenCommit \/ DatabaseRaises
  <2>1. batch' \subseteq held' /\ held' \subseteq held /\ flushed' \subseteq held'
    BY <1>1, <1>11 DEF EndBroadcast, Commit, BrokenCommit, DatabaseRaises, Abandon, AtCommit, session
  <2>2. /\ broken' \in BOOLEAN
        /\ task' \in {"process", "ack", "dead"}
        /\ registry' \subseteq registry
        /\ faults' \in 0..MaxFaults
    <3>1. CASE EndBroadcast \/ Commit \/ BrokenCommit
      BY <1>1, <3>1 DEF EndBroadcast, Commit, BrokenCommit, Abandon, session, alerts
    <3>2. CASE DatabaseRaises
      BY <1>1, <3>2, EngineAssumption DEF DatabaseRaises, Fault, alerts
    <3> QED
      BY <1>11, <3>1, <3>2
  <2>3. rows' \subseteq concluded' /\ concluded' \subseteq concluded \cup held
    BY <1>1, <1>11 DEF EndBroadcast, Commit, BrokenCommit, DatabaseRaises, CommitMatches, session
  <2>4. UNCHANGED <<stream, list, dedup, console, todo, failed, inbox, audience, world, decided, life>>
    BY <1>11 DEF EndBroadcast, Commit, BrokenCommit, DatabaseRaises, alerts
  <2> QED
    BY <1>1, <2>1, <2>2, <2>3, <2>4 DEF stream, world, Reads
<1>12. ASSUME Effect
       PROVE  /\ UNCHANGED reads /\ group' \in BOOLEAN
              /\ position' \in 0..Len(reads) /\ origin' \in 0..position'
              /\ DOMAIN decided \subseteq 1..position' /\ held \subseteq 1..position'
              /\ rows' \subseteq concluded' /\ concluded' \subseteq 1..position'
  <2>1. /\ UNCHANGED reads /\ group' \in BOOLEAN
        /\ position' \in position..Len(reads) /\ origin' \in 0..position'
        /\ rows' \subseteq concluded' /\ concluded' \subseteq concluded \cup held
    BY <1>1, <1>2, <1>12, StreamFacts DEF Effect, CommitMatches
  <2>2. position' \in 0..Len(reads)
    BY <1>1, <2>1
  <2>3. DOMAIN decided \subseteq 1..position' /\ held \cup concluded \subseteq 1..position'
    BY <1>1, <1>20, <2>1
  <2> QED
    BY <2>1, <2>2, <2>3
<1>13. CASE ReadFails \/ TaskDies
  <2>1. batch' \subseteq held' /\ held' \subseteq held /\ flushed' \subseteq held'
        /\ broken' \in BOOLEAN /\ task' \in {"read", "dead"}
    BY <1>1, <1>13 DEF ReadFails, TaskDies, Abandon, work
  <2>2. UNCHANGED <<list, dedup, alerts, world, decided, life>> /\ Effect
    BY <1>13 DEF ReadFails, TaskDies, work
  <2>3. faults' \in 0..MaxFaults
    BY <1>1, <1>13, EngineAssumption DEF ReadFails, TaskDies, Fault
  <2>4. held' \subseteq 1..position'
    BY <1>12, <2>1, <2>2
  <2> QED
    BY <1>1, <1>12, <2>1, <2>2, <2>3, <2>4 DEF alerts, world, Reads
<1>14. CASE ProcessStops
  <2>1. /\ dedup' \in [Entries \X Cameras -> Never..now]
        /\ console' \in [Consoles -> {"new", "up", "dropped", "gone"}]
    BY <1>1, <1>14, EngineAssumption DEF ProcessStops, Never
  <2>2. faults' \in 0..MaxFaults
    BY <1>1, <1>14, EngineAssumption DEF ProcessStops, Fault
  <2>3. life' \in 0..MaxFaults
    BY <1>1, <1>14, EngineAssumption DEF ProcessStops, Fault, FlowInv
  <2>4. /\ Effect
        /\ batch' = {} /\ held' = {} /\ flushed' = {} /\ broken' = FALSE /\ task' = "off"
        /\ registry' = {} /\ todo' = {} /\ failed' = {}
        /\ UNCHANGED <<list, inbox, audience, watch, now, decided>>
    BY <1>14 DEF ProcessStops, Abandon, world
  <2> QED
    BY <1>1, <1>12, <2>1, <2>2, <2>3, <2>4 DEF Reads
<1>15. CASE Publish
  <2>1. PICK k \in Kinds : reads' = Append(reads, k)
    BY <1>15 DEF Publish
  <2>2. reads' \in Seq(Kinds) /\ Len(reads') = Len(reads) + 1 /\ Len(reads) \in Nat /\ Len(reads') <= N
    BY <1>1, <1>15, <2>1, EngineAssumption DEF Publish
  <2>3. position \in 0..Len(reads') /\ inbox \in [Consoles -> SUBSET Reads']
    BY <1>1, <2>2 DEF Reads
  <2> QED
    BY <1>1, <1>15, <2>2, <2>3 DEF Publish, work, session, alerts, world
<1>18. CASE Tick
  <2>1. now' \in 0..MaxNow /\ now' = now + 1
    BY <1>1, <1>18, EngineAssumption DEF Tick
  <2>2. \A t \in Never..now : t \in Never..now'
    BY <1>1, <2>1, EngineAssumption DEF Never
  <2>3. dedup \in [Entries \X Cameras -> Never..now']
    BY <1>1, <2>2
  <2> QED
    BY <1>1, <1>18, <2>1, <2>3 DEF Tick, stream, work, session, alerts, Reads
<1>16. CASE \E c \in Consoles : Connect(c) \/ Drop(c) \/ Notice(c)
  BY <1>1, <1>16 DEF Connect, Drop, Notice, stream, work, session, world, Reads
<1>17. CASE (\E w \in Entries : EditWatchlist(w)) \/ UNCHANGED vars
  BY <1>1, <1>17 DEF EditWatchlist, vars, stream, work, session, alerts, world, Reads
<1> QED
  BY <1>3, <1>4, <1>5, <1>6, <1>7, <1>8, <1>9, <1>10, <1>11, <1>13, <1>14, <1>15, <1>16, <1>17, <1>18
     DEF Next, TaskStep
\* A step of any action keeps the course of the batch.
LEMMA FlowKept ==
  ASSUME FlowInv, [Next]_vars
  PROVE  FlowInv'
<1> USE DEF FlowInv, Between, MatchUnderWay
<1>1. TypeOK /\ TypeOK'
  BY TypeKept
<1>2. /\ Len(reads) \in Nat /\ position \in 0..Len(reads) /\ origin \in 0..position
      /\ life \in Nat /\ faults \in Nat
  BY <1>1 DEF TypeOK
<1>3. life' <= faults'
  BY <1>2 DEF Next, TaskStep, Start, EnsureGroup, Read, LoadList, PassOver, Note, Flush, LookUpCamera,
              Send, EndBroadcast, Commit, BrokenCommit, Ack, DatabaseRaises, TaskDies, ReadFails,
              ProcessStops, Fault, Publish, Connect, Drop, Notice, EditWatchlist, Tick, vars
\* where nothing is held afterwards, the stream is all there is to look at
<1>4. ASSUME \/ UNCHANGED stream
             \/ CreateGroup
             \/ Deliver /\ group,
             held' = {}, task' \in Between,
             group \/ group' \/ task' \in {"off", "ensure", "dead"},
             concluded' \subseteq concluded \cup held
      PROVE  FlowInv'
  <2>1. /\ group => group' /\ origin' = origin
        /\ position' \in position..Len(reads)
        /\ ~group /\ group' => held \cup concluded = {}
        /\ ~group' => position' = 0
    BY <1>4, StreamFacts
  <2>2. concluded' \subseteq (origin' + 1)..position'
    <3>1. group \in BOOLEAN /\ group' \in BOOLEAN
      BY <1>1 DEF TypeOK
    <3>2. CASE group
      BY <1>2, <1>4, <2>1, <3>2
    <3>3. CASE ~group /\ group'
      BY <1>4, <2>1, <3>3
    <3>4. CASE ~group /\ ~group'
      BY <1>2, <1>4, <2>1, <3>4
    <3> QED
      BY <3>1, <3>2, <3>3, <3>4
  <2> QED
    BY <1>1, <1>3, <1>4, <2>1, <2>2
<1>5. CASE Start \/ EnsureGroup \/ Ack \/ BrokenCommit \/ Commit \/ ReadFails \/ TaskDies \/ ProcessStops
  <2>1. CASE Start \/ EnsureGroup \/ Ack
    BY <1>4, <2>1 DEF Start, EnsureGroup, CreateGroup, Ack, work
  <2>2. CASE BrokenCommit \/ Commit
    BY <1>4, <2>2 DEF BrokenCommit, Commit, CommitMatches, Abandon, AtCommit
  <2>3. ASSUME Effect
        PROVE  /\ UNCHANGED stream \/ CreateGroup \/ (Deliver /\ group)
               /\ concluded' \subseteq concluded \cup held
    BY <2>3 DEF Effect, CommitMatches
  <2>4. CASE ReadFails
    BY <1>4, <2>3, <2>4 DEF ReadFails, work
  <2>5. CASE TaskDies \/ ProcessStops
    BY <1>4, <2>3, <2>5 DEF TaskDies, ProcessStops, Abandon
  <2> QED
    BY <1>5, <2>1, <2>2, <2>4, <2>5
<1>6. CASE Read
  <2>1. /\ Available \subseteq (position + 1)..Len(reads) /\ held' = Available /\ task' = "list"
        /\ position' \in Available /\ \A e \in Available : e <= position'
        /\ UNCHANGED <<group, origin, concluded>> /\ group
    BY <1>1, <1>6, AvailableFacts DEF Read, Deliver
  <2>2. held' \cup concluded' \subseteq (origin' + 1)..position'
    <3>1. held' \subseteq (origin + 1)..position'
      BY <1>2, <2>1
    <3>2. concluded \subseteq (origin + 1)..position
      OBVIOUS
    <3>3. position' > position /\ position' \in Nat
      BY <1>2, <2>1
    <3> QED
      BY <1>2, <2>1, <3>1, <3>2, <3>3
  <2>3. held' \cap concluded' = {}
    BY <1>2, <2>1
  <2> QED
    BY <1>1, <1>3, <2>1, <2>2, <2>3
\* no action that stays within a batch touches the stream or what is concluded
<1>7. ASSUME UNCHANGED <<group, position, origin, held, concluded>>,
             task \notin Between, task' \notin Between,
             task' \in MatchUnderWay =>
               \E e \in batch' :
                 /\ Current(e)'
                 /\ e \in DOMAIN decided' /\ decided'[e].how = "match"
                 /\ task' = "send" => e \in DOMAIN audience'
      PROVE  FlowInv'
  BY <1>1, <1>3, <1>7
<1>8. CASE LoadList \/ PassOver \/ EndBroadcast \/ DatabaseRaises
  BY <1>7, <1>8 DEF LoadList, PassOver, EndBroadcast, DatabaseRaises, stream, session
<1>9. CASE Note
  <2>1. PICK e \in batch, w \in Entries :
          /\ Current(e)
          /\ IF reads[e].bad
             THEN task' = task
             ELSE task' = "flush" /\ Decide(e, w, "match") /\ UNCHANGED batch
    BY <1>9 DEF Note
  <2>2. CASE reads[e].bad
    BY <1>7, <1>9, <2>1, <2>2 DEF Note, stream
  <2>3. CASE ~reads[e].bad
    <3>1. e \in batch' /\ Current(e)'
      BY <2>1, <2>3 DEF Current
    <3>2. e \in DOMAIN decided' /\ decided'[e].how = "match"
      BY <2>1, <2>3 DEF Decide
    <3> QED
      BY <1>7, <1>9, <2>1, <2>3, <3>1, <3>2 DEF Note, stream
  <2> QED
    BY <2>2, <2>3
<1>10. CASE Flush \/ LookUpCamera \/ Send
  <2>1. UNCHANGED <<group, position, origin, held, concluded, batch, decided>>
    BY <1>10 DEF Flush, LookUpCamera, Send, stream, work
  <2>2. task \in MatchUnderWay /\ task' \in MatchUnderWay
    BY <1>10 DEF Flush, LookUpCamera, Send
  <2>3. PICK e \in batch :
          /\ Current(e)
          /\ e \in DOMAIN decided /\ decided[e].how = "match"
          /\ task = "send" => e \in DOMAIN audience
    BY <2>2
  <2>4. task' = "send" => e \in DOMAIN audience'
    <3>1. CASE Flush \/ Send
      BY <2>3, <3>1 DEF Flush, Send
    <3>2. CASE LookUpCamera
      <4>1. PICK f \in batch : Current(f) /\ DOMAIN audience' = DOMAIN audience \cup {f}
        BY <3>2 DEF LookUpCamera
      <4>2. OrderInv
        BY <1>1 DEF TypeOK, OrderInv
      <4>3. e = f
        BY <2>3, <4>1, <4>2, OneCurrent
      <4> QED
        BY <4>1, <4>3
    <3> QED
      BY <1>10, <3>1, <3>2
  <2>5. Current(e)' /\ e \in batch'
    BY <2>1, <2>3 DEF Current
  <2> QED
    BY <1>7, <2>1, <2>2, <2>3, <2>4, <2>5
<1>11. ASSUME UNCHANGED <<group, position, origin, held, concluded, batch, decided, audience, task>>
       PROVE  FlowInv'
  BY <1>1, <1>3, <1>11 DEF Current
<1>12. CASE Publish \/ Tick \/ (\E w \in Entries : EditWatchlist(w)) \/ UNCHANGED vars
  BY <1>11, <1>12 DEF Publish, Tick, EditWatchlist, vars, stream, work, alerts
<1>13. CASE \E c \in Consoles : Connect(c) \/ Drop(c) \/ Notice(c)
  BY <1>11, <1>13 DEF Connect, Drop, Notice, stream, work
<1> QED
  BY <1>5, <1>6, <1>8, <1>9, <1>10, <1>12, <1>13 DEF Next, TaskStep
-----------------------------------------------------------------------------
(* What was decided *)

LEMMA DecisionInit == Init => DecisionInv
<1> SUFFICES ASSUME Init PROVE DecisionInv
  OBVIOUS
<1>1. DOMAIN decided = {} /\ DOMAIN audience = {}
  BY DEF Init, None
<1>2. \A key \in Entries \X Cameras : dedup[key] = Never
  BY DEF Init
<1> QED
  BY <1>1, <1>2 DEF DecisionInv, Ordered, Remembered, Latest, Justified, Apart, Noted

\* A step that decides nothing, and forgets nothing.
LEMMA DecisionFrame ==
  ASSUME FlowInv, DecisionInv, UNCHANGED <<decided, dedup, life>>,
         \A d \in DOMAIN decided : reads'[d] = reads[d],
         now' \in Int, now <= now',
         DOMAIN audience \subseteq DOMAIN audience',
         \A d \in DOMAIN audience' : decided[d].how = "match",
         \A d \in DOMAIN decided : Accounted(d) => Accounted(d)',
         Ordered'
  PROVE  DecisionInv'
<1>1. \A d \in DOMAIN decided : decided[d] \in Decision
  BY DEF DecisionInv
<1>2. 0..now \subseteq 0..now'
  BY DEF FlowInv, TypeOK
<1>3. \A d \in DOMAIN decided : decided[d] \in Decision'
  BY <1>1, <1>2 DEF Decision
<1>4. /\ Noted' = Noted /\ Noted \subseteq DOMAIN decided
      /\ \A d \in DOMAIN decided : Settled(d) => Settled(d)'
      /\ \A d \in DOMAIN decided : Key(d, decided[d].entry)' = Key(d, decided[d].entry)
      /\ \A d, e \in DOMAIN decided : SameAlert(d, e)' = SameAlert(d, e)
  BY DEF Noted, Settled, Key, SameAlert
<1>5. Remembered'
  BY <1>4 DEF DecisionInv, Remembered
<1>6. Latest'
  BY <1>4 DEF DecisionInv, Latest
<1>7. Justified'
  BY <1>4 DEF DecisionInv, Justified
<1>8. Apart'
  BY <1>4 DEF DecisionInv, Apart
<1> QED
  BY <1>3, <1>5, <1>6, <1>7, <1>8 DEF DecisionInv

\* Deciding on the current read is deciding on a new one, after all others.
LEMMA DecideFacts ==
  ASSUME FlowInv, DecisionInv, task = "process",
         NEW e \in batch, Current(e), NEW w \in Entries, NEW how \in {"quiet", "bad", "match"},
         Decide(e, w, how), UNCHANGED <<reads, audience, now, life>>
  PROVE  /\ DOMAIN decided' = DOMAIN decided \cup {e}
         /\ decided'[e] = [how |-> how, entry |-> w, at |-> now, life |-> life]
         /\ \A d \in DOMAIN decided : d < e /\ d # e /\ decided'[d] = decided[d]
         /\ \A d \in DOMAIN decided : Settled(d)' = Settled(d)
         /\ \A d \in DOMAIN decided : Key(d, decided[d].entry)' = Key(d, decided[d].entry)
         /\ Key(e, decided[e].entry)' = Key(e, w)
         /\ \A d, f \in DOMAIN decided : SameAlert(d, f)' = SameAlert(d, f)
         /\ \A d \in DOMAIN decided :
              SameAlert(d, e)' <=> Key(d, decided[d].entry) = Key(e, w) /\ now - decided[d].at < Window
         /\ \A d \in DOMAIN decided' : decided'[d] \in Decision'
         /\ \A d \in DOMAIN audience' : d \in DOMAIN decided /\ decided'[d].how = "match"
<1>1. e \in Int
  BY DEF FlowInv, TypeOK
<1>2. \A d \in DOMAIN decided : d < e
  BY DEF DecisionInv, Ordered, MatchUnderWay
<1>3. \A d \in DOMAIN decided : d # e
  BY <1>1, <1>2
<1>4. /\ DOMAIN decided' = DOMAIN decided \cup {e}
      /\ decided'[e] = [how |-> how, entry |-> w, at |-> now, life |-> life]
      /\ \A d \in DOMAIN decided : decided'[d] = decided[d]
  BY <1>3 DEF Decide
<1>5. \A d \in DOMAIN decided : Settled(d)' = Settled(d)
  BY <1>4 DEF Settled
<1>6. \A d \in DOMAIN decided : Key(d, decided[d].entry)' = Key(d, decided[d].entry)
  BY <1>4 DEF Key
<1>7. Key(e, decided[e].entry)' = Key(e, w)
  BY <1>4 DEF Key
<1>8. \A d, f \in DOMAIN decided : SameAlert(d, f)' = SameAlert(d, f)
  BY <1>4 DEF SameAlert
<1>9. \A d \in DOMAIN decided :
        SameAlert(d, e)' <=> Key(d, decided[d].entry) = Key(e, w) /\ now - decided[d].at < Window
  BY <1>4 DEF SameAlert, Key
<1>10. \A d \in DOMAIN decided' : decided'[d] \in Decision'
  <2>1. now \in 0..now /\ life \in 0..life
    BY DEF FlowInv, TypeOK
  <2>2. decided'[e] \in Decision'
    BY <1>4, <2>1 DEF Decision
  <2>3. \A d \in DOMAIN decided : decided'[d] \in Decision'
    BY <1>4 DEF DecisionInv, Decision
  <2> QED
    BY <1>4, <2>2, <2>3
<1>11. \A d \in DOMAIN audience' : d \in DOMAIN decided /\ decided'[d].how = "match"
  BY <1>4 DEF DecisionInv, FlowInv, TypeOK
<1> QED
  BY <1>2, <1>3, <1>4, <1>5, <1>6, <1>7, <1>8, <1>9, <1>10, <1>11

\* A hit that stays silent has its reason.
LEMMA QuietKept ==
  ASSUME FlowInv, DecisionInv, task = "process", ~broken,
         NEW e \in batch, Current(e), NEW w \in Entries, ~ShouldAlert(e, w), reads[e].camera \in Cameras,
         Decide(e, w, "quiet"), batch' = batch \ {e},
         UNCHANGED <<reads, audience, now, life, dedup, task, broken>>
  PROVE  DecisionInv'
<1> DEFINE F == DOMAIN decided
<1>1. /\ DOMAIN decided' = F \cup {e}
      /\ decided'[e] = [how |-> "quiet", entry |-> w, at |-> now, life |-> life]
      /\ \A d \in F : d < e /\ d # e /\ decided'[d] = decided[d]
      /\ \A d \in F : Settled(d)' = Settled(d)
      /\ \A d \in F : Key(d, decided[d].entry)' = Key(d, decided[d].entry)
      /\ \A d, f \in F : SameAlert(d, f)' = SameAlert(d, f)
      /\ \A d \in F :
           SameAlert(d, e)' <=> Key(d, decided[d].entry) = Key(e, w) /\ now - decided[d].at < Window
      /\ \A d \in DOMAIN decided' : decided'[d] \in Decision'
      /\ \A d \in DOMAIN audience' : d \in F /\ decided'[d].how = "match"
  BY DecideFacts
<1>2. Noted' = Noted /\ Noted \subseteq F
  BY <1>1 DEF Noted
<1>3. /\ Key(e, w) \in Entries \X Cameras
      /\ now \in Int /\ Window \in Int /\ Never = 0 - Window /\ now >= 0
      /\ batch \subseteq Int
  <2>1. Key(e, w) \in Entries \X Cameras
    BY DEF Key
  <2>2. now \in Int /\ now >= 0 /\ batch \subseteq Int
    BY EngineAssumption DEF FlowInv, TypeOK
  <2> QED
    BY <2>1, <2>2, EngineAssumption DEF Never
<1>4. dedup[Key(e, w)] # Never /\ now - dedup[Key(e, w)] < Window
  <2>1. dedup[Key(e, w)] \in Int
    BY <1>3 DEF FlowInv, TypeOK
  <2>2. now - dedup[Key(e, w)] < Window
    BY <1>3, <2>1 DEF ShouldAlert
  <2> QED
    BY <1>3, <2>1, <2>2
<1>5. PICK g \in Noted :
        Key(g, decided[g].entry) = Key(e, w) /\ decided[g].at = dedup[Key(e, w)] /\ Accounted(g)
  BY <1>3, <1>4 DEF DecisionInv, Remembered
<1>6. Settled(g)
  BY <1>5 DEF Accounted, MatchUnderWay
<1>7. g \in Noted' /\ g < e /\ SameAlert(g, e)' /\ Settled(g)'
  BY <1>1, <1>2, <1>4, <1>5, <1>6
<1>8. Justified'
  <2>1. ASSUME NEW f \in F, decided[f].how = "quiet"
        PROVE  \E c \in Noted' : c < f /\ SameAlert(c, f)' /\ Settled(c)'
    BY <1>1, <1>2, <2>1 DEF DecisionInv, Justified
  <2> QED
    BY <1>1, <1>7, <2>1 DEF Justified
<1>9. Ordered'
  <2>1. \A b \in batch' : e < b
    BY <1>3 DEF Current
  <2>2. \A d \in F, b \in batch' : d < b
    BY DEF DecisionInv, Ordered, MatchUnderWay
  <2> QED
    BY <1>1, <2>1, <2>2 DEF Ordered
<1>10. Remembered'
  <2>1. \A c \in Noted : Accounted(c) => Accounted(c)'
    BY <1>1, <1>2 DEF Accounted, MatchUnderWay
  <2> QED
    BY <1>1, <1>2, <2>1 DEF DecisionInv, Remembered
<1>11. Latest'
  BY <1>1, <1>2 DEF DecisionInv, Latest
<1>12. Apart'
  BY <1>1, <1>2 DEF DecisionInv, Apart
<1> QED
  BY <1>1, <1>8, <1>9, <1>10, <1>11, <1>12 DEF DecisionInv

\* An alert that is noted is far enough from those noted before.
LEMMA NoteKept ==
  ASSUME FlowInv, DecisionInv, task = "process", ~broken,
         NEW e \in batch, Current(e), NEW w \in Entries, ShouldAlert(e, w), reads[e].camera \in Cameras,
         NEW how \in {"bad", "match"}, Decide(e, w, how),
         dedup' = [dedup EXCEPT ![Key(e, w)] = now],
         \/ how = "bad" /\ batch' = batch \ {e} /\ task' = task
         \/ how = "match" /\ batch' = batch /\ task' = "flush",
         UNCHANGED <<reads, audience, now, life, broken>>
  PROVE  DecisionInv'
<1> DEFINE F == DOMAIN decided
<1>1. /\ DOMAIN decided' = F \cup {e}
      /\ decided'[e] = [how |-> how, entry |-> w, at |-> now, life |-> life]
      /\ \A d \in F : d < e /\ d # e /\ decided'[d] = decided[d]
      /\ \A d \in F : Settled(d)' = Settled(d)
      /\ \A d \in F : Key(d, decided[d].entry)' = Key(d, decided[d].entry)
      /\ Key(e, decided[e].entry)' = Key(e, w)
      /\ \A d, f \in F : SameAlert(d, f)' = SameAlert(d, f)
      /\ \A d \in F :
           SameAlert(d, e)' <=> Key(d, decided[d].entry) = Key(e, w) /\ now - decided[d].at < Window
      /\ \A d \in DOMAIN decided' : decided'[d] \in Decision'
      /\ \A d \in DOMAIN audience' : d \in F /\ decided'[d].how = "match"
  BY DecideFacts
<1>2. Noted' = Noted \cup {e} /\ Noted \subseteq F
  BY <1>1 DEF Noted
<1>3. /\ Key(e, w) \in Entries \X Cameras
      /\ now \in Int /\ Window \in Int /\ life \in Int
      /\ batch \subseteq Int
      /\ dedup \in [Entries \X Cameras -> Int]
      /\ \A key \in Entries \X Cameras : dedup[key] <= now
  BY EngineAssumption DEF Key, FlowInv, TypeOK, Never
<1>4. /\ dedup'[Key(e, w)] = now
      /\ \A key \in Entries \X Cameras : key # Key(e, w) => dedup'[key] = dedup[key]
  BY <1>3
<1>5. \A d \in F : decided[d].at \in Int /\ decided[d].at <= now /\ decided[d].life \in Int /\ decided[d].life <= life
  <2>1. \A t \in 0..now : t \in Int /\ t <= now
    BY <1>3
  <2>2. \A l \in 0..life : l \in Int /\ l <= life
    BY <1>3
  <2> QED
    BY <2>1, <2>2 DEF DecisionInv, Decision
<1>6. \A d \in Noted : Accounted(d) => Settled(d)
  BY DEF Accounted, MatchUnderWay
<1>7. Ordered'
  <2>0. batch' \subseteq batch
    OBVIOUS
  <2>1. ASSUME NEW b \in batch', b # e
        PROVE  e < b
    BY <1>3, <2>0, <2>1 DEF Current
  <2>2. \A d \in F, b \in batch' : d < b
    BY DEF DecisionInv, Ordered, MatchUnderWay
  <2>3. e \in batch' => Current(e)' /\ task' \in MatchUnderWay
    BY DEF Current, MatchUnderWay
  <2> QED
    BY <1>1, <2>1, <2>2, <2>3 DEF Ordered
<1>8. Remembered'
  <2>1. Accounted(e)'
    BY <1>1 DEF Accounted, Settled, MatchUnderWay
  <2>2. ASSUME NEW key \in Entries \X Cameras, key # Key(e, w), dedup'[key] # Never
        PROVE  \E d \in Noted' :
                 Key(d, decided[d].entry)' = key /\ decided'[d].at = dedup'[key] /\ Accounted(d)'
    <3>1. PICK d \in Noted :
            Key(d, decided[d].entry) = key /\ decided[d].at = dedup[key] /\ Accounted(d)
      BY <1>4, <2>2 DEF DecisionInv, Remembered
    <3>2. Accounted(d)'
      BY <1>1, <1>2, <1>6, <3>1 DEF Accounted
    <3> QED
      BY <1>1, <1>2, <1>4, <2>2, <3>1, <3>2
  <2>3. e \in Noted' /\ Key(e, decided[e].entry)' = Key(e, w) /\ decided'[e].at = dedup'[Key(e, w)]
    BY <1>1, <1>2, <1>4
  <2> QED
    BY <2>1, <2>2, <2>3 DEF Remembered
<1>9. Latest'
  <2>1. ASSUME NEW d \in Noted, decided[d].life = life
        PROVE  decided'[d].at <= dedup'[Key(d, decided[d].entry)]
    <3>1. decided'[d].at = decided[d].at /\ decided[d].at <= now
      BY <1>1, <1>2, <1>5
    <3>2. CASE Key(d, decided[d].entry) = Key(e, w)
      BY <1>4, <3>1, <3>2
    <3>3. CASE Key(d, decided[d].entry) # Key(e, w)
      <4>1. dedup'[Key(d, decided[d].entry)] = dedup[Key(d, decided[d].entry)]
        BY <3>3
      <4> QED
        BY <2>1, <3>1, <4>1 DEF DecisionInv, Latest
    <3> QED
      BY <3>2, <3>3
  <2>2. decided'[e].at <= dedup'[Key(e, w)]
    BY <1>1, <1>3, <1>4
  <2> QED
    BY <1>1, <1>2, <2>1, <2>2 DEF Latest
<1>10. Justified'
  BY <1>1, <1>2 DEF DecisionInv, Justified
<1>11. Apart'
  <2>1. ASSUME NEW d \in Noted, SameAlert(d, e)'
        PROVE  decided[d].life < life
    <3>1. Key(d, decided[d].entry) = Key(e, w) /\ now - decided[d].at < Window /\ d \in F
      BY <1>1, <1>2, <2>1
    <3>2. dedup[Key(e, w)] < decided[d].at
      BY <1>3, <1>5, <3>1 DEF ShouldAlert
    <3>3. decided[d].life # life
      BY <1>3, <1>5, <3>1, <3>2 DEF DecisionInv, Latest
    <3> QED
      BY <1>3, <1>5, <3>1, <3>3
  <2>2. \A d \in Noted : ~(e < d)
    <3>1. F \subseteq Int
      BY DEF FlowInv, TypeOK
    <3> QED
      BY <1>1, <1>2, <1>3, <3>1
  <2>3. ~(e < e)
    BY <1>3
  <2>4. ASSUME NEW d \in Noted, NEW f \in Noted, d < f, SameAlert(d, f)'
        PROVE  decided'[d].life < decided'[f].life
    BY <1>1, <1>2, <2>4 DEF DecisionInv, Apart
  <2> QED
    BY <1>1, <1>2, <2>1, <2>2, <2>3, <2>4 DEF Apart
<1> QED
  BY <1>1, <1>7, <1>8, <1>9, <1>10, <1>11 DEF DecisionInv
\* A process that stops forgets what it noted, and starts another life.
LEMMA RestartKept ==
  ASSUME FlowInv, DecisionInv, ProcessStops
  PROVE  DecisionInv'
<1>1. /\ UNCHANGED <<reads, decided, audience, now>> /\ batch' = {} /\ life' = life + 1
      /\ \A key \in Entries \X Cameras : dedup'[key] = Never
  BY DEF ProcessStops, Effect, Abandon, CreateGroup, Deliver, stream, world
<1>2. life \in Int /\ now \in Int
  BY DEF FlowInv, TypeOK
<1>3. \A d \in DOMAIN decided : decided[d] \in Decision' /\ decided[d].life # life + 1
  <2>1. 0..life \subseteq 0..(life + 1) /\ life + 1 \notin 0..life
    BY <1>2
  <2> QED
    BY <1>1, <2>1 DEF DecisionInv, Decision
<1>4. /\ Noted' = Noted /\ Noted \subseteq DOMAIN decided
      /\ \A d \in DOMAIN decided : Settled(d)' = Settled(d)
      /\ \A d, e \in DOMAIN decided : SameAlert(d, e)' = SameAlert(d, e)
  BY <1>1 DEF Noted, Settled, SameAlert
<1>5. Ordered' /\ Remembered'
  BY <1>1 DEF Ordered, Remembered
<1>6. Latest'
  BY <1>1, <1>3, <1>4 DEF Latest
<1>7. Justified' /\ Apart'
  BY <1>1, <1>4 DEF DecisionInv, Justified, Apart
<1> QED
  BY <1>1, <1>3, <1>5, <1>6, <1>7 DEF DecisionInv

\* A step of any action keeps the decisions justified.
LEMMA DecisionKept ==
  ASSUME FlowInv, FlowInv', RecordInv, DecisionInv, [Next]_vars
  PROVE  DecisionInv'
<1> USE DEF MatchUnderWay
<1>1. /\ now \in Int /\ batch \subseteq Int /\ DOMAIN decided \subseteq 1..Len(reads) /\ Len(reads) \in Nat
      /\ reads \in Seq(Kinds) /\ position \in Int
  <2>1. reads \in Seq(Kinds) /\ now \in Int /\ position \in 0..Len(reads) /\ DOMAIN decided \subseteq 1..position
    BY DEF FlowInv, TypeOK
  <2>2. Len(reads) \in Nat
    BY <2>1
  <2>3. batch \subseteq 1..position
    BY DEF FlowInv, TypeOK
  <2> QED
    BY <2>1, <2>2, <2>3
<1>2. broken => task = "process"
  BY DEF RecordInv
<1>3. \A d \in DOMAIN audience : decided[d].how = "match"
  BY DEF DecisionInv
\* nothing is decided, and the batch is as it was or over
<1>4. ASSUME UNCHANGED <<decided, dedup, life, reads, audience, now>>,
             batch' = {} \/ (batch' = batch /\ (task \in MatchUnderWay => task' \in MatchUnderWay)),
             \A d \in DOMAIN decided : Accounted(d) => Accounted(d)'
      PROVE  DecisionInv'
  <2>1. Ordered'
    BY <1>4 DEF DecisionInv, Ordered, Current
  <2> QED
    BY <1>1, <1>3, <1>4, <2>1, DecisionFrame
<1>5. CASE Start \/ EnsureGroup \/ LoadList \/ Ack
  <2>1. UNCHANGED <<decided, dedup, life, reads, audience, now, batch, broken>>
    BY <1>5 DEF Start, EnsureGroup, CreateGroup, LoadList, Ack, stream, work, session, alerts, world
  <2>2. task \notin {"dead", "flush", "camera", "send"}
    BY <1>5 DEF Start, EnsureGroup, LoadList, Ack
  <2> QED
    BY <1>4, <2>1, <2>2 DEF Accounted, Settled
<1>6. CASE ReadFails
  BY <1>4, <1>6 DEF ReadFails, Effect, CreateGroup, Deliver, AtCommit, stream, work, alerts, world, Accounted, Settled
<1>7. CASE Read
  <2>1. /\ Available \subseteq (position + 1)..Len(reads) /\ DOMAIN decided \subseteq 1..position
    BY AvailableFacts DEF FlowInv, TypeOK
  <2>2. /\ UNCHANGED <<decided, dedup, life, reads, audience, now, broken>> /\ batch' = Available
        /\ task = "read"
    BY <1>7 DEF Read, Deliver, session, alerts, world
  <2>3. Ordered'
    BY <1>1, <2>1, <2>2 DEF Ordered
  <2>4. \A d \in DOMAIN decided : Accounted(d) => Accounted(d)'
    BY <2>2 DEF Accounted, Settled
  <2> QED
    BY <1>1, <1>3, <2>2, <2>3, <2>4, DecisionFrame
<1>8. CASE PassOver
  <2>1. PICK e \in batch :
          /\ Current(e) /\ batch' = batch \ {e}
          /\ \/ UNCHANGED decided
             \/ ~broken /\ \E w \in Entries : Hit(e, w) /\ ~ShouldAlert(e, w) /\ Decide(e, w, "quiet")
    BY <1>8 DEF PassOver
  <2>2. UNCHANGED <<reads, audience, now, life, dedup, task, broken>> /\ task = "process"
    BY <1>8 DEF PassOver, stream, session, alerts, world
  <2>3. CASE UNCHANGED decided
    <3>1. Ordered'
      BY <2>1, <2>2, <2>3 DEF DecisionInv, Ordered
    <3>2. \A d \in DOMAIN decided : Accounted(d) => Accounted(d)'
      BY <2>2, <2>3 DEF Accounted, Settled
    <3> QED
      BY <1>1, <1>3, <2>2, <2>3, <3>1, <3>2, DecisionFrame
  <2>4. ASSUME NEW w \in Entries, ~broken, ~ShouldAlert(e, w), Decide(e, w, "quiet")
        PROVE  DecisionInv'
    <3>1. reads[e].camera \in Cameras
      BY EngineAssumption DEF FlowInv, TypeOK
    <3> QED
      BY <2>1, <2>2, <2>4, <3>1, QuietKept
  <2> QED
    BY <2>1, <2>3, <2>4
<1>9. CASE Note
  <2>1. PICK e \in batch, w \in Entries :
          /\ Current(e) /\ ShouldAlert(e, w)
          /\ dedup' = [dedup EXCEPT ![Key(e, w)] = now]
          /\ IF reads[e].bad
             THEN batch' = batch \ {e} /\ Decide(e, w, "bad") /\ UNCHANGED task
             ELSE task' = "flush" /\ Decide(e, w, "match") /\ UNCHANGED batch
    BY <1>9 DEF Note
  <2>2. UNCHANGED <<reads, audience, now, life, broken>> /\ task = "process" /\ ~broken
    BY <1>9 DEF Note, stream, session, alerts, world
  <2>3. reads[e].camera \in Cameras
    BY EngineAssumption DEF FlowInv, TypeOK
  <2>4. CASE reads[e].bad
    BY <2>1, <2>2, <2>3, <2>4, NoteKept
  <2>5. CASE ~reads[e].bad
    BY <2>1, <2>2, <2>3, <2>5, NoteKept
  <2> QED
    BY <2>4, <2>5
<1>10. CASE Flush \/ Send
  <2>1. UNCHANGED <<decided, dedup, life, reads, audience, now, batch, broken>>
    BY <1>10 DEF Flush, Send, stream, work, session, alerts, world
  <2>2. task \in MatchUnderWay /\ task' \in MatchUnderWay
    BY <1>10 DEF Flush, Send
  <2> QED
    BY <1>4, <2>1, <2>2 DEF Accounted, Settled
<1>11. CASE LookUpCamera
  <2>1. PICK e \in batch : Current(e) /\ DOMAIN audience' = DOMAIN audience \cup {e}
    BY <1>11 DEF LookUpCamera
  <2>2. PICK f \in batch : Current(f) /\ decided[f].how = "match"
    BY <1>11 DEF LookUpCamera, FlowInv
  <2>3. e = f
    BY <1>1, <2>1, <2>2 DEF Current
  <2>4. UNCHANGED <<decided, dedup, life, reads, now, batch, broken>> /\ task = "camera" /\ task' = "send"
    BY <1>11 DEF LookUpCamera, stream, work, session, world
  <2>5. Ordered'
    BY <2>4 DEF DecisionInv, Ordered, Current
  <2>6. \A d \in DOMAIN decided : Accounted(d) => Accounted(d)'
    BY <2>1, <2>4 DEF Accounted, Settled
  <2> QED
    BY <1>1, <1>3, <2>1, <2>2, <2>3, <2>4, <2>5, <2>6, DecisionFrame
\* the current read is done with: announced, or the session is broken
<1>12. CASE EndBroadcast \/ DatabaseRaises
  <2>1. UNCHANGED <<decided, dedup, life, reads, audience, now>> /\ task' = "process"
        /\ task \in MatchUnderWay
    BY <1>12 DEF EndBroadcast, DatabaseRaises, stream, alerts, world
  <2>2. PICK e \in batch : Current(e) /\ batch' = batch \ {e}
    BY <1>12 DEF EndBroadcast, DatabaseRaises
  <2>3. Ordered'
    <3>1. \A b \in batch' : b \in batch /\ ~Current(b)
      BY <1>1, <2>2 DEF Current
    <3>2. \A d \in DOMAIN decided, b \in batch' : d < b
      BY <3>1 DEF DecisionInv, Ordered
    <3> QED
      BY <2>1, <3>2 DEF Ordered
  <2>4. ASSUME NEW d \in DOMAIN decided, Accounted(d)
        PROVE  Accounted(d)'
    <3>1. CASE DatabaseRaises
      BY <3>1 DEF DatabaseRaises, Accounted
    <3>2. CASE EndBroadcast /\ (Settled(d) \/ broken)
      BY <2>1, <3>2 DEF EndBroadcast, session, Accounted, Settled
    <3>3. CASE EndBroadcast /\ d \in batch
      <4>1. PICK f \in batch : Current(f) /\ f \in DOMAIN audience
        BY <3>3 DEF EndBroadcast, FlowInv
      <4>2. d \in Int /\ Current(d)
        BY <1>1, <3>3 DEF DecisionInv, Ordered
      <4>3. d = f
        BY <1>1, <3>3, <4>1, <4>2 DEF Current
      <4> QED
        BY <2>1, <4>1, <4>3 DEF Accounted, Settled
    <3> QED
      BY <1>12, <2>1, <2>4, <3>1, <3>2, <3>3 DEF Accounted
  <2> QED
    BY <1>1, <1>3, <2>1, <2>3, <2>4, DecisionFrame
<1>13. CASE BrokenCommit \/ TaskDies
  <2>1. task' = "dead" /\ batch' = {} /\ UNCHANGED <<decided, dedup, life, reads, audience, now>>
    BY <1>13 DEF BrokenCommit, TaskDies, Effect, CreateGroup, Deliver, Abandon, stream, alerts, world
  <2> QED
    BY <1>4, <2>1 DEF Accounted
<1>14. CASE Commit
  BY <1>4, <1>14 DEF Commit, AtCommit, stream, work, alerts, world, Accounted, Settled
<1>15. CASE ProcessStops
  BY <1>15, RestartKept
<1>16. CASE Publish
  <2>1. PICK k \in Kinds : reads' = Append(reads, k)
    BY <1>16 DEF Publish
  <2>2. UNCHANGED <<decided, dedup, life, audience, now, batch, broken, task>>
    BY <1>16 DEF Publish, work, session, alerts, world
  <2>3. \A d \in DOMAIN decided : reads'[d] = reads[d]
    BY <1>1, <2>1
  <2>4. Ordered'
    BY <2>2 DEF DecisionInv, Ordered, Current
  <2>5. \A d \in DOMAIN decided : Accounted(d) => Accounted(d)'
    BY <2>2 DEF Accounted, Settled
  <2> QED
    BY <1>1, <1>3, <2>2, <2>3, <2>4, <2>5, DecisionFrame
<1>17. CASE Tick
  <2>1. UNCHANGED <<decided, dedup, life, reads, audience, batch, broken, task>> /\ now' = now + 1
    BY <1>17 DEF Tick, stream, work, session, alerts
  <2>2. Ordered'
    BY <2>1 DEF DecisionInv, Ordered, Current
  <2>3. \A d \in DOMAIN decided : Accounted(d) => Accounted(d)'
    BY <2>1 DEF Accounted, Settled
  <2> QED
    BY <1>1, <1>3, <2>1, <2>2, <2>3, DecisionFrame
<1>18. CASE (\E w \in Entries : EditWatchlist(w)) \/ (\E c \in Consoles : Connect(c) \/ Drop(c) \/ Notice(c))
            \/ UNCHANGED vars
  <2>1. UNCHANGED <<decided, dedup, life, reads, audience, now, batch, broken, task>>
    BY <1>18 DEF EditWatchlist, Connect, Drop, Notice, vars, stream, work, session, alerts, world
  <2> QED
    BY <1>4, <2>1 DEF Accounted, Settled
<1> QED
  BY <1>5, <1>6, <1>7, <1>8, <1>9, <1>10, <1>11, <1>12, <1>13, <1>14, <1>15, <1>16, <1>17, <1>18
     DEF Next, TaskStep

\* Every variable keeps its type.
THEOREM TypeCorrect == Spec => []TypeOK
<1>1. FlowInv => TypeOK
  BY DEF FlowInv
<1>2. FlowInv /\ [Next]_vars => FlowInv'
  BY FlowKept
<1> QED
  BY FlowInit, <1>1, <1>2, PTL DEF Spec

\* A hit stays silent only because another of the same entry on the same camera
\* was announced within the window, or did not parse; and two so close are both
\* announced only across a restart (watchlist_engine.py, _RecentAlertCache).
THEOREM SilenceAlwaysMeansDuplicate == Spec => []SilenceMeansDuplicate
<1>1. FlowInv /\ [Next]_vars => FlowInv'
  BY FlowKept
<1>2. FlowInv /\ FlowInv' /\ RecordInv /\ DecisionInv /\ [Next]_vars => DecisionInv'
  BY DecisionKept
<1>3. IInv => RecordInv
  BY DEF IInv
<1>4. FlowInv /\ DecisionInv => SilenceMeansDuplicate
  <2> SUFFICES ASSUME FlowInv, DecisionInv
               PROVE  SilenceMeansDuplicate
    OBVIOUS
  <2>1. DOMAIN audience \subseteq Noted /\ Noted \subseteq DOMAIN decided
    BY DEF DecisionInv, FlowInv, TypeOK, Noted
  <2> QED
    BY <2>1 DEF DecisionInv, Justified, Apart, Settled, SilenceMeansDuplicate
<1> QED
  BY FlowInit, DecisionInit, InvariantHolds, <1>1, <1>2, <1>3, <1>4, PTL DEF Spec
-----------------------------------------------------------------------------
(* The contract of EventDelivery *)

\* the fate of a read, case by case
Fate(e) ==
  IF e > Len(reads) THEN "unpublished"
  ELSE IF e <= origin THEN "discarded"
  ELSE IF e > position THEN "waiting"
  ELSE IF e \in concluded THEN "stored"
  ELSE IF e \in held THEN "inflight"
  ELSE "lost"

LEMMA FateIs == FlowInv => \A e \in 1..N : FateOf(e) = Fate(e)
<1> SUFFICES ASSUME FlowInv, NEW e \in 1..N PROVE FateOf(e) = Fate(e)
  OBVIOUS
<1>1. /\ Len(reads) \in Int /\ position \in 0..Len(reads) /\ origin \in 0..position
      /\ held \cup concluded \subseteq (origin + 1)..position /\ held \cap concluded = {}
  BY DEF FlowInv, TypeOK
<1>2. CASE e > Len(reads)
  BY <1>1, <1>2 DEF FateOf, Fate
<1>3. CASE e <= origin
  BY <1>1, <1>3 DEF FateOf, Fate
<1>4. CASE e > position /\ e <= Len(reads)
  BY <1>1, <1>4 DEF FateOf, Fate
<1>5. CASE e > origin /\ e <= position
  BY <1>1, <1>5 DEF FateOf, Fate
<1> QED
  BY <1>1, <1>2, <1>3, <1>4, <1>5

LEMMA FateIsAfter == FlowInv' => \A e \in 1..N : FateOf(e)' = Fate(e)'
<1>1. (FlowInv => \A e \in 1..N : FateOf(e) = Fate(e))'
  BY FateIs, PTL
<1> QED
  BY <1>1
\* The reads that EventDelivery's actions look at.
LEMMA FateSets ==
  ASSUME FlowInv
  PROVE  /\ Delivery!With("inflight") = held
         /\ Delivery!With("waiting") = (position + 1)..Len(reads)
         /\ Delivery!With("unpublished") = (Len(reads) + 1)..N
<1>1. /\ Len(reads) \in 0..N /\ N \in Nat /\ position \in 0..Len(reads) /\ origin \in 0..position
      /\ held \cup concluded \subseteq (origin + 1)..position /\ held \cap concluded = {}
  BY EngineAssumption DEF FlowInv, TypeOK
<1>2. \A f : Delivery!With(f) = {e \in 1..N : Fate(e) = f}
  BY FateIs DEF Delivery!With, Delivery!Events
<1>3. {e \in 1..N : Fate(e) = "inflight"} = held
  <2>1. held \subseteq 1..N
    BY <1>1
  <2>2. \A e \in 1..N : Fate(e) = "inflight" <=> e \in held
    BY <1>1 DEF Fate
  <2> QED
    BY <2>1, <2>2
<1>4. {e \in 1..N : Fate(e) = "waiting"} = (position + 1)..Len(reads)
  <2>1. (position + 1)..Len(reads) \subseteq 1..N
    BY <1>1
  <2>2. \A e \in 1..N : Fate(e) = "waiting" <=> e \in (position + 1)..Len(reads)
    BY <1>1 DEF Fate
  <2> QED
    BY <2>1, <2>2
<1>5. {e \in 1..N : Fate(e) = "unpublished"} = (Len(reads) + 1)..N
  <2>1. (Len(reads) + 1)..N \subseteq 1..N
    BY <1>1
  <2>2. \A e \in 1..N : Fate(e) = "unpublished" <=> e \in (Len(reads) + 1)..N
    BY <1>1 DEF Fate
  <2> QED
    BY <2>1, <2>2
<1> QED
  BY <1>2, <1>3, <1>4, <1>5

\* Settling the reads of S with the fate f, where no other fate changes.
LEMMA SettleMaps ==
  ASSUME FlowInv, FlowInv', NEW S, NEW f,
         \A e \in 1..N : Fate(e)' = IF e \in S THEN f ELSE Fate(e)
  PROVE  [e \in 1..N |-> FateOf(e)]'
           = [e \in Delivery!Events |-> IF e \in S THEN f ELSE [d \in 1..N |-> FateOf(d)][e]]
BY FateIs, FateIsAfter DEF Delivery!Events

\* The end of a batch stores it as a whole, or loses it as a whole.
LEMMA ConcludeMaps ==
  ASSUME FlowInv, FlowInv', UNCHANGED stream, held' = {},
         NEW f, \/ f = "stored" /\ concluded' = concluded \cup held
                \/ f = "lost" /\ concluded' = concluded
  PROVE  Delivery!Conclude(f) \/ UNCHANGED [e \in 1..N |-> FateOf(e)]
<1>1. /\ Len(reads) \in Int /\ position \in 0..Len(reads) /\ origin \in 0..position
      /\ held \cup concluded \subseteq (origin + 1)..position /\ held \cap concluded = {}
  BY DEF FlowInv, TypeOK
<1>2. \A e \in 1..N : Fate(e)' = IF e \in held THEN f ELSE Fate(e)
  BY <1>1 DEF Fate, stream
<1>3. CASE held # {}
  <2>1. Delivery!With("inflight") = held
    BY FateSets
  <2>2. [e \in 1..N |-> FateOf(e)]'
          = [e \in Delivery!Events |-> IF e \in held THEN f ELSE [d \in 1..N |-> FateOf(d)][e]]
    BY <1>2, SettleMaps
  <2> QED
    BY <1>3, <2>1, <2>2 DEF Delivery!Conclude, Delivery!Settle
<1>4. CASE held = {}
  BY <1>2, <1>4, FateIs, FateIsAfter
<1> QED
  BY <1>3, <1>4

\* A delivery hands over the first reads that wait, whatever becomes of them.
LEMMA DeliverMaps ==
  ASSUME FlowInv, FlowInv', Deliver, held = {}, UNCHANGED concluded,
         NEW f, \/ f = "inflight" /\ held' = Available
                \/ f = "lost" /\ held' = {}
  PROVE  Delivery!HandOver(f)
<1>1. /\ Len(reads) \in Int /\ position \in 0..Len(reads) /\ origin \in 0..position
      /\ concluded \subseteq (origin + 1)..position
  BY DEF FlowInv, TypeOK
<1>2. /\ Available # {} /\ position' \in Available /\ \A e \in Available : e <= position'
      /\ UNCHANGED <<reads, origin>>
  BY DEF Deliver
<1> DEFINE last == IF position + BatchSize < Len(reads) THEN position + BatchSize ELSE Len(reads)
<1>3. last \in Int /\ last <= Len(reads) /\ last <= position + BatchSize /\ Available = (position + 1)..last
      /\ BatchSize \in Int
  BY <1>1, EngineAssumption DEF Available
<1> HIDE DEF last
<1>4. position' = last
  BY <1>1, <1>2, <1>3
<1>5. Delivery!With("inflight") = {} /\ Delivery!With("waiting") = (position + 1)..Len(reads)
  BY FateSets
<1>6. Delivery!FirstWaiting(Available) /\ Available \subseteq Delivery!With("waiting")
  <2>1. Available \subseteq (position + 1)..Len(reads)
    BY <1>1, <1>3
  <2>2. \A e \in Available, d \in (position + 1)..Len(reads) : d < e => d \in Available
    BY <1>1, <1>3
  <2> QED
    BY <1>5, <2>1, <2>2 DEF Delivery!FirstWaiting
<1>7. \A e, d \in Available : e - d < BatchSize
  BY <1>1, <1>3
<1>8. \A e \in 1..N : Fate(e)' = IF e \in Available THEN f ELSE Fate(e)
  BY <1>1, <1>2, <1>3, <1>4 DEF Fate
<1>9. [e \in 1..N |-> FateOf(e)]'
        = [e \in Delivery!Events |->
             IF e \notin Available THEN [d \in 1..N |-> FateOf(d)][e]
             ELSE IF e \in {} THEN "skipped" ELSE f]
  BY <1>8, FateIs, FateIsAfter DEF Delivery!Events
<1> QED
  BY <1>2, <1>5, <1>6, <1>7, <1>9 DEF Delivery!HandOver

\* A new group discards what was there before it.
LEMMA CreateMaps ==
  ASSUME FlowInv, FlowInv', CreateGroup, UNCHANGED <<concluded, held>>
  PROVE  Delivery!Discard \/ UNCHANGED [e \in 1..N |-> FateOf(e)]
<1>1. /\ Len(reads) \in Int /\ position \in 0..Len(reads) /\ origin \in 0..position /\ group \in BOOLEAN
      /\ held \cup concluded \subseteq (origin + 1)..position
  BY DEF FlowInv, TypeOK
<1>2. CASE group
  <2>1. UNCHANGED <<reads, position, origin>>
    BY <1>2 DEF CreateGroup
  <2>2. \A e \in 1..N : Fate(e)' = Fate(e)
    BY <2>1 DEF Fate
  <2> QED
    BY <2>2, FateIs, FateIsAfter
<1>3. CASE ~group
  <2>1. /\ reads' = reads /\ position' = Len(reads) /\ origin' = Len(reads)
        /\ position = 0 /\ origin = 0
    BY <1>1, <1>3 DEF CreateGroup, FlowInv
  <2>2. \A e \in 1..N : Fate(e)' = IF e \in (position + 1)..Len(reads) THEN "discarded" ELSE Fate(e)
    BY <1>1, <2>1 DEF Fate
  <2>3. Delivery!With("waiting") = (position + 1)..Len(reads)
    BY FateSets
  <2>4. CASE (position + 1)..Len(reads) # {}
    <3>1. [e \in 1..N |-> FateOf(e)]'
            = [e \in Delivery!Events |->
                 IF e \in (position + 1)..Len(reads) THEN "discarded" ELSE [d \in 1..N |-> FateOf(d)][e]]
      BY <2>2, SettleMaps
    <3> QED
      BY <2>3, <2>4, <3>1 DEF Delivery!Discard, Delivery!Settle
  <2>5. CASE (position + 1)..Len(reads) = {}
    BY <2>2, <2>5, FateIs, FateIsAfter
  <2> QED
    BY <2>4, <2>5
<1> QED
  BY <1>1, <1>2, <1>3

\* A read that is added waits.
LEMMA PublishMaps ==
  ASSUME FlowInv, FlowInv', Publish
  PROVE  Delivery!Publish
<1>1. /\ Len(reads) \in Nat /\ Len(reads') = Len(reads) + 1 /\ Len(reads) < N /\ N \in Nat
      /\ UNCHANGED <<position, origin, concluded, held>>
  BY EngineAssumption DEF Publish, work, FlowInv, TypeOK
<1>2. /\ position \in 0..Len(reads) /\ origin \in 0..position
      /\ held \cup concluded \subseteq (origin + 1)..position
  BY DEF FlowInv, TypeOK
<1>3. \A e \in 1..N : Fate(e)' = IF e = Len(reads) + 1 THEN "waiting" ELSE Fate(e)
  BY <1>1, <1>2 DEF Fate
<1>4. Len(reads) + 1 \in Delivery!With("unpublished")
      /\ \A d \in Delivery!With("unpublished") : Len(reads) + 1 <= d
  BY <1>1, FateSets
<1>5. {} \in SUBSET Delivery!With("waiting") /\ Delivery!FirstWaiting({})
  BY DEF Delivery!FirstWaiting
<1>6. [e \in 1..N |-> FateOf(e)]'
        = [d \in Delivery!Events |->
             IF d = Len(reads) + 1 THEN "waiting"
             ELSE IF d \in {} THEN "discarded" ELSE [e \in 1..N |-> FateOf(e)][d]]
  BY <1>3, FateIs, FateIsAfter DEF Delivery!Events
<1> QED
  BY <1>4, <1>5, <1>6 DEF Delivery!Publish

\* The engine implements EventDelivery: for any stream, batch size and sequence
\* of failures its batches are taken in order, concluded or lost as a whole, and
\* never processed twice.
THEOREM EngineDelivers == Spec => DeliverySpec
<1>1. Init => Delivery!Init
  <2> SUFFICES ASSUME Init PROVE Delivery!Init
    OBVIOUS
  <2>1. \A e \in 1..N : Fate(e) = "unpublished"
    BY DEF Init, Fate
  <2> QED
    BY <2>1, FlowInit, FateIs DEF Delivery!Init, Delivery!Events
<1>2. FlowInv /\ FlowInv' /\ [Next]_vars => [Delivery!Next]_([e \in 1..N |-> FateOf(e)])
  <2> SUFFICES ASSUME FlowInv, FlowInv', [Next]_vars
               PROVE  Delivery!Next \/ UNCHANGED [e \in 1..N |-> FateOf(e)]
    OBVIOUS
  <2> USE DEF Between, Delivery!Next
  <2>1. ASSUME UNCHANGED <<reads, position, origin, held, concluded>>
        PROVE  UNCHANGED [e \in 1..N |-> FateOf(e)]
    <3>1. \A e \in 1..N : Fate(e)' = Fate(e)
      BY <2>1 DEF Fate
    <3> QED
      BY <3>1, FateIs, FateIsAfter
  <2>2. CASE Start \/ LoadList \/ PassOver \/ Note \/ Flush \/ LookUpCamera \/ Send \/ EndBroadcast \/ Ack
             \/ DatabaseRaises
    BY <2>1, <2>2 DEF Start, LoadList, PassOver, Note, Flush, LookUpCamera, Send, EndBroadcast, Ack,
                      DatabaseRaises, stream, work
  <2>3. CASE Tick \/ (\E w \in Entries : EditWatchlist(w)) \/ UNCHANGED vars
    BY <2>1, <2>3 DEF Tick, EditWatchlist, vars, stream, work
  <2>4. CASE \E c \in Consoles : Connect(c) \/ Drop(c) \/ Notice(c)
    BY <2>1, <2>4 DEF Connect, Drop, Notice, stream, work
  <2>5. CASE EnsureGroup
    BY <2>5, CreateMaps DEF EnsureGroup, work
  <2>6. CASE Read
    <3>1. Deliver /\ held = {} /\ held' = Available /\ UNCHANGED concluded
      BY <2>6 DEF Read, FlowInv
    <3> QED
      BY <3>1, DeliverMaps
  <2>7. CASE Commit
    BY <2>7, ConcludeMaps DEF Commit, CommitMatches
  <2>8. CASE BrokenCommit
    BY <2>8, ConcludeMaps DEF BrokenCommit, Abandon
  <2>9. ASSUME Effect, held' = {},
               task = "read" => held = {}, task = "ensure" => held = {}
        PROVE  Delivery!Next \/ UNCHANGED [e \in 1..N |-> FateOf(e)]
    <3>1. CASE UNCHANGED <<stream, rows, concluded>>
      BY <2>9, <3>1, ConcludeMaps
    <3>2. CASE task = "ensure" /\ CreateGroup /\ UNCHANGED <<rows, concluded>>
      BY <2>9, <3>2, CreateMaps
    <3>3. CASE task = "read" /\ Deliver /\ UNCHANGED <<rows, concluded>>
      BY <2>9, <3>3, DeliverMaps
    <3>4. CASE AtCommit /\ ~broken /\ CommitMatches /\ UNCHANGED stream
      BY <2>9, <3>4, ConcludeMaps DEF CommitMatches
    <3> QED
      BY <2>9, <3>1, <3>2, <3>3, <3>4 DEF Effect
  <2>10. CASE ReadFails \/ TaskDies \/ ProcessStops
    <3>1. task \in {"read", "ensure"} => held = {}
      BY DEF FlowInv
    <3>2. Effect /\ held' = {}
      BY <2>10, <3>1 DEF ReadFails, TaskDies, ProcessStops, Abandon, work
    <3> QED
      BY <2>9, <3>1, <3>2
  <2>11. CASE Publish
    BY <2>11, PublishMaps
  <2> QED
    BY <2>2, <2>3, <2>4, <2>5, <2>6, <2>7, <2>8, <2>10, <2>11 DEF Next, TaskStep
<1>3. FlowInv /\ [Next]_vars => FlowInv'
  BY FlowKept
<1> QED
  BY FlowInit, <1>1, <1>2, <1>3, PTL DEF Spec, DeliverySpec, Delivery!Spec
=============================================================================
