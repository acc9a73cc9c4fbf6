---------------------------- MODULE EventConsumer ----------------------------
(***************************************************************************)
(* A Redis stream consumer of services/api: plate_event_consumer.py and    *)
(* vehicle_event_consumer.py, which differ only in the table they fill.    *)
(*                                                                         *)
(* The task reads a batch of never-delivered entries (">") for its group,  *)
(* inserts the entries it can parse in one transaction, commits, and       *)
(* acknowledges the whole batch.  Each of these is a round trip, which may *)
(* take effect and still fail for the task: a read that fails is retried,  *)
(* any other exception ends the task, and nothing restarts it but the      *)
(* process (main.py creates it once).  Stopping the process cancels the    *)
(* task in the middle of its round trip.                                   *)
(*                                                                         *)
(* Entries are numbered in the order of the stream.  A publication Redis   *)
(* refuses leaves no entry (event_publisher.py logs it).                   *)
(***************************************************************************)
EXTENDS Integers, FiniteSets

CONSTANTS
  N,          \* bound: entries ever published
  Malformed,  \* the entries _parse_entry returns None for
  BatchSize,  \* _BATCH_SIZE
  MaxLen,     \* REDIS_STREAM_MAXLEN
  MaxFaults   \* bound: failed round trips, process stops and losses of the stream

ASSUME ConsumerAssumption ==
  /\ N \in Nat
  /\ Malformed \subseteq 1..N
  /\ BatchSize \in Nat \ {0}
  /\ MaxLen \in Nat \ {0}
  /\ MaxFaults \in Nat

VARIABLES
  published,  \* how many entries were added to the stream
  trimmed,    \* how many of the oldest are no longer in it
  group,      \* whether the consumer group exists
  position,   \* its last-delivered id
  pending,    \* its pending entries list
  task,       \* the round trip the task waits for; "off" or "dead" if none
  batch,      \* the entries it holds
  rows,       \* the entries that are in the table (stream_entry_id is unique)
  handed,     \* history: the entries ever delivered by XREADGROUP
  acked,      \* history: the entries ever acknowledged
  faults      \* history: how often something failed

stream == <<published, trimmed, group, position, pending, handed, acked>>
vars == <<stream, task, batch, rows, faults>>

Entries == 1..N

TypeOK ==
  /\ published \in 0..N
  /\ trimmed \in 0..published
  /\ group \in BOOLEAN
  /\ position \in 0..published
  /\ task \in {"off", "ensure", "read", "store", "ack", "dead"}
  /\ handed \subseteq 1..published
  /\ pending \subseteq handed
  /\ batch \subseteq handed
  /\ Cardinality(batch) <= BatchSize
  /\ rows \subseteq handed \ Malformed
  /\ acked \subseteq handed
  /\ faults \in 0..MaxFaults

Init ==
  /\ published = 0
  /\ trimmed = 0
  /\ group = FALSE
  /\ position = 0
  /\ pending = {}
  /\ task = "off"
  /\ batch = {}
  /\ rows = {}
  /\ handed = {}
  /\ acked = {}
  /\ faults = 0

-----------------------------------------------------------------------------
(* What the round trips do at the server *)

\* XGROUP CREATE id="$": only what is published from now on
CreateGroupMutant ==
  /\ group' = TRUE
  /\ position' = IF group THEN position ELSE published
  /\ UNCHANGED <<published, trimmed, pending, handed, acked, rows>>

\* an existing group is set back to the start of the stream
CreateGroupAgainMutant ==
  /\ group' = TRUE
  /\ position' = 0
  /\ UNCHANGED <<published, trimmed, pending, handed, acked, rows>>

\* XGROUP CREATE id="0" MKSTREAM; BUSYGROUP leaves an existing group alone
CreateGroup ==
  /\ group' = TRUE
  /\ position' = IF group THEN position ELSE 0
  /\ UNCHANGED <<published, trimmed, pending, handed, acked, rows>>

\* the entry before the first one that can still be delivered to the group
Passed == IF position < trimmed THEN trimmed ELSE position

\* COUNT is not given
AvailableMutant == (Passed + 1)..published

\* what XREADGROUP ">" COUNT _BATCH_SIZE returns
Available ==
  (Passed + 1)..(IF Passed + BatchSize < published THEN Passed + BatchSize ELSE published)

DeliverAvailable ==
  /\ group
  /\ Available # {}
  /\ position' \in Available
  /\ \A e \in Available : e <= position'
  /\ pending' = pending \cup Available
  /\ handed' = handed \cup Available
  /\ UNCHANGED <<published, trimmed, group, acked, rows>>

\* a parse error ends the loop over the batch
ParsedMutant == {e \in batch : \A m \in batch \cap Malformed : e < m}

\* the records that _parse_entry makes of the batch
Parsed == batch \ Malformed

\* the transaction is closed without a commit
StoreBatchMutant == UNCHANGED <<stream, rows>>

\* INSERT ... ON CONFLICT DO NOTHING for each record, COMMIT
StoreBatch ==
  /\ rows' = rows \cup Parsed
  /\ UNCHANGED stream

\* XACK of the whole batch, malformed entries included
AckBatch ==
  /\ pending' = pending \ batch
  /\ acked' = acked \cup batch
  /\ UNCHANGED <<published, trimmed, group, position, handed, rows>>

-----------------------------------------------------------------------------
(* The task, when its round trip succeeds *)

\* lifespan creates the task
Start ==
  /\ task = "off"
  /\ task' = "ensure"
  /\ UNCHANGED <<stream, batch, rows, faults>>

EnsureGroup ==
  /\ task = "ensure"
  /\ CreateGroup
  /\ task' = "read"
  /\ UNCHANGED <<batch, faults>>

\* an empty answer after _BLOCK_MS only repeats the read
Read ==
  /\ task = "read"
  /\ DeliverAvailable
  /\ batch' = Available
  /\ task' = "store"
  /\ UNCHANGED faults

Store ==
  /\ task = "store"
  /\ StoreBatch
  /\ task' = "ack"
  /\ UNCHANGED <<batch, faults>>

Ack ==
  /\ task = "ack"
  /\ AckBatch
  /\ batch' = {}
  /\ task' = "read"
  /\ UNCHANGED faults

-----------------------------------------------------------------------------
(* Failures *)

Fault == faults < MaxFaults /\ faults' = faults + 1

\* The round trip under way has its effect or has not, and the task goes on
\* as next without knowing which.
Unanswered(next) ==
  /\ Fault
  /\ \/ UNCHANGED <<stream, rows>>
     \/ task = "ensure" /\ CreateGroup
     \/ task = "read" /\ DeliverAvailable
     \/ task = "store" /\ StoreBatch
     \/ task = "ack" /\ AckBatch
  /\ batch' = {}
  /\ task' = next

\* a RedisError from XREADGROUP: sleep, and read what comes after
ReadFails == task = "read" /\ Unanswered("read")

\* any other exception leaves run()
TaskDies == task \in {"ensure", "store", "ack"} /\ Unanswered("dead")

\* the process is stopped (the task is cancelled), or crashes
ProcessStops == task # "off" /\ Unanswered("off")

\* redis comes back without its data
RedisLosesData ==
  /\ Fault
  /\ group' = FALSE
  /\ pending' = {}
  /\ trimmed' = published
  /\ UNCHANGED <<published, position, handed, acked, task, batch, rows>>

-----------------------------------------------------------------------------
(* The publisher *)

\* XADD with an approximate MAXLEN: older entries may go, or stay for a while
Publish ==
  /\ published < N
  /\ published' = published + 1
  /\ trimmed' \in {trimmed} \cup trimmed..(published' - MaxLen)
  /\ UNCHANGED <<group, position, pending, handed, acked, task, batch, rows, faults>>

TaskStep == Start \/ EnsureGroup \/ Read \/ Store \/ Ack

Next ==
  \/ TaskStep
  \/ ReadFails
  \/ TaskDies
  \/ ProcessStops
  \/ RedisLosesData
  \/ Publish

Spec == Init /\ [][Next]_vars

\* The event loop runs the task, round trips that do not fail return, and a
\* stopped process is started again (docker-compose.yml: unless-stopped).
FairSpec == Spec /\ WF_vars(TaskStep)

-----------------------------------------------------------------------------
\* the fate of each entry, as EventDelivery tells them apart
FateOf(e) ==
  CASE e \in rows -> "stored"
    [] e \in handed /\ e \in Malformed -> "skipped"
    [] e \in batch /\ e \notin rows /\ e \notin Malformed -> "inflight"
    [] e \in handed /\ e \notin batch /\ e \notin rows /\ e \notin Malformed -> "lost"
    [] e \notin handed /\ e > published -> "unpublished"
    [] e \notin handed /\ e <= published /\ e <= trimmed -> "discarded"
    [] e \notin handed /\ e <= published /\ e > trimmed -> "waiting"

Delivery == INSTANCE EventDelivery WITH fate <- [e \in Entries |-> FateOf(e)]

\* Entries are delivered in order, a batch is stored or lost as a whole, and
\* what became of an entry never changes, across failures and restarts.
DeliverySpec == Delivery!Spec

\* An entry that was acknowledged is in the table or could not be parsed.
AckedAreStored == acked \ Malformed \subseteq rows

Lost == handed \ (rows \cup batch \cup Malformed)

\* A failure costs at most the batch it hits: without failures no delivered
\* entry is lost, and malformed entries take no others with them.
LossIsBounded == Cardinality(Lost) <= BatchSize * faults

\* the task waits for a group that is gone, or is gone itself, until the
\* process restarts
Stuck == task = "dead" \/ (task = "read" /\ ~group)

\* An entry in the stream is not left there: it reaches the table, or is lost
\* in one of the ways FateOf names, unless the consumer is stuck.
WaitingIsServed ==
  \A e \in Entries :
    FateOf(e) \in {"waiting", "inflight"}
      ~> (FateOf(e) \in {"stored", "skipped", "lost", "discarded"} \/ Stuck)

\* "a restart resumes from where it left off rather than reprocessing or
\* dropping events" (plate_event_consumer.py): what was delivered to a
\* process that stopped is in the table.
RestartDropsNothing == task = "off" => handed \ Malformed \subseteq rows
=============================================================================
