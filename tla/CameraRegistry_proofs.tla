----------------------- MODULE CameraRegistry_proofs -----------------------
(***************************************************************************)
(* Proofs about CameraRegistry, for any cameras, jurisdictions, users and  *)
(* requests under way at once.                                             *)
(***************************************************************************)
EXTENDS CameraRegistry, TLAPS

\* A sync that has fetched has an entry for every camera it knows.
FetchedInv == \A t \in Transactions :
  tx[t].pc = "fetched" => tx[t].entries \in [Cameras -> Entry]

\* A row that is to be inserted is written whole.
FreshInv == \A t \in Transactions : \A c \in tx[t].fresh :
  c \in DOMAIN tx[t].writes /\ tx[t].writes[c] \in Row

\* Of the rows that were there when it read them, a sync writes no jurisdiction,
\* and no location where it has read one.
SyncInv == \A t \in Transactions :
  tx[t].sync /\ tx[t].pc \in {"pending", "flushed"} =>
    \A c \in DOMAIN tx[t].writes \ tx[t].fresh :
      /\ tx[t].writes[c].jurisdiction = Keep
      /\ c \in tx[t].located => tx[t].writes[c].location = Keep

\* The locks: what is flushed and not committed belongs to one transaction, and
\* a row that it inserts is in the table only when it commits.
FlushInv == \A t \in Transactions : tx[t].pc = "flushed" =>
  /\ tx[t].fresh \cap DOMAIN rows = {}
  /\ \A u \in Transactions \ {t} :
       tx[u].pc = "flushed" => DOMAIN tx[t].writes \cap DOMAIN tx[u].writes = {}

IInv == TypeOK /\ FetchedInv /\ FreshInv /\ SyncInv /\ FlushInv

-----------------------------------------------------------------------------
LEMMA PartialFacts ==
  ASSUME NEW T, NEW f
  PROVE  f \in Partial(T) <=> DOMAIN f \subseteq Cameras /\ f \in [DOMAIN f -> T]
BY DEF Partial

\* The fields of a transaction.
LEMMA TxFacts ==
  ASSUME TypeOK, NEW t \in Transactions
  PROVE  /\ tx[t].sync \in BOOLEAN
         /\ tx[t].fresh \in SUBSET Cameras
         /\ DOMAIN tx[t].writes \subseteq Cameras
         /\ \A c \in DOMAIN tx[t].writes : tx[t].writes[c] \in Write
<1>1. tx[t].writes \in Partial(Write) /\ tx[t].sync \in BOOLEAN /\ tx[t].fresh \in SUBSET Cameras
  BY DEF TypeOK
<1> QED
  BY <1>1, PartialFacts

\* The rows that are there have the columns of a row.
LEMMA RowFacts ==
  ASSUME TypeOK
  PROVE  DOMAIN rows \subseteq Cameras /\ \A c \in DOMAIN rows : rows[c] \in Row
<1>1. rows \in Partial(Row)
  BY DEF TypeOK
<1> QED
  BY <1>1, PartialFacts

TxType == [pc : {"idle", "fetched", "pending", "flushed"}, sync : BOOLEAN,
           entries : Partial(Entry), writes : Partial(Write),
           fresh : SUBSET Cameras, located : SUBSET Cameras]

LEMMA IdleType ==
  Idle \in TxType /\ NoRows \in Partial(Entry) /\ NoRows \in Partial(Write) /\ NoRows \in Partial(Row)
<1>1. NoRows = [c \in {} |-> None]
  BY DEF NoRows
<1>2. \A T : NoRows \in Partial(T)
  BY <1>1 DEF Partial
<1> QED
  BY <1>2 DEF Idle, TxType

\* What happens to a transaction that comes to its writes, is flushed or ends.
LEMMA RollbackStep ==
  ASSUME IInv, NEW t \in Transactions, Rollback(t), UNCHANGED rows
  PROVE  /\ tx' \in [Transactions -> TxType]
         /\ FetchedInv' /\ FreshInv' /\ SyncInv' /\ FlushInv'
<1>1. /\ tx \in [Transactions -> TxType]
      /\ tx' = [tx EXCEPT ![t] = Idle]
  BY DEF IInv, TypeOK, Rollback, TxType
<1>2. /\ tx'[t] = Idle
      /\ \A u \in Transactions \ {t} : tx'[u] = tx[u]
      /\ Idle.pc = "idle" /\ Idle.fresh = {}
  BY <1>1 DEF Idle
<1>3. tx' \in [Transactions -> TxType]
  BY <1>1, IdleType
<1>4. FetchedInv' /\ FreshInv'
  BY <1>2 DEF IInv, FetchedInv, FreshInv
<1>5. SyncInv'
  BY <1>2 DEF IInv, SyncInv
<1>6. FlushInv'
  BY <1>2 DEF IInv, FlushInv
<1> QED
  BY <1>3, <1>4, <1>5, <1>6

\* A transaction that is not flushed takes any writes: by hand, or those of a
\* sync that spare what it has read.
LEMMA PendingStep ==
  ASSUME IInv, NEW t \in Transactions, NEW new \in TxType,
         tx' = [tx EXCEPT ![t] = new], UNCHANGED rows,
         new.pc # "flushed", new.pc = "fetched" => new.entries \in [Cameras -> Entry],
         \A c \in new.fresh : c \in DOMAIN new.writes /\ new.writes[c] \in Row,
         new.sync /\ new.pc = "pending" =>
           \A c \in DOMAIN new.writes \ new.fresh :
             /\ new.writes[c].jurisdiction = Keep
             /\ c \in new.located => new.writes[c].location = Keep
  PROVE  /\ tx' \in [Transactions -> TxType]
         /\ FetchedInv' /\ FreshInv' /\ SyncInv' /\ FlushInv'
<1>1. tx \in [Transactions -> TxType]
  BY DEF IInv, TypeOK, TxType
<1>2. /\ tx'[t] = new
      /\ \A u \in Transactions \ {t} : tx'[u] = tx[u]
  BY <1>1
<1>3. tx' \in [Transactions -> TxType]
  BY <1>1
<1>4. FetchedInv' /\ FreshInv'
  BY <1>2 DEF IInv, FetchedInv, FreshInv
<1>5. SyncInv'
  BY <1>2 DEF IInv, SyncInv
<1>6. FlushInv'
  BY <1>2 DEF IInv, FlushInv
<1> QED
  BY <1>3, <1>4, <1>5, <1>6

LEMMA FlushStep ==
  ASSUME IInv, NEW t \in Transactions, Flush(t)
  PROVE  IInv'
<1>1. /\ tx \in [Transactions -> TxType]
      /\ tx' = [tx EXCEPT ![t].pc = "flushed"]
      /\ UNCHANGED <<catalogue, rows, edits, changes, faults>>
  BY DEF IInv, TypeOK, Flush, TxType, counters
<1>2. /\ tx[t].pc = "pending" /\ tx'[t].pc = "flushed"
      /\ \A u \in Transactions : /\ tx'[u].sync = tx[u].sync
                                 /\ tx'[u].writes = tx[u].writes
                                 /\ tx'[u].entries = tx[u].entries
                                 /\ tx'[u].fresh = tx[u].fresh
                                 /\ tx'[u].located = tx[u].located
      /\ \A u \in Transactions \ {t} : tx'[u].pc = tx[u].pc
  BY <1>1 DEF TxType, Flush
<1>3. TypeOK'
  BY <1>1 DEF IInv, TypeOK, TxType
<1>4. FetchedInv' /\ FreshInv'
  BY <1>2 DEF IInv, FetchedInv, FreshInv
<1>5. SyncInv'
  BY <1>2 DEF IInv, SyncInv
<1>6. FlushInv'
  BY <1>1, <1>2 DEF IInv, FlushInv, Flush, Waits
<1> QED
  BY <1>3, <1>4, <1>5, <1>6 DEF IInv

\* Merging a write into a row gives a row, and keeps the columns it leaves out.
LEMMA MergedFacts ==
  ASSUME NEW row \in Row, NEW write \in Write
  PROVE  /\ Merged(row, write) \in Row
         /\ write.jurisdiction = Keep => Merged(row, write).jurisdiction = row.jurisdiction
         /\ write.location = Keep => Merged(row, write).location = row.location
<1>1. DOMAIN row = {"jurisdiction", "location", "active"}
  BY DEF Row
<1>2. row = [jurisdiction |-> row.jurisdiction, location |-> row.location, active |-> row.active]
  BY DEF Row
<1> DEFINE col(k) == IF write[k] = Keep THEN row[k] ELSE write[k]
<1>3. Merged(row, write) = [k \in {"jurisdiction", "location", "active"} |-> col(k)]
  BY <1>1 DEF Merged
<1>4. /\ col("jurisdiction") \in Jurisdictions \cup {None}
      /\ col("location") \in Locations
      /\ col("active") \in BOOLEAN
  BY DEF Row, Write, Column
<1>5. Merged(row, write) = [jurisdiction |-> col("jurisdiction"), location |-> col("location"),
                            active |-> col("active")]
  BY <1>3
<1> HIDE DEF col
<1>6. Merged(row, write) \in Row
  BY <1>4, <1>5 DEF Row
<1> QED
  BY <1>5, <1>6 DEF col

\* A commit gives rows, of which those that the transaction has not inserted
\* change as its writes say.
LEMMA CommitRows ==
  ASSUME IInv, NEW t \in Transactions, Commit(t)
  PROVE  /\ rows' \in Partial(Row)
         /\ DOMAIN rows' = DOMAIN rows \cup tx[t].fresh
         /\ \A c \in DOMAIN rows \ tx[t].fresh :
              /\ c \in DOMAIN tx[t].writes => rows'[c] = Merged(rows[c], tx[t].writes[c])
              /\ c \notin DOMAIN tx[t].writes => rows'[c] = rows[c]
<1> DEFINE D == DOMAIN rows \cup tx[t].fresh
           new(c) == IF c \in tx[t].fresh THEN tx[t].writes[c]
                     ELSE IF c \in DOMAIN tx[t].writes THEN Merged(rows[c], tx[t].writes[c])
                     ELSE rows[c]
<1>1. D \subseteq Cameras
  BY RowFacts, TxFacts DEF IInv
<1>2. rows' = [c \in D |-> new(c)]
  BY DEF Commit
<1>3. ASSUME NEW c \in D
      PROVE  new(c) \in Row
  BY <1>3, RowFacts, TxFacts, MergedFacts DEF IInv, FreshInv
<1> QED
  BY <1>1, <1>2, <1>3 DEF Partial

LEMMA CommitStep ==
  ASSUME IInv, NEW t \in Transactions, Commit(t)
  PROVE  IInv'
<1>1. /\ tx \in [Transactions -> TxType]
      /\ tx' = [tx EXCEPT ![t] = Idle]
      /\ UNCHANGED <<catalogue, edits, changes, faults>>
  BY DEF IInv, TypeOK, Commit, TxType, counters
<1>2. /\ tx'[t] = Idle
      /\ \A u \in Transactions \ {t} : tx'[u] = tx[u]
      /\ Idle.pc = "idle" /\ Idle.fresh = {}
  BY <1>1 DEF Idle
<1>3. TypeOK'
  BY <1>1, CommitRows, IdleType DEF IInv, TypeOK, TxType
<1>4. FetchedInv' /\ FreshInv' /\ SyncInv'
  BY <1>2 DEF IInv, FetchedInv, FreshInv, SyncInv
<1>5. FlushInv'
  <2> SUFFICES ASSUME NEW u \in Transactions, tx'[u].pc = "flushed"
               PROVE  /\ tx'[u].fresh \cap DOMAIN rows' = {}
                      /\ \A v \in Transactions \ {u} :
                           tx'[v].pc = "flushed" => DOMAIN tx'[u].writes \cap DOMAIN tx'[v].writes = {}
    BY DEF FlushInv
  <2>1. u # t /\ tx'[u] = tx[u]
    BY <1>2
  <2>2. \A c \in tx[t].fresh : c \in DOMAIN tx[t].writes
    BY DEF IInv, FreshInv
  <2>3. \A c \in tx[u].fresh : c \in DOMAIN tx[u].writes
    BY DEF IInv, FreshInv
  <2>4. DOMAIN tx[u].writes \cap DOMAIN tx[t].writes = {}
    BY <2>1 DEF IInv, FlushInv, Commit
  <2>5. tx'[u].fresh \cap DOMAIN rows' = {}
    BY <2>1, <2>2, <2>3, <2>4, CommitRows DEF IInv, FlushInv
  <2>6. ASSUME NEW v \in Transactions \ {u}, tx'[v].pc = "flushed"
        PROVE  DOMAIN tx'[u].writes \cap DOMAIN tx'[v].writes = {}
    BY <1>2, <2>1, <2>6 DEF IInv, FlushInv
  <2> QED
    BY <2>5, <2>6
<1> QED
  BY <1>3, <1>4, <1>5 DEF IInv

\* A transaction that fails, for whatever reason.
LEMMA EndStep ==
  ASSUME IInv, NEW t \in Transactions, IntegrityError(t) \/ EntryRaises(t) \/ Fails(t)
  PROVE  IInv'
<1>1. Rollback(t) /\ UNCHANGED <<catalogue, rows, edits, changes>>
  BY DEF IntegrityError, EntryRaises, Fails, counters
<1>2. faults' \in 0..MaxFaults
  BY RegistryAssumptions DEF IInv, TypeOK, IntegrityError, EntryRaises, Fails, counters
<1> QED
  BY <1>1, <1>2, RollbackStep DEF IInv, TypeOK, TxType

LEMMA RestartStep ==
  ASSUME IInv, Restart
  PROVE  IInv'
<1>1. /\ \A t \in Transactions : tx'[t] = Idle
      /\ tx' \in [Transactions -> TxType]
      /\ Idle.pc = "idle" /\ Idle.fresh = {}
  BY IdleType DEF Restart, Idle
<1>2. TypeOK'
  BY <1>1, RegistryAssumptions DEF IInv, TypeOK, Restart, TxType
<1>3. FetchedInv' /\ FreshInv' /\ SyncInv' /\ FlushInv'
  BY <1>1 DEF FetchedInv, FreshInv, SyncInv, FlushInv
<1> QED
  BY <1>2, <1>3 DEF IInv

LEMMA FetchStep ==
  ASSUME IInv, NEW t \in Transactions, Fetch(t), edits' \in 0..MaxEdits
  PROVE  IInv'
<1> DEFINE new == [Idle EXCEPT !.pc = "fetched", !.sync = TRUE, !.entries = catalogue]
<1>1. catalogue \in [Cameras -> Entry]
  BY DEF IInv, TypeOK
<1>2. catalogue \in Partial(Entry)
  BY <1>1 DEF Partial
<1>3. new \in TxType /\ new.pc = "fetched" /\ new.entries = catalogue /\ new.fresh = {}
  BY <1>2, IdleType DEF Idle, TxType
<1>4. tx' = [tx EXCEPT ![t] = new] /\ UNCHANGED <<catalogue, rows, changes, faults>>
  BY DEF Fetch
<1> HIDE DEF new
<1>5. /\ tx' \in [Transactions -> TxType]
      /\ FetchedInv' /\ FreshInv' /\ SyncInv' /\ FlushInv'
  BY <1>1, <1>3, <1>4, PendingStep
<1> QED
  BY <1>4, <1>5 DEF IInv, TypeOK, TxType

\* What a sync writes of one camera.
LEMMA SyncedFacts ==
  ASSUME IInv, NEW c \in Cameras, NEW entry \in Entry
  PROVE  /\ Synced(c, entry) \in Write
         /\ c \notin DOMAIN rows => Synced(c, entry) \in Row /\ Synced(c, entry) # Nothing
         /\ c \in DOMAIN rows => Synced(c, entry).jurisdiction = Keep
         /\ c \in DOMAIN rows /\ rows[c].location # None => Synced(c, entry).location = Keep
<1>1. CASE c \in DOMAIN rows
  <2>1. Changed(None, entry.location) \in Column(Locations)
    BY DEF Changed, Column, Locations, Entry
  <2>2. \A l : [Nothing EXCEPT !.location = l] = [jurisdiction |-> Keep, location |-> l, active |-> Keep]
    BY DEF Nothing
  <2>3. \A l \in Column(Locations) : [jurisdiction |-> Keep, location |-> l, active |-> Keep] \in Write
    BY DEF Write, Column
  <2>4. Keep \in Column(Locations)
    BY DEF Column
  <2>5. CASE rows[c].location = None
    BY <1>1, <2>1, <2>2, <2>3, <2>5 DEF Synced
  <2>6. CASE rows[c].location # None
    BY <1>1, <2>2, <2>3, <2>4, <2>6 DEF Synced
  <2> QED
    BY <2>5, <2>6
<1>2. CASE c \notin DOMAIN rows
  <2>1. Synced(c, entry) = [jurisdiction |-> Match[c], location |-> entry.location, active |-> TRUE]
    BY <1>2 DEF Synced
  <2>2. /\ Match[c] \in Jurisdictions \cup {None} /\ Match[c] # Keep
        /\ entry.location \in Locations
    BY RegistryAssumptions DEF Entry, Locations
  <2>3. Synced(c, entry) \in Row /\ Synced(c, entry) \in Write
    BY <2>1, <2>2 DEF Row, Write, Column
  <2>4. Synced(c, entry).jurisdiction # Nothing.jurisdiction
    BY <2>1, <2>2 DEF Nothing
  <2> QED
    BY <1>2, <2>3, <2>4
<1> QED
  BY <1>1, <1>2

LEMMA ComputeStep ==
  ASSUME IInv, NEW t \in Transactions, Compute(t)
  PROVE  IInv'
<1> DEFINE entries == tx[t].entries
           there == {c \in Cameras : entries[c].listed}
           D == {d \in there : Synced(d, entries[d]) # Nothing}
           writes == [c \in D |-> Synced(c, entries[c])]
           fresh == there \ DOMAIN rows
           located == {c \in DOMAIN rows : rows[c].location # None}
           new == [pc |-> "pending", sync |-> TRUE, entries |-> NoRows, writes |-> writes,
                   fresh |-> fresh, located |-> located]
<1>1. tx' = [tx EXCEPT ![t] = new] /\ UNCHANGED <<catalogue, rows, edits, changes, faults>>
  BY DEF Compute, counters
<1>2. entries \in [Cameras -> Entry]
  BY DEF Compute, IInv, FetchedInv
<1>3. \A c \in Cameras : entries[c] \in Entry
  BY <1>2
<1>4. D \subseteq Cameras /\ fresh \subseteq Cameras /\ located \subseteq Cameras
  BY RowFacts DEF IInv
<1>5. \A c \in D : writes[c] = Synced(c, entries[c]) /\ writes[c] \in Write
  BY <1>3, <1>4, SyncedFacts
<1>6. writes \in Partial(Write)
  <2>1. writes \in [D -> Write]
    BY <1>5
  <2> QED
    BY <1>4, <2>1 DEF Partial
<1>7. new \in TxType
  BY <1>4, <1>6, IdleType DEF TxType
<1>8. \A c \in fresh : c \in D /\ writes[c] \in Row
  BY <1>3, <1>5, SyncedFacts
<1>9. \A c \in D \ fresh :
        /\ writes[c].jurisdiction = Keep
        /\ c \in located => writes[c].location = Keep
  BY <1>3, <1>4, <1>5, SyncedFacts
<1>10. /\ new.pc = "pending" /\ new.writes = writes /\ DOMAIN new.writes = D
       /\ new.fresh = fresh /\ new.located = located
  OBVIOUS
<1> HIDE DEF new, writes, fresh, located, D, there
<1>11. /\ tx' \in [Transactions -> TxType]
       /\ FetchedInv' /\ FreshInv' /\ SyncInv' /\ FlushInv'
  BY <1>1, <1>7, <1>8, <1>9, <1>10, PendingStep
<1> QED
  BY <1>1, <1>11 DEF IInv, TypeOK, TxType

\* A request that changes one camera by hand.
LEMMA ByHandStep ==
  ASSUME IInv, NEW r \in Requests, NEW c \in Cameras, NEW write \in Write,
         NEW fresh \in SUBSET {c}, fresh # {} => write \in Row,
         Pending(r, [d \in {c} |-> write], fresh),
         Asked(r), UNCHANGED <<catalogue, rows, changes, faults>>
  PROVE  IInv'
<1> DEFINE writes == [d \in {c} |-> write]
           new == [Idle EXCEPT !.pc = "pending", !.writes = writes, !.fresh = fresh]
<1>1. tx' = [tx EXCEPT ![r] = new] /\ r \in Transactions
  BY DEF Pending, Transactions
<1>2. writes \in Partial(Write)
  <2>1. writes \in [{c} -> Write] /\ {c} \in SUBSET Cameras
    OBVIOUS
  <2> QED
    BY <2>1 DEF Partial
<1>3. /\ new \in TxType
      /\ new.pc = "pending" /\ new.sync = FALSE /\ new.fresh = fresh /\ new.writes = writes
  BY <1>2, IdleType DEF Idle, TxType
<1>4. \A d \in fresh : d \in DOMAIN writes /\ writes[d] \in Row
  OBVIOUS
<1>5. edits' \in 0..MaxEdits
  BY RegistryAssumptions DEF Asked, IInv, TypeOK
<1> HIDE DEF new, writes
<1>6. /\ tx' \in [Transactions -> TxType]
      /\ FetchedInv' /\ FreshInv' /\ SyncInv' /\ FlushInv'
  BY <1>1, <1>3, <1>4, PendingStep
<1> QED
  BY <1>5, <1>6 DEF IInv, TypeOK, TxType

LEMMA UpdateStep ==
  ASSUME IInv, NEW r \in Requests, NEW u \in Users, NEW c \in Cameras,
         NEW patch, patch.jurisdiction \in Column(Jurisdictions \cup {None}),
         patch.location \in Column(Locations), patch.active \in Column(BOOLEAN),
         UpdateCamera(r, u, c, patch)
  PROVE  IInv'
<1> DEFINE write == [jurisdiction |-> Changed(rows[c].jurisdiction, patch.jurisdiction),
                     location |-> patch.location,
                     active |-> Changed(rows[c].active, patch.active)]
<1>1. write \in Write
  BY DEF Changed, Column, Write
<1>2. /\ Pending(r, [d \in {c} |-> write], {})
      /\ Asked(r) /\ UNCHANGED <<catalogue, rows, changes, faults>>
  BY DEF UpdateCamera
<1> HIDE DEF write
<1> DEFINE fresh == {}
<1>3. fresh \in SUBSET {c} /\ fresh = {}
  OBVIOUS
<1>4. Pending(r, [d \in {c} |-> write], fresh)
  BY <1>2
<1> HIDE DEF fresh
<1> QED
  BY <1>1, <1>2, <1>3, <1>4, ByHandStep

LEMMA EndpointStep ==
  ASSUME IInv, NEW r \in Requests, NEW u \in Users, Endpoint(r, u)
  PROVE  IInv'
<1>1. CASE SyncCameras(r, u)
  <2>1. edits' \in 0..MaxEdits
    BY <1>1, RegistryAssumptions DEF SyncCameras, Asked, IInv, TypeOK
  <2> QED
    BY <1>1, <2>1, FetchStep DEF SyncCameras, Transactions
<1>2. ASSUME NEW c \in Cameras, NEW j \in Jurisdictions \cup {None}, NEW l \in {None, ByHand},
             CreateCamera(r, u, c, j, l)
      PROVE  IInv'
  <2> DEFINE write == [jurisdiction |-> j, location |-> l, active |-> TRUE]
  <2>1. write \in Row /\ write \in Write
    BY DEF Row, Write, Column, Locations
  <2>2. /\ Pending(r, [d \in {c} |-> write], {c})
        /\ Asked(r) /\ UNCHANGED <<catalogue, rows, changes, faults>>
    BY <1>2 DEF CreateCamera
  <2> HIDE DEF write
  <2> QED
    BY <2>1, <2>2, ByHandStep
<1>3. ASSUME NEW c \in Cameras, NEW patch \in Patches, UpdateCamera(r, u, c, patch)
      PROVE  IInv'
  <2>1. /\ patch.jurisdiction \in Column(Jurisdictions \cup {None})
        /\ patch.location \in Column(Locations) /\ patch.active \in Column(BOOLEAN)
    BY DEF Patches, Column, Locations
  <2> QED
    BY <1>3, <2>1, UpdateStep
<1>4. ASSUME NEW c \in Cameras, DeactivateCamera(r, u, c)
      PROVE  IInv'
  <2> DEFINE patch == [Nothing EXCEPT !.active = FALSE]
  <2>1. /\ patch.jurisdiction \in Column(Jurisdictions \cup {None})
        /\ patch.location \in Column(Locations) /\ patch.active \in Column(BOOLEAN)
    BY DEF Nothing, Column
  <2>2. UpdateCamera(r, u, c, patch)
    BY <1>4 DEF DeactivateCamera
  <2> HIDE DEF patch
  <2> QED
    BY <2>1, <2>2, UpdateStep
<1> QED
  BY <1>1, <1>2, <1>3, <1>4 DEF Endpoint

LEMMA StutterStep ==
  ASSUME IInv, UNCHANGED <<rows, tx>>, catalogue' \in [Cameras -> Entry],
         edits' = edits, changes' \in 0..MaxChanges, faults' = faults
  PROVE  IInv'
BY DEF IInv, TypeOK, FetchedInv, FreshInv, SyncInv, FlushInv

LEMMA StepInv ==
  IInv /\ [Next]_vars => IInv'
<1> SUFFICES ASSUME IInv, [Next]_vars
             PROVE  IInv'
  OBVIOUS
<1>1. CASE Tick
  <2>1. edits' \in 0..MaxEdits
    BY <1>1 DEF Tick, IInv, TypeOK
  <2> QED
    BY <1>1, <2>1, FetchStep DEF Tick, Transactions
<1>2. ASSUME NEW t \in Transactions, Proceeds(t) \/ Fails(t)
      PROVE  IInv'
  BY <1>2, ComputeStep, FlushStep, CommitStep, EndStep DEF Proceeds
<1>3. ASSUME NEW r \in Requests, NEW u \in Users, Endpoint(r, u)
      PROVE  IInv'
  BY <1>3, EndpointStep
<1>4. ASSUME NEW c \in Cameras, CatalogueChanges(c)
      PROVE  IInv'
  <2>1. catalogue' \in [Cameras -> Entry] /\ changes' \in 0..MaxChanges
    BY <1>4, RegistryAssumptions DEF CatalogueChanges, IInv, TypeOK
  <2> QED
    BY <1>4, <2>1, StutterStep DEF CatalogueChanges
<1>5. CASE Restart
  BY <1>5, RestartStep
<1>6. CASE UNCHANGED vars
  BY <1>6, StutterStep DEF vars, IInv, TypeOK
<1> QED
  BY <1>1, <1>2, <1>3, <1>4, <1>5, <1>6 DEF Next

LEMMA InitInv ==
  Init => IInv
<1> SUFFICES ASSUME Init
             PROVE  IInv
  OBVIOUS
<1>1. /\ \A t \in Transactions : tx[t] = Idle
      /\ tx \in [Transactions -> TxType]
      /\ Idle.pc = "idle" /\ Idle.fresh = {}
  BY IdleType DEF Init, Fresh, Idle
<1>2. TypeOK
  BY <1>1, IdleType, RegistryAssumptions DEF Init, Fresh, TypeOK, TxType
<1>3. FetchedInv /\ FreshInv /\ SyncInv /\ FlushInv
  BY <1>1 DEF FetchedInv, FreshInv, SyncInv, FlushInv
<1> QED
  BY <1>2, <1>3 DEF IInv

LEMMA Invariance ==
  Spec => []IInv
BY InitInv, StepInv, PTL DEF Spec

-----------------------------------------------------------------------------
\* The type invariant holds for any registry.
THEOREM TypeCorrect ==
  Spec => []TypeOK
<1>1. IInv => TypeOK
  BY DEF IInv
<1> QED
  BY <1>1, Invariance, PTL

\* Only a commit changes rows, and it ends no other transaction.
LEMMA CommitSpares ==
  ASSUME IInv, [Next]_vars, NEW t \in Transactions, NEW c \in DOMAIN rows,
         tx[t].sync, tx[t].pc = "flushed", tx'[t].pc = "idle"
  PROVE  /\ rows'[c].jurisdiction = rows[c].jurisdiction
         /\ c \in tx[t].located => rows'[c].location = rows[c].location
<1>1. rows' = rows \/ \E u \in Transactions : Commit(u)
  BY DEF Next, Tick, Fetch, Proceeds, Compute, EntryRaises, Flush, IntegrityError, Fails, Endpoint,
    SyncCameras, CreateCamera, DeactivateCamera, UpdateCamera, CatalogueChanges, Restart, vars
<1>2. CASE rows' = rows
  BY <1>2
<1>3. ASSUME NEW u \in Transactions, Commit(u)
      PROVE  /\ rows'[c].jurisdiction = rows[c].jurisdiction
             /\ c \in tx[t].located => rows'[c].location = rows[c].location
  <2>1. u = t
    BY <1>3 DEF Commit, IInv, TypeOK
  <2>2. c \notin tx[t].fresh
    BY DEF IInv, FlushInv
  <2>3. CASE c \in DOMAIN tx[t].writes
    <3>1. /\ rows'[c] = Merged(rows[c], tx[t].writes[c])
          /\ rows[c] \in Row /\ tx[t].writes[c] \in Write
      BY <1>3, <2>1, <2>2, <2>3, CommitRows, RowFacts, TxFacts DEF IInv
    <3>2. /\ tx[t].writes[c].jurisdiction = Keep
          /\ c \in tx[t].located => tx[t].writes[c].location = Keep
      BY <2>2, <2>3 DEF IInv, SyncInv
    <3> QED
      BY <3>1, <3>2, MergedFacts
  <2>4. CASE c \notin DOMAIN tx[t].writes
    BY <1>3, <2>1, <2>2, <2>4, CommitRows
  <2> QED
    BY <2>3, <2>4
<1> QED
  BY <1>1, <1>2, <1>3

\* Whatever syncs, requests and failures overlap, no commit of a sync undoes a
\* jurisdiction, or a location that it has read.
THEOREM SyncsAlwaysSpareHandwork ==
  Spec => SyncsSpareHandwork
<1> DEFINE Spares ==
      \A t \in Transactions, c \in DOMAIN rows :
        tx[t].sync /\ tx[t].pc = "flushed" /\ tx'[t].pc = "idle"
          => /\ rows'[c].jurisdiction = rows[c].jurisdiction
             /\ c \in tx[t].located => rows'[c].location = rows[c].location
<1>1. IInv /\ [Next]_vars => [Spares]_vars
  BY CommitSpares
<1> QED
  BY <1>1, Invariance, PTL DEF Spec, SyncsSpareHandwork
-----------------------------------------------------------------------------
\* In a single tree, the grant at the root covers everything.
LEMMA StatewideCoversAll ==
  ASSUME NEW u \in Users, Statewide(u)
  PROVE  Scope(u) = Jurisdictions
<1>1. PICK root \in Granted[u] : Parent[root] = None
  BY DEF Statewide
<1>2. root \in Jurisdictions
  BY RegistryAssumptions
<1>3. ASSUME NEW S \in SUBSET Jurisdictions, Granted[u] \subseteq S, ClosedBelow(S)
      PROVE  Jurisdictions \subseteq S
  <2> SUFFICES ASSUME Jurisdictions \ S # {}
               PROVE  FALSE
    OBVIOUS
  <2>1. PICK j \in Jurisdictions \ S : Parent[j] \notin Jurisdictions \ S
    BY TreeAssumption
  <2>2. CASE Parent[j] = None
    BY <1>1, <1>2, <1>3, <2>1, <2>2, TreeAssumption
  <2>3. CASE Parent[j] # None
    BY <1>3, <2>1, <2>3, RegistryAssumptions DEF ClosedBelow
  <2> QED
    BY <2>2, <2>3
<1> QED
  BY <1>3 DEF Scope

\* Whatever was committed, what the list shows to a user opens for them, and a
\* manager with the statewide grant opens every camera and is shown the active
\* ones (api/cameras.py, _authorize_camera_access and list_cameras).
THEOREM RegistryAlwaysReachable ==
  Spec => []RegistryIsReachable
<1>1. TypeOK => RegistryIsReachable
  <2> SUFFICES ASSUME TypeOK, NEW u \in Users
               PROVE  /\ \A c \in Listed(u) : Opens(u, c)
                      /\ u \in Managers /\ Statewide(u) =>
                           \A c \in DOMAIN rows : Opens(u, c) /\ (rows[c].active => c \in Listed(u))
    BY DEF RegistryIsReachable
  <2>1. \A c \in DOMAIN rows : rows[c].jurisdiction \in Jurisdictions \cup {None}
    BY RowFacts DEF Row
  <2>2. Scope(u) \subseteq Jurisdictions /\ None \notin Jurisdictions
    BY RegistryAssumptions DEF Scope
  <2>3. \A c \in Listed(u) : Opens(u, c)
    BY <2>2 DEF Listed, Opens, Authorized
  <2>4. ASSUME u \in Managers, Statewide(u), NEW c \in DOMAIN rows
        PROVE  Opens(u, c) /\ (rows[c].active => c \in Listed(u))
    BY <2>1, <2>4, StatewideCoversAll DEF Listed, Opens, Authorized
  <2> QED
    BY <2>3, <2>4
<1> QED
  BY <1>1, TypeCorrect, PTL
=============================================================================
