---------------------------- MODULE CameraRegistry ----------------------------
(***************************************************************************)
(* The camera registry of the API: the rows of the cameras table, the sync *)
(* that fills them from the gateway's catalogue (camera_registry_sync.py,  *)
(* run by camera_sync_scheduler.py and by POST /cameras/sync) and the      *)
(* endpoints that change them by hand (api/cameras.py).                    *)
(*                                                                         *)
(* Each is a transaction: it reads committed rows, computes from what it   *)
(* has read the columns it changes, writes these at its flush, where it    *)
(* waits for another that has written one of its rows, and commits. The    *)
(* name, the department and the stream columns are left out: every sync    *)
(* overwrites them. A refused request changes nothing here; AuditChain has *)
(* what becomes of its record.                                             *)
(***************************************************************************)
EXTENDS Naturals

CONSTANTS
  Cameras,
  Jurisdictions,
  Parent,     \* the node above each jurisdiction, or None
  Match,      \* the jurisdiction that each camera's department names, or None
  Users,
  Managers,   \* the users with camera:manage
  Granted,    \* the jurisdictions granted to each user
  Requests,   \* requests under way at once
  MaxEdits,   \* bound on requests
  MaxChanges, \* bound on changes of the catalogue
  MaxFaults,  \* bound on failures
  None, Geocoded, ByHand, Scheduler, Keep

ASSUME RegistryAssumptions ==
  /\ Scheduler \notin Requests
  /\ None \notin Jurisdictions
  /\ Keep \notin Jurisdictions \cup {None, Geocoded, ByHand}
  /\ Parent \in [Jurisdictions -> Jurisdictions \cup {None}]
  /\ Match \in [Cameras -> Jurisdictions \cup {None}]
  /\ Granted \in [Users -> SUBSET Jurisdictions]
  /\ {MaxEdits, MaxChanges, MaxFaults} \subseteq Nat

\* "a single jurisdiction tree, rooted at one 'statewide' node" (models/rbac.py):
\* one node has no parent, and going up from any other never goes in a circle.
ASSUME TreeAssumption ==
  /\ \A j, k \in Jurisdictions : Parent[j] = None /\ Parent[k] = None => j = k
  /\ \A S \in SUBSET Jurisdictions : S # {} => \E j \in S : Parent[j] \notin S

Transactions == Requests \cup {Scheduler}
Locations == {None, Geocoded, ByHand}

VARIABLES
  catalogue, \* camera -> what the gateway says of it
  rows,      \* the cameras table, as committed: camera_id -> its columns
  tx,        \* the transactions under way
  edits, changes, faults

vars == <<catalogue, rows, tx, edits, changes, faults>>
counters == <<edits, changes, faults>>

Column(T) == T \cup {Keep}
Partial(T) == UNION {[D -> T] : D \in SUBSET Cameras}

\* A camera of the catalogue may have no coordinates yet, and an entry may be
\* one that the sync raises on. A write has the columns that change.
Entry == [listed : BOOLEAN, location : {None, Geocoded}, malformed : BOOLEAN]
Row == [jurisdiction : Jurisdictions \cup {None}, location : Locations, active : BOOLEAN]
Write == [jurisdiction : Column(Jurisdictions \cup {None}), location : Column(Locations),
          active : Column(BOOLEAN)]

\* Of the rows a transaction writes, fresh are those it inserts; located are
\* the rows that a sync has read with a location.
TypeOK ==
  /\ catalogue \in [Cameras -> Entry]
  /\ rows \in Partial(Row)
  /\ tx \in [Transactions -> [pc : {"idle", "fetched", "pending", "flushed"}, sync : BOOLEAN,
                              entries : Partial(Entry), writes : Partial(Write),
                              fresh : SUBSET Cameras, located : SUBSET Cameras]]
  /\ edits \in 0..MaxEdits /\ changes \in 0..MaxChanges /\ faults \in 0..MaxFaults

NoRows == [c \in {} |-> None]
Idle == [pc |-> "idle", sync |-> FALSE, entries |-> NoRows, writes |-> NoRows, fresh |-> {}, located |-> {}]

\* an empty registry
Fresh ==
  /\ rows = NoRows
  /\ tx = [t \in Transactions |-> Idle]
  /\ edits = 0 /\ changes = 0 /\ faults = 0

Init ==
  /\ Fresh
  /\ catalogue \in [Cameras -> Entry]

-----------------------------------------------------------------------------
(* Who may do what *)

\* S has, with each jurisdiction, the ones below it
ClosedBelow(S) == \A j \in Jurisdictions : Parent[j] \in S => j \in S

\* what the recursive query returns: the least set that has the grants of u and
\* whatever is below
Scope(u) ==
  {j \in Jurisdictions :
     \A S \in SUBSET Jurisdictions : Granted[u] \subseteq S /\ ClosedBelow(S) => j \in S}

Statewide(u) == \E j \in Granted[u] : Parent[j] = None

\* A bug: nobody may open a camera that is in no jurisdiction yet.
AuthorizedMutant(u, camera) == camera.jurisdiction \in Scope(u)

\* _authorize_camera_access: an unassigned camera is for those who can assign it
Authorized(u, camera) ==
  IF camera.jurisdiction = None THEN u \in Managers ELSE camera.jurisdiction \in Scope(u)

\* GET /cameras
Listed(u) ==
  {c \in DOMAIN rows : /\ rows[c].active
                       /\ \/ rows[c].jurisdiction \in Scope(u)
                          \/ u \in Managers /\ rows[c].jurisdiction = None}

\* GET /cameras/{camera_id}
Opens(u, c) == c \in DOMAIN rows /\ Authorized(u, rows[c])

-----------------------------------------------------------------------------
(* Transactions *)

Nothing == [jurisdiction |-> Keep, location |-> Keep, active |-> Keep]
Changed(old, new) == IF old = new THEN Keep ELSE new

Pending(t, writes, fresh) ==
  tx' = [tx EXCEPT ![t] = [Idle EXCEPT !.pc = "pending", !.writes = writes, !.fresh = fresh]]

Rollback(t) == tx' = [tx EXCEPT ![t] = Idle]

Waits(t) == \E u \in Transactions \ {t} :
  tx[u].pc = "flushed" /\ DOMAIN tx[u].writes \cap DOMAIN tx[t].writes # {}

\* the columns are written, under the locks of their rows
Flush(t) ==
  /\ tx[t].pc = "pending"
  /\ ~Waits(t)
  /\ tx[t].fresh \cap DOMAIN rows = {}
  /\ tx' = [tx EXCEPT ![t].pc = "flushed"]
  /\ UNCHANGED <<catalogue, rows, counters>>

\* A camera that was new when it was read is there: the unique key of camera_id
\* fails the transaction with all its changes.
IntegrityError(t) ==
  /\ tx[t].pc = "pending"
  /\ ~Waits(t)
  /\ tx[t].fresh \cap DOMAIN rows # {}
  /\ Rollback(t)
  /\ UNCHANGED <<catalogue, rows, counters>>

Merged(row, write) == [k \in DOMAIN row |-> IF write[k] = Keep THEN row[k] ELSE write[k]]

Commit(t) ==
  /\ tx[t].pc = "flushed"
  /\ rows' = [c \in DOMAIN rows \cup tx[t].fresh |->
                IF c \in tx[t].fresh THEN tx[t].writes[c]
                ELSE IF c \in DOMAIN tx[t].writes THEN Merged(rows[c], tx[t].writes[c])
                ELSE rows[c]]
  /\ tx' = [tx EXCEPT ![t] = Idle]
  /\ UNCHANGED <<catalogue, counters>>

\* a query, the request to the gateway or the commit fails
Fails(t) ==
  /\ tx[t].pc # "idle"
  /\ faults < MaxFaults
  /\ faults' = faults + 1
  /\ Rollback(t)
  /\ UNCHANGED <<catalogue, rows, edits, changes>>

\* the API stops: what was not committed is gone
Restart ==
  /\ faults < MaxFaults
  /\ faults' = faults + 1
  /\ tx' = [t \in Transactions |-> Idle]
  /\ UNCHANGED <<catalogue, rows, edits, changes>>

-----------------------------------------------------------------------------
(* The sync *)

\* the catalogue is fetched before the first row is read
Fetch(t) ==
  /\ tx[t].pc = "idle"
  /\ tx' = [tx EXCEPT ![t] = [Idle EXCEPT !.pc = "fetched", !.sync = TRUE, !.entries = catalogue]]
  /\ UNCHANGED <<catalogue, rows, changes, faults>>

\* A bug: a jurisdiction is set like a location, whenever there is none.
SyncedMutant(c, entry) ==
  IF c \in DOMAIN rows
  THEN [Nothing EXCEPT !.jurisdiction = IF rows[c].jurisdiction = None THEN Changed(None, Match[c]) ELSE Keep,
                       !.location = IF rows[c].location = None THEN Changed(None, entry.location) ELSE Keep]
  ELSE [jurisdiction |-> Match[c], location |-> entry.location, active |-> TRUE]

\* A bug: a location is set when the row is made, and not later.
SyncedOnceMutant(c, entry) ==
  IF c \in DOMAIN rows THEN Nothing
  ELSE [jurisdiction |-> Match[c], location |-> entry.location, active |-> TRUE]

\* What a sync writes of a camera: all of a new one; of one that it has read,
\* the location, if it has read none.
Synced(c, entry) ==
  IF c \in DOMAIN rows
  THEN [Nothing EXCEPT !.location = IF rows[c].location = None THEN Changed(None, entry.location) ELSE Keep]
  ELSE [jurisdiction |-> Match[c], location |-> entry.location, active |-> TRUE]

Compute(t) ==
  /\ tx[t].pc = "fetched"
  /\ \E entries \in {tx[t].entries} :
       \E there \in {{c \in Cameras : entries[c].listed}} :
         /\ ~\E c \in there : entries[c].malformed
         /\ tx' = [tx EXCEPT ![t] =
                     [pc |-> "pending", sync |-> TRUE, entries |-> NoRows,
                      writes |-> [c \in {d \in there : Synced(d, entries[d]) # Nothing} |-> Synced(c, entries[c])],
                      fresh |-> there \ DOMAIN rows,
                      located |-> {c \in DOMAIN rows : rows[c].location # None}]]
  /\ UNCHANGED <<catalogue, rows, counters>>

\* one entry that it cannot read ends the whole sync
EntryRaises(t) ==
  /\ tx[t].pc = "fetched"
  /\ \E c \in Cameras : tx[t].entries[c].listed /\ tx[t].entries[c].malformed
  /\ Rollback(t)
  /\ UNCHANGED <<catalogue, rows, counters>>

\* the timer of the scheduler; whatever a sync raises, there is a next one
Tick == Fetch(Scheduler) /\ UNCHANGED edits

-----------------------------------------------------------------------------
(* The endpoints *)

Asked(r) == tx[r].pc = "idle" /\ edits < MaxEdits /\ edits' = edits + 1

\* POST /cameras/sync
SyncCameras(r, u) ==
  /\ Asked(r)
  /\ u \in Managers
  /\ Statewide(u)
  /\ Fetch(r)

\* POST /cameras, for a camera that is not there when it looks
CreateCamera(r, u, c, jurisdiction, location) ==
  /\ Asked(r)
  /\ u \in Managers
  /\ c \notin DOMAIN rows
  /\ jurisdiction # None => jurisdiction \in Scope(u)
  /\ Pending(r, [d \in {c} |-> [jurisdiction |-> jurisdiction, location |-> location, active |-> TRUE]], {c})
  /\ UNCHANGED <<catalogue, rows, changes, faults>>

\* The columns of a PATCH. A location is written although it is the same; one
\* coordinate without the other is no location.
Patches == [jurisdiction : Column(Jurisdictions \cup {None}), location : {ByHand, None, Keep}, active : Column(BOOLEAN)]

\* PATCH /cameras/{camera_id}; what is already so is not written
UpdateCamera(r, u, c, patch) ==
  /\ Asked(r)
  /\ u \in Managers
  /\ Opens(u, c)
  /\ patch.jurisdiction \notin {None, Keep, rows[c].jurisdiction} => patch.jurisdiction \in Scope(u)
  /\ \E write \in {[jurisdiction |-> Changed(rows[c].jurisdiction, patch.jurisdiction),
                    location |-> patch.location,
                    active |-> Changed(rows[c].active, patch.active)]} :
       /\ write # Nothing
       /\ Pending(r, [d \in {c} |-> write], {})
  /\ UNCHANGED <<catalogue, rows, changes, faults>>

\* DELETE /cameras/{camera_id}
DeactivateCamera(r, u, c) == UpdateCamera(r, u, c, [Nothing EXCEPT !.active = FALSE])

-----------------------------------------------------------------------------
(* The gateway *)

\* a camera comes or goes, is located, or its entry breaks or is repaired
CatalogueChanges(c) ==
  /\ changes < MaxChanges
  /\ changes' = changes + 1
  /\ \E entry \in Entry :
       catalogue' = [catalogue EXCEPT ![c] = entry]
  /\ UNCHANGED <<rows, tx, edits, faults>>

Proceeds(t) == Compute(t) \/ EntryRaises(t) \/ Flush(t) \/ IntegrityError(t) \/ Commit(t)

Endpoint(r, u) ==
  \/ SyncCameras(r, u)
  \/ \E c \in Cameras :
       \/ \E j \in Jurisdictions \cup {None}, l \in {None, ByHand} : CreateCamera(r, u, c, j, l)
       \/ \E patch \in Patches : UpdateCamera(r, u, c, patch)
       \/ DeactivateCamera(r, u, c)

Next ==
  \/ Tick
  \/ \E t \in Transactions : Proceeds(t) \/ Fails(t)
  \/ \E r \in Requests, u \in Users : Endpoint(r, u)
  \/ \E c \in Cameras : CatalogueChanges(c)
  \/ Restart

\* The scheduler's loop goes on, and so does a transaction that has begun.
Fairness == WF_vars(Tick) /\ \A t \in Transactions : WF_vars(Proceeds(t))

Spec == Init /\ [][Next]_vars
FairSpec == Spec /\ Fairness

-----------------------------------------------------------------------------
(* Properties *)

\* A commit of a sync changes neither the jurisdiction of a camera that is there
\* nor a location that the sync has read, whatever was read, set and committed
\* meanwhile. A location that was set by hand after the sync has read the row is
\* overwritten.
SyncsSpareHandwork ==
  [][\A t \in Transactions, c \in DOMAIN rows :
       tx[t].sync /\ tx[t].pc = "flushed" /\ tx'[t].pc = "idle"
         => /\ rows'[c].jurisdiction = rows[c].jurisdiction
            /\ c \in tx[t].located => rows'[c].location = rows[c].location]_vars

\* No camera is lost to those who manage all of them: a manager with the
\* statewide grant can open every row and finds the active ones in the list;
\* and whatever the list shows, to anyone, opens.
RegistryIsReachable ==
  \A u \in Users :
    /\ \A c \in Listed(u) : Opens(u, c)
    /\ u \in Managers /\ Statewide(u) =>
         \A c \in DOMAIN rows : Opens(u, c) /\ (rows[c].active => c \in Listed(u))

\* A camera that the catalogue goes on listing is registered in the end, and
\* located once the catalogue knows where it is, whichever syncs failed, were
\* cut short or lost the race for a row: unless an entry goes on being
\* malformed, its own or another's.
ListedIsRegistered ==
  \A c \in Cameras :
    <>[](catalogue[c].listed /\ \A d \in Cameras : catalogue[d].listed => ~catalogue[d].malformed)
      => <>[](c \in DOMAIN rows /\ (catalogue[c].location # None => rows[c].location # None))
=============================================================================
