-------------------------- MODULE EvidenceLifecycle --------------------------
(***************************************************************************)
(* The images that document a plate read or a vehicle, from disk to court: *)
(* snapshot.py saves them under a name made of plate and time, or of the   *)
(* track id; the consumers store the rows that name them; evidence_export  *)
(* bundles those of a search, with their digests, and records the digest   *)
(* of the bundle; cleanup_expired_evidence deletes what is too old. Four   *)
(* programs that share a directory and two tables, and no lock.            *)
(*                                                                         *)
(* An image is the event it shows, and so is its digest.                   *)
(***************************************************************************)
EXTENDS Naturals, FiniteSets

CONSTANTS
  PlateEvents, VehicleEvents, \* the events, by the table they go to
  Names,     \* file names
  NamesOf,   \* the names under which each event's images are saved
  ArcOf,     \* the name that each file gets in a bundle: the camera and the
             \* last part of its path, without the day between them
  ReadOnly,  \* whether the clean-up runs where the directory is mounted
             \* read-only, as docker-compose.yml does for the api container
  Cleaners,  \* runs of the clean-up, from cron or by hand
  Exports,
  MaxFaults  \* bound on failures

Events == PlateEvents \cup VehicleEvents

ASSUME EvidenceAssumptions ==
  /\ PlateEvents \cap VehicleEvents = {}
  /\ NamesOf \in [Events -> SUBSET Names]
  /\ \A e \in PlateEvents : \E n \in Names : NamesOf[e] = {n}
  /\ ArcOf = [n \in Names |-> ArcOf[n]]
  /\ ReadOnly \in BOOLEAN
  /\ "pending" \notin Events
  /\ MaxFaults \in Nat

VARIABLES
  disk,    \* the directory of the images: name -> image
  stage,   \* each event: new, saved, stored in its table, or deleted from it
  paths,   \* the names that its row records
  expired, \* events older than the retention
  stuck,   \* names whose unlink has failed
  cleaner, \* the runs of the clean-up
  export,  \* the exports under way
  bundle,  \* the zip of each: what is in it, and whether it is closed
  record,  \* evidence_exports: the digest of each bundle
  faults

evidenceVars == <<disk, stage, paths, expired, stuck, cleaner, export, bundle, record, faults>>
evidence == <<disk, stage, paths, expired>>
exporting == <<export, bundle, record>>

Members ==
  [ path : {ArcOf[n] : n \in Names}, event : PlateEvents, image : Events,
    digest : Events \cup {"pending"} ]
Bundles == [members : SUBSET Members, closed : BOOLEAN]

\* A run of the clean-up unlinks the files of the rows it has selected, left are
\* those still to do. An export has the events still to add, and is adding, has
\* just added the file of an event, or has packed the bundle.
EvidenceTypeOK ==
  /\ DOMAIN disk \subseteq Names /\ \A n \in DOMAIN disk : disk[n] \in Events
  /\ stage \in [Events -> {"new", "saved", "stored", "deleted"}]
  /\ paths \in [Events -> SUBSET Names]
  /\ expired \subseteq Events
  /\ stuck \subseteq Names
  /\ cleaner \in [Cleaners -> [busy : BOOLEAN, rows : SUBSET Events, left : SUBSET Names]]
  /\ export \in [Exports -> [pc : {"asked", "adding", "added", "packed", "over"},
                             todo : SUBSET PlateEvents]]
  /\ bundle \in [Exports -> Bundles]
  /\ DOMAIN record \subseteq Exports /\ \A x \in DOMAIN record : record[x] \in Bundles
  /\ faults \in 0..MaxFaults

Rested == [busy |-> FALSE, rows |-> {}, left |-> {}]

EvidenceInit ==
  /\ disk = [n \in {} |-> n]
  /\ stage = [e \in Events |-> "new"]
  /\ paths = [e \in Events |-> {}]
  /\ expired = {}
  /\ stuck = {}
  /\ cleaner = [k \in Cleaners |-> Rested]
  /\ export = [x \in Exports |-> [pc |-> "asked", todo |-> {}]]
  /\ bundle = [x \in Exports |-> [members |-> {}, closed |-> FALSE]]
  /\ record = [x \in {} |-> x]
  /\ faults = 0

Faulty == faults < MaxFaults /\ faults' = faults + 1

-----------------------------------------------------------------------------
(* An event, in the inference service and in the consumers *)

\* Whatever is there under the names is overwritten. The names are recorded.
Save(e) ==
  /\ stage[e] = "new"
  /\ disk' = [n \in DOMAIN disk \cup NamesOf[e] |-> IF n \in NamesOf[e] THEN e ELSE disk[n]]
  /\ paths' = [paths EXCEPT ![e] = NamesOf[e]]
  /\ stage' = [stage EXCEPT ![e] = "saved"]
  /\ UNCHANGED <<expired, stuck, cleaner, exporting, faults>>

\* imwrite returns False, which nobody looks at: some of the names have no file.
\* With an OSError the last name and those after it are not recorded.
SaveFails(e) ==
  /\ stage[e] = "new"
  /\ Faulty
  /\ \E written \in SUBSET NamesOf[e], recorded \in SUBSET NamesOf[e] :
       /\ written \subseteq recorded
       /\ disk' = [n \in DOMAIN disk \cup written |-> IF n \in written THEN e ELSE disk[n]]
       /\ paths' = [paths EXCEPT ![e] = recorded]
  /\ stage' = [stage EXCEPT ![e] = "saved"]
  /\ UNCHANGED <<expired, stuck, cleaner, exporting>>

\* a consumer stores the row; it may never come to it
Store(e) ==
  /\ stage[e] = "saved"
  /\ stage' = [stage EXCEPT ![e] = "stored"]
  /\ UNCHANGED <<disk, paths, expired, stuck, cleaner, exporting, faults>>

Age(e) ==
  /\ stage[e] \in {"saved", "stored"}
  /\ e \notin expired
  /\ expired' = expired \cup {e}
  /\ UNCHANGED <<disk, stage, paths, stuck, cleaner, exporting, faults>>

-----------------------------------------------------------------------------
(* The clean-up, one table after the other *)

\* A bug: without the cutoff.
SelectedMutant(table) == {e \in table : stage[e] = "stored"}

Selected(table) == {e \in table : stage[e] = "stored" /\ e \in expired}

\* A bug: the rows are deleted before their files.
SelectMutant(k, table) ==
  /\ ~cleaner[k].busy
  /\ Selected(table) # {}
  /\ cleaner' = [cleaner EXCEPT ![k] = [busy |-> TRUE, rows |-> Selected(table),
                                        left |-> UNION {paths[e] : e \in Selected(table)}]]
  /\ stage' = [e \in Events |-> IF e \in Selected(table) THEN "deleted" ELSE stage[e]]
  /\ UNCHANGED <<disk, paths, expired, stuck, exporting, faults>>

Select(k, table) ==
  /\ ~cleaner[k].busy
  /\ Selected(table) # {}
  /\ cleaner' = [cleaner EXCEPT ![k] = [busy |-> TRUE, rows |-> Selected(table),
                                        left |-> UNION {paths[e] : e \in Selected(table)}]]
  /\ UNCHANGED <<evidence, stuck, exporting, faults>>

\* a file that is not there, another run may have been faster, is none to delete
Unlink(k, n) ==
  /\ n \in cleaner[k].left
  /\ ReadOnly => n \notin DOMAIN disk
  /\ disk' = [m \in DOMAIN disk \ {n} |-> disk[m]]
  /\ cleaner' = [cleaner EXCEPT ![k].left = @ \ {n}]
  /\ UNCHANGED <<stage, paths, expired, stuck, exporting, faults>>

\* an OSError is logged, and the row will go all the same; a read-only directory
\* answers with nothing else
UnlinkFails(k, n) ==
  /\ n \in cleaner[k].left \cap DOMAIN disk
  /\ IF ReadOnly THEN UNCHANGED faults ELSE Faulty
  /\ stuck' = stuck \cup {n}
  /\ cleaner' = [cleaner EXCEPT ![k].left = @ \ {n}]
  /\ UNCHANGED <<evidence, exporting>>

\* the rows that were selected are deleted and committed
Delete(k) ==
  /\ cleaner[k].busy
  /\ cleaner[k].left = {}
  /\ stage' = [e \in Events |-> IF e \in cleaner[k].rows THEN "deleted" ELSE stage[e]]
  /\ cleaner' = [cleaner EXCEPT ![k] = Rested]
  /\ UNCHANGED <<disk, paths, expired, stuck, exporting, faults>>

\* the run is cut short, or its commit fails: the next one selects the rows again
CleanUpDies(k) ==
  /\ cleaner[k].busy
  /\ Faulty
  /\ cleaner' = [cleaner EXCEPT ![k] = Rested]
  /\ UNCHANGED <<evidence, stuck, exporting>>

-----------------------------------------------------------------------------
(* An export *)

Name(e) == CHOOSE n \in NamesOf[e] : TRUE
Goto(x, pc) == export' = [export EXCEPT ![x].pc = pc]
Done(x, e) == export' = [export EXCEPT ![x].pc = "adding", ![x].todo = @ \ {e}]

\* the reads that match the search, on cameras in the exporter's scope
Find(x) ==
  /\ export[x].pc = "asked"
  /\ \E found \in SUBSET {e \in PlateEvents : stage[e] = "stored"} :
       export' = [export EXCEPT ![x] = [pc |-> "adding", todo |-> found]]
  /\ UNCHANGED <<evidence, stuck, cleaner, bundle, record, faults>>

\* the file of the next event is copied into the zip, if it is there
AddFile(x, e) ==
  /\ export[x].pc = "adding"
  /\ e \in export[x].todo
  /\ IF paths[e] # {} /\ Name(e) \in DOMAIN disk
     THEN /\ bundle' = [bundle EXCEPT ![x].members =
                          @ \cup {[ path |-> ArcOf[Name(e)], event |-> e,
                                    image |-> disk[Name(e)], digest |-> "pending" ]}]
          /\ Goto(x, "added")
     ELSE Done(x, e) /\ UNCHANGED bundle
  /\ UNCHANGED <<evidence, stuck, cleaner, record, faults>>

\* its digest is that of the file as it is now, read a second time
AddDigest(x, e) ==
  /\ export[x].pc = "added"
  /\ \E m \in bundle[x].members :
       /\ m.event = e /\ m.digest = "pending"
       /\ Name(e) \in DOMAIN disk
       /\ bundle' = [bundle EXCEPT ![x].members = (@ \ {m}) \cup {[m EXCEPT !.digest = disk[Name(e)]]}]
  /\ Done(x, e)
  /\ UNCHANGED <<evidence, stuck, cleaner, record, faults>>

\* the file has gone in between: FileNotFoundError, the zip stays and nobody knows
FileHasGone(x, e) ==
  /\ export[x].pc = "added"
  /\ \E m \in bundle[x].members : m.event = e /\ m.digest = "pending"
  /\ Name(e) \notin DOMAIN disk
  /\ Goto(x, "over")
  /\ UNCHANGED <<evidence, stuck, cleaner, bundle, record, faults>>

\* A bug: the bundle is recorded before its manifest is in it.
CommitMutant(x) ==
  /\ export[x].pc = "adding"
  /\ export[x].todo = {}
  /\ record' = [y \in DOMAIN record \cup {x} |-> IF y = x THEN bundle[x] ELSE record[y]]
  /\ bundle' = [bundle EXCEPT ![x].closed = TRUE]
  /\ Goto(x, "over")
  /\ UNCHANGED <<evidence, stuck, cleaner, faults>>

\* the row with the digest of the whole is committed at the end of the request
Commit(x) ==
  /\ export[x].pc = "packed"
  /\ record' = [y \in DOMAIN record \cup {x} |-> IF y = x THEN bundle[x] ELSE record[y]]
  /\ Goto(x, "over")
  /\ UNCHANGED <<evidence, stuck, cleaner, bundle, faults>>

\* events.csv and manifest.json are added, and the zip is closed
Pack(x) ==
  /\ export[x].pc = "adding"
  /\ export[x].todo = {}
  /\ bundle' = [bundle EXCEPT ![x].closed = TRUE]
  /\ Goto(x, "packed")
  /\ UNCHANGED <<evidence, stuck, cleaner, record, faults>>

\* the API stops, a disk is full, a commit fails
ExportDies(x) ==
  /\ export[x].pc \in {"adding", "added", "packed"}
  /\ Faulty
  /\ Goto(x, "over")
  /\ UNCHANGED <<evidence, stuck, cleaner, bundle, record>>

EvidenceNext ==
  \/ \E e \in Events : Save(e) \/ SaveFails(e) \/ Store(e) \/ Age(e)
  \/ \E k \in Cleaners :
       \/ Select(k, PlateEvents) \/ Select(k, VehicleEvents)
       \/ \E n \in Names : Unlink(k, n) \/ UnlinkFails(k, n)
       \/ Delete(k) \/ CleanUpDies(k)
  \/ \E x \in Exports :
       \/ Find(x) \/ Pack(x) \/ Commit(x) \/ ExportDies(x)
       \/ \E e \in PlateEvents : AddFile(x, e) \/ AddDigest(x, e) \/ FileHasGone(x, e)

EvidenceSpec == EvidenceInit /\ [][EvidenceNext]_evidenceVars

-----------------------------------------------------------------------------
(* Properties *)

\* a name that two events have been saved under: the same plate at the same time
\* of a feed that starts over, or a track id that was used again
Reused(n) == \E d, e \in Events : d # e /\ n \in paths[d] \cap paths[e]

\* files that no row will ever lead to again
Orphans == {n \in DOMAIN disk : ~Reused(n) /\ \E e \in Events : stage[e] = "deleted" /\ n \in paths[e]}

\* Wherever the clean-up is cut short, and however many run at once: no file
\* outlives its row, but for one with every unlink that failed, of those whose
\* name no other event has taken. (The files of an event that no consumer stores
\* stay; so does everything where the directory is read-only.)
NothingLeftBehind == Cardinality(Orphans) <= faults

\* A file goes only if an event that has expired names it, and changes only when
\* an event that takes its name is saved: the clean-up takes no file of an event
\* that has not expired, unless an expired one shares its name.
UnexpiredKeepTheirFiles ==
  [][\A n \in DOMAIN disk :
       \/ n \in DOMAIN disk' /\ disk'[n] = disk[n]
       \/ n \notin DOMAIN disk' /\ \E e \in expired : n \in paths[e]
       \/ n \in DOMAIN disk' /\ \E e \in Events :
            stage[e] = "new" /\ disk'[n] = e /\ n \in paths'[e]]_evidenceVars

\* what is unpacked under a path of a bundle, of several files the last or another
Unpacked(b, path) == {m.image : m \in {k \in b.members : k.path = path}}

Shared(b, m) == \E k \in b.members : k # m /\ k.path = m.path

\* A recorded export is one that is whole: its digest is that of the zip as it
\* is on disk, closed; and unless a name was reused, every image in it is that
\* of its event and has the digest the manifest says, which is what one finds
\* when it is unpacked, as long as no other member has its path.
ExportsAreWhole ==
  \A x \in DOMAIN record :
    /\ record[x] = bundle[x]
    /\ bundle[x].closed
    /\ \A m \in bundle[x].members :
         ~Reused(Name(m.event)) =>
           /\ m.image = m.event /\ m.digest = m.event
           /\ ~Shared(bundle[x], m) => Unpacked(bundle[x], m.path) = {m.digest}

\* "Each file's sha256 above is independently verifiable" (the manifest's note) is
\* false of two reads of a plate on one camera, at the same time of two days.
EveryMemberVerifies ==
  \A x \in DOMAIN record : \A m \in bundle[x].members :
    ~Reused(Name(m.event)) => Unpacked(bundle[x], m.path) = {m.digest}
=============================================================================
