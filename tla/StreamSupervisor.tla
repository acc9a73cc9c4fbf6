-------------------------- MODULE StreamSupervisor --------------------------
(***************************************************************************)
(* The stream manager (services/ingestion-config/stream_manager.py): it    *)
(* keeps the streams open in go2rtc equal to the camera catalogue.         *)
(*                                                                         *)
(* Two coroutines share the supervisor's state and run in turns, each from *)
(* one await to the next: _poll_loop diffs the catalogue against what it   *)
(* knows and pushes the differences, _health_loop pushes again what go2rtc *)
(* does not have up.  An action is the answer to the call a coroutine      *)
(* awaits together with the code it then runs up to its next call.  (What  *)
(* the other coroutine does between the effect of a call and the return of *)
(* its answer commutes with one of the two.)                               *)
(*                                                                         *)
(* A source stands for the (protocol, source_url) a catalogue entry is     *)
(* resolved to, Absent for an entry that is missing, not live or of no     *)
(* usable protocol.  Backoff windows end at any moment after they began.   *)
(***************************************************************************)
EXTENDS Naturals, FiniteSets

CONSTANTS
  Cameras,
  Sources,
  Absent,        \* no such camera, no such stream
  Nobody,        \* no call outstanding
  MaxExponent,   \* the largest n for which a float holds 2 ** n: 1023 for a double
  MaxFaults,     \* bound on failed calls, deaths of the manager, restarts of go2rtc
  MaxEdits       \* bound on changes of the catalogue

ASSUME AbsentAssumption == Absent \notin Sources
ASSUME NobodyAssumption == Nobody \notin Cameras
ASSUME MaxExponentAssumption == MaxExponent \in Nat

VARIABLES
  catalogue,     \* what the gateway lists now
  streams,       \* what go2rtc has open now
  yaml,          \* go2rtc.yaml as last rendered
  cameras,       \* self.cameras
  known,         \* the cameras self.reconnect_state has an entry for
  failures,      \* their consecutive_failures
  waiting,       \* those whose next_attempt_at is still to come
  pollPc, latest, pending, target,           \* _reconcile and its locals
  healthPc, snapshot, active, ripe, repush,  \* _check_health and its locals
  suspect,       \* history: the streams that a failure or a race may have left wrong
  faults, edits

external == <<catalogue, edits>>
pollVars == <<pollPc, latest, pending, target>>
healthVars == <<healthPc, snapshot, active, ripe, repush>>
backoff == <<known, failures, waiting>>
vars == <<external, streams, yaml, cameras, backoff, pollVars, healthVars, suspect, faults>>

Listing == [Cameras -> Sources \cup {Absent}]
Empty == [c \in Cameras |-> Absent]

\* the catalogue as _reconcile last read it
Wanted(c) == IF pollPc \in {"remove", "push"} THEN latest[c] ELSE cameras[c]

-----------------------------------------------------------------------------
(* Calls to go2rtc *)

\* upsert_stream, or remove_stream when the source is Absent, in _safe_call:
\* an error is logged, and does not say whether the call took effect
Call(c, source) ==
  LET after == [streams EXCEPT ![c] = source] IN
  \/ /\ streams' = after
     /\ suspect' = IF source = Wanted(c) THEN suspect \ {c} ELSE suspect \cup {c}
     /\ UNCHANGED faults
  \/ /\ faults < MaxFaults
     /\ faults' = faults + 1
     /\ streams' \in {streams, after}
     /\ suspect' = suspect \cup {c}

-----------------------------------------------------------------------------
(* _reconcile *)

\* only ids are compared, not what they resolve to
DifferencesMutant(new) == {c \in Cameras : (new[c] = Absent) # (cameras[c] = Absent)}

Differences(new) == {c \in Cameras : new[c] # cameras[c]}

\* removed cameras first, then added ones, then changed ones
Turn(c, new) == IF new[c] = Absent THEN 1 ELSE IF cameras[c] = Absent THEN 2 ELSE 3

\* the code from an answer to the next call, or to the end of _reconcile
Proceed(new, left) ==
  /\ \/ /\ left = {}
        /\ pollPc' = "sleep" /\ latest' = Empty /\ pending' = {} /\ target' = Nobody
        /\ cameras' = new /\ yaml' = new
        /\ healthPc' = IF healthPc = "off" THEN "sleep" ELSE healthPc
     \/ \E c \in left :
          /\ \A d \in left : Turn(c, new) <= Turn(d, new)
          /\ pollPc' = IF new[c] = Absent THEN "remove" ELSE "push"
          /\ latest' = new /\ pending' = left \ {c} /\ target' = c
          /\ UNCHANGED <<cameras, yaml, healthPc>>

\* reconnect_state: the entry of a removed camera is popped, an added one gets
\* a fresh one; what a health check under way saw of the old one counts no more
Reenter ==
  LET gone == IF pollPc = "remove" THEN {target} ELSE {}
      new == IF target' # Nobody /\ cameras[target'] = Absent THEN {target'} ELSE {}
  IN /\ known' = (known \ gone) \cup new
     /\ failures' = [c \in Cameras |-> IF c \in gone \cup new THEN 0 ELSE failures[c]]
     /\ waiting' = waiting \ (gone \cup new)
     /\ ripe' = ripe \ (gone \cup new)

PollWake ==
  /\ pollPc = "sleep"
  /\ pollPc' = "fetch"
  /\ UNCHANGED <<external, streams, yaml, cameras, backoff, latest, pending, target,
                 healthVars, suspect, faults>>

Fetched ==
  /\ pollPc = "fetch"
  /\ \E new \in {catalogue} : Proceed(new, Differences(new))
  /\ Reenter
  /\ UNCHANGED <<external, streams, snapshot, active, repush, suspect, faults>>

FetchFails ==
  /\ pollPc = "fetch"
  /\ faults < MaxFaults
  /\ faults' = faults + 1
  /\ pollPc' = "sleep"
  /\ healthPc' = IF healthPc = "off" THEN "sleep" ELSE healthPc
  /\ UNCHANGED <<external, streams, yaml, cameras, backoff, latest, pending, target,
                 snapshot, active, ripe, repush, suspect>>

\* remove_stream or upsert_stream has returned or raised
Reconciled ==
  /\ pollPc \in {"remove", "push"}
  /\ Call(target, latest[target])
  /\ Proceed(latest, pending)
  /\ Reenter
  /\ UNCHANGED <<external, snapshot, active, repush>>

-----------------------------------------------------------------------------
(* _check_health *)

\* a stream go2rtc has no entry of is taken to be up
DownMutant(c, up) == c \notin up /\ streams[c] # Absent

\* is_producer_active is False
Down(c, up) == c \notin up

Listed(list) == {c \in Cameras : list[c] # Absent}

\* 2.0 * 2 ** (n - 1) raises once 2 ** (n - 1) is no float
OverflowsMutant(n) == FALSE

Overflows(n) == n - 1 > MaxExponent

\* The loop over a copy of the cameras, up to its next call: those it passes
\* over are up or within their backoff window, which one without an entry is,
\* too (its next_attempt_at is taken after now was).
Examine(list, up, due) ==
  \E passed \in SUBSET Listed(list) :
    LET seen(c) == IF c \in passed \cap up THEN 0 ELSE failures[c]
        rest == Listed(list) \ passed
    IN
    /\ \A c \in passed : Down(c, up) => c \notin due
    /\ \/ /\ rest = {}
          /\ healthPc' = "sleep"
          /\ snapshot' = Empty /\ active' = {} /\ ripe' = {} /\ repush' = Nobody
          /\ known' = known \cup passed
          /\ failures' = [c \in Cameras |-> seen(c)]
          /\ UNCHANGED waiting
       \/ \E c \in rest :
            /\ Down(c, up) /\ c \in due
            /\ known' = known \cup passed \cup {c}
            /\ IF Overflows(failures[c] + 1)
               THEN /\ healthPc' = "raised"
                    /\ snapshot' = Empty /\ active' = {} /\ ripe' = {} /\ repush' = Nobody
                    /\ failures' = [d \in Cameras |-> seen(d)]
                    /\ UNCHANGED waiting
               ELSE /\ healthPc' = "push"
                    /\ snapshot' = [d \in Cameras |-> IF d \in rest THEN list[d] ELSE Absent]
                    /\ active' = up /\ ripe' = due /\ repush' = c
                    /\ failures' = [d \in Cameras |-> IF d = c THEN failures[c] + 1 ELSE seen(d)]
                    /\ waiting' = waiting \cup {c}

HealthWake ==
  /\ healthPc = "sleep"
  /\ healthPc' = "list"
  /\ UNCHANGED <<external, streams, yaml, cameras, backoff, pollVars, snapshot, active,
                 ripe, repush, suspect, faults>>

\* any of the streams may have a producer that works
StreamsListed ==
  /\ healthPc = "list"
  /\ \E up \in SUBSET Listed(streams) : Examine(cameras, up, known \ waiting)
  /\ UNCHANGED <<external, streams, yaml, cameras, pollVars, suspect, faults>>

ListFails ==
  /\ healthPc = "list"
  /\ faults < MaxFaults
  /\ faults' = faults + 1
  /\ healthPc' = "sleep"
  /\ UNCHANGED <<external, streams, yaml, cameras, backoff, pollVars, snapshot, active,
                 ripe, repush, suspect>>

Repushed ==
  /\ healthPc = "push"
  /\ Call(repush, snapshot[repush])
  /\ Examine([snapshot EXCEPT ![repush] = Absent], active, ripe)
  /\ UNCHANGED <<external, yaml, cameras, pollVars>>

WindowEnds(c) ==
  /\ c \in waiting
  /\ waiting' = waiting \ {c}
  /\ UNCHANGED <<external, streams, yaml, cameras, known, failures, pollVars, healthVars,
                 suspect, faults>>

-----------------------------------------------------------------------------
(* The process, go2rtc and the gateway *)

Init ==
  /\ catalogue \in Listing
  /\ streams = Empty /\ yaml = Empty /\ cameras = Empty
  /\ known = {} /\ failures = [c \in Cameras |-> 0] /\ waiting = {}
  /\ pollPc = "fetch" /\ latest = Empty /\ pending = {} /\ target = Nobody
  /\ healthPc = "off" /\ snapshot = Empty /\ active = {} /\ ripe = {} /\ repush = Nobody
  /\ suspect = {}
  /\ faults = 0 /\ edits = 0

\* The process ends: its state is lost, and each call it had outstanding may
\* have taken effect.  What is open then is compared with nothing any more.
Die ==
  /\ cameras' = Empty
  /\ known' = {} /\ failures' = [c \in Cameras |-> 0] /\ waiting' = {}
  /\ pollPc' = "down" /\ latest' = Empty /\ pending' = {} /\ target' = Nobody
  /\ healthPc' = "off" /\ snapshot' = Empty /\ active' = {} /\ ripe' = {} /\ repush' = Nobody
  /\ \E after \in Listing :
       /\ \A c \in Cameras :
            after[c] \in {streams[c]} \cup {latest[d] : d \in {target} \cap {c}}
                                    \cup {snapshot[d] : d \in {repush} \cap {c}}
       /\ streams' = after
       /\ suspect' = Listed(after)
  /\ UNCHANGED <<external, yaml>>

\* gather() passes on the exception of _health_loop, and main() ends with it
HealthRaises ==
  /\ healthPc = "raised"
  /\ Die
  /\ UNCHANGED faults

\* stopped, killed, or ended by an exception of render()
ProcessEnds ==
  /\ pollPc # "down"
  /\ faults < MaxFaults
  /\ faults' = faults + 1
  /\ Die

Start ==
  /\ pollPc = "down"
  /\ pollPc' = "fetch"
  /\ UNCHANGED <<external, streams, yaml, cameras, backoff, latest, pending, target,
                 healthVars, suspect, faults>>

\* go2rtc comes up again with the streams of its file
RestreamerRestarts ==
  /\ faults < MaxFaults
  /\ faults' = faults + 1
  /\ streams' = yaml
  /\ suspect' = {c \in Cameras : yaml[c] # Wanted(c)}
  /\ UNCHANGED <<external, yaml, cameras, backoff, pollVars, healthVars>>

\* a camera is added, removed, not live for a while, or changes its URL
EditCatalogue ==
  /\ edits < MaxEdits
  /\ edits' = edits + 1
  /\ \E c \in Cameras, s \in Sources \cup {Absent} :
       catalogue[c] # s /\ catalogue' = [catalogue EXCEPT ![c] = s]
  /\ UNCHANGED <<streams, yaml, cameras, backoff, pollVars, healthVars, suspect, faults>>

Poll == PollWake \/ Fetched \/ FetchFails \/ Reconciled \/ Start
Health == HealthWake \/ StreamsListed \/ ListFails \/ Repushed \/ HealthRaises

Next ==
  \/ Poll \/ Health
  \/ \E c \in Cameras : WindowEnds(c)
  \/ ProcessEnds \/ RestreamerRestarts \/ EditCatalogue

Spec == Init /\ [][Next]_vars

\* Sleeps and backoff windows end, httpx gives up on a call after ten seconds,
\* and the container is restarted unless it was stopped.
Fairness ==
  /\ WF_vars(Poll) /\ WF_vars(Health)
  /\ \A c \in Cameras : WF_vars(WindowEnds(c))

FairSpec == Spec /\ Fairness

-----------------------------------------------------------------------------
\* Every variable keeps its type; a camera's failures stop where the next
\* backoff can still be computed, and no call is outstanding at a sleep.
TypeOK ==
  /\ catalogue \in Listing /\ streams \in Listing /\ yaml \in Listing
  /\ cameras \in Listing /\ latest \in Listing /\ snapshot \in Listing
  /\ known \subseteq Cameras /\ waiting \subseteq Cameras /\ pending \subseteq Cameras
  /\ active \subseteq Cameras /\ ripe \subseteq Cameras /\ suspect \subseteq Cameras
  /\ failures \in [Cameras -> 0..(MaxExponent + 1)]
  /\ pollPc \in {"down", "sleep", "fetch", "remove", "push"}
  /\ healthPc \in {"off", "sleep", "list", "push", "raised"}
  /\ target \in Cameras \cup {Nobody} /\ (target # Nobody <=> pollPc \in {"remove", "push"})
  /\ repush \in Cameras \cup {Nobody} /\ (repush # Nobody <=> healthPc = "push")
  /\ faults \in Nat /\ edits \in Nat

\* Between two reconciliations go2rtc has open exactly the streams of the
\* catalogue as last read, with its sources, but for those where a call failed,
\* a health check pushed what was out of date, or either process restarted
\* since the last call that put them right (stream_manager.py, points 1 and 4,
\* "removed cameras are torn down promptly").
MirrorsCatalogue ==
  pollPc \in {"sleep", "fetch"} =>
    \A c \in Cameras : streams[c] = cameras[c] \/ c \in suspect

\* A camera that stays in the catalogue ends up with a stream that stays,
\* whatever failed before: what reconciliation lost is pushed again by the
\* health check (point 5), and what go2rtc lost is in its file or pushed again.
EveryCameraServed ==
  \A c \in Cameras : <>[](catalogue[c] # Absent) => <>[](streams[c] # Absent)

\* A camera that is down for long is retried with "2s -> 4s -> 8s -> 16s ->
\* 30s cap" (point 5) and does not stop the supervision of the others.
SupervisionGoesOn == healthPc # "raised"
=============================================================================
