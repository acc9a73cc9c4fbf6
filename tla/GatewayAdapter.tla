--------------------------- MODULE GatewayAdapter ---------------------------
(***************************************************************************)
(* The adapter in front of the camera gateway                              *)
(* (services/gateway-adapter/app.py): coroutines that share one session    *)
(* with the gateway, and the background tasks that look up where the       *)
(* cameras are.                                                            *)
(*                                                                         *)
(* The gateway is external, and taken at its strictest: a login ends the   *)
(* session before it, and any session may end at any time. Sessions are    *)
(* numbered in the order of the logins, which stands for their cookies.    *)
(* The cookie jar of the client holds the last session obtained, which is  *)
(* also _session_cookie, so it needs no variable of its own.               *)
(***************************************************************************)
EXTENDS Naturals

CONSTANTS
  Requests,       \* calls of the routes, each served once
  Polls,          \* those of /api/ingest; the others fetch a playlist, segment or key
  Cameras,        \* what /cameras.json lists
  MaxDisruptions, \* bound on ended sessions, failed calls and restarts
  Nobody          \* holds no lock

ASSUME GatewayAssumptions ==
  /\ Polls \subseteq Requests
  /\ MaxDisruptions \in Nat
  /\ Nobody \notin Requests \cup Cameras

VARIABLES
  cookie,      \* _session_cookie, 0 for None
  holder,      \* the request that holds _session_lock
  req,         \* the requests: where they are, with which cookie, since when
  live,        \* the session the gateway accepts, 0 for none
  issued,      \* sessions the gateway has issued
  disruptions, \* sessions ended, calls failed, restarts
  cache,       \* _GEOCODE_CACHE
  tasks,       \* _geocode_background tasks of each camera that have not ended
  looking      \* the camera whose task holds _geocode_lock

session == <<cookie, holder, req, live, issued, disruptions>>
places == <<cache, tasks, looking>>
vars == <<cookie, holder, req, live, issued, disruptions, cache, tasks, looking>>

Waiting == {"new", "login", "get", "relock", "relogin", "retry"}
Ended == {"served", "refused", "failed"}  \* refused: the retry was a 401 or 403

TypeOK ==
  /\ cookie \in 0..issued
  /\ holder \in Requests \cup {Nobody}
  /\ req \in [Requests -> [pc : Waiting \cup Ended, cookie : Nat, since : 0..disruptions]]
  /\ issued \in Nat
  /\ live \in 0..issued
  /\ disruptions \in 0..MaxDisruptions
  /\ cache \in [Cameras -> {"unknown", "placed", "unplaced"}]
  /\ tasks \in [Cameras -> Nat]
  /\ looking \in Cameras \cup {Nobody}

Init ==
  /\ cookie = 0
  /\ holder = Nobody
  /\ req = [r \in Requests |-> [pc |-> "new", cookie |-> 0, since |-> 0]]
  /\ live = 0
  /\ issued = 0
  /\ disruptions = 0
  /\ cache = [c \in Cameras |-> "unknown"]
  /\ tasks = [c \in Cameras |-> 0]
  /\ looking = Nobody

Disrupt ==
  /\ disruptions < MaxDisruptions
  /\ disruptions' = disruptions + 1

Goto(r, pc, c) == req' = [req EXCEPT ![r].pc = pc, ![r].cookie = c]

-----------------------------------------------------------------------------
(* The session with the gateway *)

\* _ensure_session up to its await: the lock, and the cookie or a login
EnsureSession(r) ==
  /\ req[r].pc = "new"
  /\ holder = Nobody
  /\ LET arrived == [req EXCEPT ![r].since = disruptions]
     IN IF cookie = 0
        THEN req' = [arrived EXCEPT ![r].pc = "login"] /\ holder' = r
        ELSE req' = [arrived EXCEPT ![r].pc = "get", ![r].cookie = cookie] /\ UNCHANGED holder
  /\ UNCHANGED <<cookie, live, issued, disruptions, places>>

AfterLogin(r) == IF req[r].pc = "login" THEN "get" ELSE "retry"

LoggingIn(r) == holder = r /\ req[r].pc \in {"login", "relogin"}

\* the retry goes out with the cookie that was refused
LoggedInMutant(r) ==
  /\ LoggingIn(r)
  /\ issued' = issued + 1
  /\ live' = issued'
  /\ cookie' = issued'
  /\ Goto(r, AfterLogin(r), IF cookie = 0 THEN issued' ELSE cookie)
  /\ holder' = Nobody
  /\ UNCHANGED <<disruptions, places>>

\* _login answered with a new session
LoggedIn(r) ==
  /\ LoggingIn(r)
  /\ issued' = issued + 1
  /\ live' = issued'
  /\ cookie' = issued'
  /\ Goto(r, AfterLogin(r), issued')
  /\ holder' = Nobody
  /\ UNCHANGED <<disruptions, places>>

\* the page came back without a cookie: the one in the jar is taken again,
\* and if there is none a RuntimeError ends the request
NoCookie(r) ==
  /\ LoggingIn(r)
  /\ Disrupt
  /\ Goto(r, IF cookie = 0 THEN "failed" ELSE AfterLogin(r), cookie)
  /\ holder' = Nobody
  /\ UNCHANGED <<cookie, live, issued, places>>

\* an exception leaves the lock held
LoginRaisesMutant(r) ==
  /\ LoggingIn(r)
  /\ Disrupt
  /\ Goto(r, "failed", req[r].cookie)
  /\ UNCHANGED <<cookie, holder, live, issued, places>>

\* the POST raised; the gateway may have taken the login all the same
LoginRaises(r) ==
  /\ LoggingIn(r)
  /\ Disrupt
  /\ \/ UNCHANGED <<live, issued>>
     \/ issued' = issued + 1 /\ live' = issued'
  /\ Goto(r, "failed", req[r].cookie)
  /\ holder' = Nobody
  /\ UNCHANGED <<cookie, places>>

\* a camera without an entry gets a task at each poll
GeocodeLookup(r) ==
  tasks' = IF r \in Polls
           THEN [c \in Cameras |-> tasks[c] + (IF cache[c] = "unknown" THEN 1 ELSE 0)]
           ELSE tasks

\* the gateway judges the request by the session it carries
Answered(r) ==
  /\ req[r].pc \in {"get", "retry"}
  /\ IF req[r].cookie = live
     THEN Goto(r, "served", req[r].cookie) /\ GeocodeLookup(r)
     ELSE /\ Goto(r, IF req[r].pc = "get" THEN "relock" ELSE "refused", req[r].cookie)
          /\ UNCHANGED tasks
  /\ UNCHANGED <<cookie, holder, live, issued, disruptions, cache, looking>>

\* no answer, or a status that raise_for_status turns into an exception
GetRaises(r) ==
  /\ req[r].pc \in {"get", "retry"}
  /\ Disrupt
  /\ Goto(r, "failed", req[r].cookie)
  /\ UNCHANGED <<cookie, holder, live, issued, places>>

\* every request that was refused logs in
RelockMutant(r) ==
  /\ req[r].pc = "relock"
  /\ holder = Nobody
  /\ Goto(r, "relogin", req[r].cookie)
  /\ holder' = r
  /\ UNCHANGED <<cookie, live, issued, disruptions, places>>

\* after a 401 or 403, under the lock: log in if the cookie is still the one
\* that was refused, else retry with the one another request has obtained
Relock(r) ==
  /\ req[r].pc = "relock"
  /\ holder = Nobody
  /\ IF cookie = req[r].cookie
     THEN Goto(r, "relogin", cookie) /\ holder' = r
     ELSE Goto(r, "retry", cookie) /\ UNCHANGED holder
  /\ UNCHANGED <<cookie, live, issued, disruptions, places>>

\* the session expires, or the account logs in from elsewhere
SessionEnds ==
  /\ live # 0
  /\ Disrupt
  /\ live' = 0
  /\ UNCHANGED <<cookie, holder, req, issued, places>>

-----------------------------------------------------------------------------
(* The places of the cameras *)

\* _geocode_background with the lock: another task may have filled the entry
LookupStarts(c) ==
  /\ looking = Nobody
  /\ tasks[c] > 0
  /\ IF cache[c] # "unknown"
     THEN tasks' = [tasks EXCEPT ![c] = @ - 1] /\ UNCHANGED looking
     ELSE looking' = c /\ UNCHANGED tasks
  /\ UNCHANGED <<cache, session>>

\* a place, or (None, None) for a name without one and for any exception; the
\* pause of a second after it is still under the lock
LookupEnds(c) ==
  /\ looking = c
  /\ \E place \in {"placed", "unplaced"} : cache' = [cache EXCEPT ![c] = place]
  /\ tasks' = [tasks EXCEPT ![c] = @ - 1]
  /\ looking' = Nobody
  /\ UNCHANGED session

\* the process restarts: its requests break off and its memory is empty
Restart ==
  /\ Disrupt
  /\ cookie' = 0
  /\ holder' = Nobody
  /\ req' = [r \in Requests |->
              IF req[r].pc \in Waiting \ {"new"} THEN [req[r] EXCEPT !.pc = "failed"] ELSE req[r]]
  /\ cache' = [c \in Cameras |-> "unknown"]
  /\ tasks' = [c \in Cameras |-> 0]
  /\ looking' = Nobody
  /\ UNCHANGED <<live, issued>>

-----------------------------------------------------------------------------
Serve(r) ==
  \/ EnsureSession(r) \/ LoggedIn(r) \/ NoCookie(r) \/ LoginRaises(r)
  \/ Answered(r) \/ GetRaises(r) \/ Relock(r)

Geocode == \E c \in Cameras : LookupStarts(c) \/ LookupEnds(c)

Next == SessionEnds \/ Restart \/ Geocode \/ \E r \in Requests : Serve(r)

Spec == Init /\ [][Next]_vars

\* The event loop runs every coroutine that can go on, every HTTP call ends
\* (the client's timeouts) and asyncio.Lock serves its waiters in turn.
FairSpec ==
  /\ Spec
  /\ \A r \in Requests : WF_vars(Serve(r))
  /\ WF_vars(Geocode)

-----------------------------------------------------------------------------
\* A login of the adapter never ends the session that the adapter uses while
\* that session is still good: requests that were refused together do not
\* invalidate one another's new session (the comment in _proxied_get).
SparesTheSession == [][issued' > issued => cookie = 0 \/ cookie # live]_vars

\* A request is refused in the end only if the gateway ended a session, or a
\* call failed, after the request began: what happened before is repaired by
\* its own login or that of another request.
RefusalHasACause == \A r \in Requests : req[r].pc = "refused" => req[r].since < disruptions

\* Every request ends and every task is done with: no exception or early
\* return keeps a lock.
EverythingEnds ==
  /\ \A r \in Requests : req[r].pc = "new" ~> req[r].pc \in Ended
  /\ \A c \in Cameras : tasks[c] > 0 ~> tasks[c] = 0
=============================================================================
