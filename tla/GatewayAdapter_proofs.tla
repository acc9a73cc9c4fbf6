----------------------- MODULE GatewayAdapter_proofs -----------------------
(***************************************************************************)
(* Proofs about GatewayAdapter, for any number of requests and cameras and *)
(* any disruptions of the session, the calls and the process.              *)
(***************************************************************************)
EXTENDS GatewayAdapter, TLAPS

\* A task that looks a camera up is one of those that were started for it.
TaskInv == looking # Nobody => tasks[looking] > 0

\* The lock is held exactly during a login, and while it is held the cookie
\* does not move: it is what the holder has seen when it took the lock.
LockInv == \A r \in Requests :
  /\ holder = r <=> req[r].pc \in {"login", "relogin"}
  /\ req[r].pc = "login" => cookie = 0
  /\ req[r].pc = "relogin" => cookie = req[r].cookie

\* What a request carries is a session, as is the cookie while one is under way,
\* and once refused it stays refused.
CarriedInv == \A r \in Requests :
  /\ req[r].pc \in {"get", "relock", "relogin", "retry"} => req[r].cookie \in 1..issued /\ cookie # 0
  /\ req[r].pc \in {"relock", "relogin"} => req[r].cookie # live

\* A request that nothing has disturbed since it began finds, wherever the
\* cookie is no longer the one it carries, the session the gateway accepts; and
\* its retry carries that session.
UndisturbedInv == \A r \in Requests : req[r].since = disruptions =>
  /\ req[r].pc \in {"get", "relock"} /\ cookie # req[r].cookie => cookie = live
  /\ req[r].pc = "retry" => req[r].cookie = cookie /\ cookie = live

SessionInv == LockInv /\ CarriedInv /\ UndisturbedInv /\ RefusalHasACause
IInv == TypeOK /\ TaskInv /\ SessionInv

-----------------------------------------------------------------------------
\* Moving a request on changes its place and its cookie, and nothing of others.
LEMMA GotoFacts ==
  ASSUME TypeOK, NEW r \in Requests, NEW pc, NEW c, Goto(r, pc, c)
  PROVE  /\ req'[r].pc = pc
         /\ req'[r].cookie = c
         /\ req'[r].since = req[r].since
         /\ \A q \in Requests \ {r} : req'[q] = req[q]
         /\ pc \in Waiting \cup Ended /\ c \in Nat =>
              req' \in [Requests -> [pc : Waiting \cup Ended, cookie : Nat, since : 0..disruptions]]
BY DEF TypeOK, Goto

\* The types and the tasks of the cameras are inductive without the session.
LEMMA TypeStep ==
  TypeOK /\ TaskInv /\ [Next]_vars => TypeOK' /\ TaskInv'
<1> SUFFICES ASSUME TypeOK, TaskInv, [Next]_vars
             PROVE  TypeOK' /\ TaskInv'
  OBVIOUS
<1> USE GatewayAssumptions DEF Waiting, Ended
<1>1. CASE SessionEnds
  BY <1>1 DEF TypeOK, TaskInv, SessionEnds, Disrupt, places
<1>2. CASE Restart
  BY <1>2 DEF TypeOK, TaskInv, Restart, Disrupt
<1>3. ASSUME NEW c \in Cameras, LookupStarts(c)
      PROVE  TypeOK' /\ TaskInv'
  BY <1>3 DEF TypeOK, TaskInv, LookupStarts, session
<1>4. ASSUME NEW c \in Cameras, LookupEnds(c)
      PROVE  TypeOK' /\ TaskInv'
  BY <1>4 DEF TypeOK, TaskInv, LookupEnds, session
<1>5. ASSUME NEW r \in Requests, Serve(r)
      PROVE  TypeOK' /\ TaskInv'
  <2>1. CASE EnsureSession(r)
    BY <2>1 DEF TypeOK, TaskInv, EnsureSession, places
  <2>2. CASE LoggedIn(r)
    BY <2>2, GotoFacts DEF TypeOK, TaskInv, LoggedIn, AfterLogin, places
  <2>3. CASE NoCookie(r)
    BY <2>3, GotoFacts DEF TypeOK, TaskInv, NoCookie, AfterLogin, Disrupt, places
  <2>4. CASE LoginRaises(r)
    BY <2>4, GotoFacts DEF TypeOK, TaskInv, LoginRaises, Disrupt, places
  <2>5. CASE Answered(r)
    BY <2>5, GotoFacts DEF TypeOK, TaskInv, Answered, GeocodeLookup
  <2>6. CASE GetRaises(r)
    BY <2>6, GotoFacts DEF TypeOK, TaskInv, GetRaises, Disrupt, places
  <2>7. CASE Relock(r)
    BY <2>7, GotoFacts DEF TypeOK, TaskInv, Relock, places
  <2> QED
    BY <1>5, <2>1, <2>2, <2>3, <2>4, <2>5, <2>6, <2>7 DEF Serve
<1>6. CASE UNCHANGED vars
  BY <1>6 DEF TypeOK, TaskInv, vars
<1> QED
  BY <1>1, <1>2, <1>3, <1>4, <1>5, <1>6 DEF Next, Geocode

\* A step in which the session stays as it is keeps what is said about it.
LEMMA SessionUntouched ==
  SessionInv /\ UNCHANGED session => SessionInv'
BY DEF SessionInv, LockInv, CarriedInv, UndisturbedInv, RefusalHasACause, session

\* Every step keeps the four parts about the session.
LEMMA SessionStep ==
  TypeOK /\ SessionInv /\ [Next]_vars => SessionInv'
<1> SUFFICES ASSUME TypeOK, SessionInv, [Next]_vars
             PROVE  SessionInv'
  OBVIOUS
<1> USE GatewayAssumptions DEF SessionInv, LockInv, CarriedInv, UndisturbedInv, RefusalHasACause
<1>1. CASE SessionEnds
  BY <1>1 DEF TypeOK, SessionEnds, Disrupt
<1>2. CASE Restart
  BY <1>2 DEF TypeOK, Restart, Disrupt, Waiting, Ended
<1>3. CASE Geocode
  BY <1>3, SessionUntouched DEF Geocode, LookupStarts, LookupEnds
<1>4. ASSUME NEW r \in Requests, Serve(r)
      PROVE  SessionInv'
  <2>1. CASE EnsureSession(r)
    BY <2>1 DEF TypeOK, EnsureSession
  <2>2. CASE LoggedIn(r)
    BY <2>2, GotoFacts DEF TypeOK, LoggedIn, AfterLogin, LoggingIn
  <2>3. CASE NoCookie(r)
    BY <2>3, GotoFacts DEF TypeOK, NoCookie, AfterLogin, LoggingIn, Disrupt
  <2>4. CASE LoginRaises(r)
    BY <2>4, GotoFacts DEF TypeOK, LoginRaises, LoggingIn, Disrupt
  <2>5. CASE Answered(r)
    BY <2>5, GotoFacts DEF TypeOK, Answered
  <2>6. CASE GetRaises(r)
    <3>1. /\ req'[r].pc = "failed"
          /\ \A q \in Requests \ {r} : req'[q] = req[q]
      BY <2>6, GotoFacts DEF GetRaises
    <3>2. /\ disruptions \in Nat /\ disruptions' = disruptions + 1
          /\ UNCHANGED <<cookie, holder, live, issued>>
          /\ req[r].pc \in {"get", "retry"}
          /\ \A q \in Requests : req'[q].since \in 0..disruptions
      BY <2>6, GotoFacts DEF GetRaises, Disrupt, TypeOK
    <3>3. LockInv'
      BY <3>1, <3>2
    <3>4. CarriedInv'
      BY <3>1, <3>2
    <3>5. UndisturbedInv' /\ RefusalHasACause'
      BY <3>1, <3>2
    <3> QED
      BY <3>3, <3>4, <3>5
  <2>7. CASE Relock(r)
    <3>1. /\ UNCHANGED <<cookie, live, issued, disruptions>>
          /\ \A q \in Requests \ {r} : req'[q] = req[q]
          /\ req'[r].since = req[r].since
          /\ holder = Nobody /\ req[r].pc = "relock"
      BY <2>7, GotoFacts DEF Relock
    <3>2. CASE cookie = req[r].cookie
      <4>1. req'[r].pc = "relogin" /\ req'[r].cookie = cookie /\ holder' = r
        BY <2>7, <3>2, GotoFacts DEF Relock
      <4> QED
        BY <3>1, <3>2, <4>1
    <3>3. CASE cookie # req[r].cookie
      <4>1. req'[r].pc = "retry" /\ req'[r].cookie = cookie /\ holder' = holder
        BY <2>7, <3>3, GotoFacts DEF Relock
      <4>2. cookie \in Nat /\ cookie <= issued
        BY DEF TypeOK
      <4>3. cookie \in 1..issued
        BY <3>1, <4>2 DEF TypeOK
      <4> QED
        BY <3>1, <3>3, <4>1, <4>3
    <3> QED
      BY <3>2, <3>3
  <2> QED
    BY <1>4, <2>1, <2>2, <2>3, <2>4, <2>5, <2>6, <2>7 DEF Serve
<1>5. CASE UNCHANGED vars
  BY <1>5, SessionUntouched DEF vars, session
<1> QED
  BY <1>1, <1>2, <1>3, <1>4, <1>5 DEF Next

LEMMA InitInv ==
  Init => IInv
BY GatewayAssumptions DEF Init, IInv, TypeOK, TaskInv, SessionInv, LockInv, CarriedInv,
  UndisturbedInv, RefusalHasACause, Waiting, Ended

LEMMA StepInv ==
  IInv /\ [Next]_vars => IInv'
BY TypeStep, SessionStep DEF IInv

LEMMA Invariance ==
  Spec => []IInv
BY InitInv, StepInv, PTL DEF Spec

-----------------------------------------------------------------------------
\* The type invariant holds for any number of requests and cameras.
THEOREM TypeCorrect ==
  Spec => []TypeOK
<1>1. IInv => TypeOK
  BY DEF IInv
<1> QED
  BY <1>1, Invariance, PTL

\* However many requests, logins and failures overlap, a request is refused in
\* the end only if a session ended or a call failed since it began.
THEOREM RefusalAlwaysHasACause ==
  Spec => []RefusalHasACause
<1>1. IInv => RefusalHasACause
  BY DEF IInv, SessionInv
<1> QED
  BY <1>1, Invariance, PTL

\* No login of the adapter, under the lock and with the cookie compared, ends a
\* session that the adapter uses and the gateway accepts.
THEOREM SessionAlwaysSpared ==
  Spec => SparesTheSession
<1>1. IInv /\ [Next]_vars => [issued' > issued => cookie = 0 \/ cookie # live]_vars
  <2> SUFFICES ASSUME IInv, Next, issued' > issued
               PROVE  cookie = 0 \/ cookie # live
    OBVIOUS
  <2>1. issued' # issued
    BY DEF IInv, TypeOK
  <2>2. PICK r \in Requests : Serve(r)
    BY <2>1 DEF Next, SessionEnds, Restart, Geocode, LookupStarts, LookupEnds, session
  <2>3. LoggedIn(r) \/ LoginRaises(r)
    BY <2>1, <2>2 DEF Serve, EnsureSession, NoCookie, Answered, GetRaises, Relock
  <2> QED
    BY <2>3 DEF IInv, SessionInv, LockInv, CarriedInv, LoggedIn, LoginRaises, LoggingIn
<1> QED
  BY <1>1, Invariance, PTL DEF Spec, SparesTheSession
=============================================================================
