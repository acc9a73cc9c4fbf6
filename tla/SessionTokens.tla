---------------------------- MODULE SessionTokens ----------------------------
(***************************************************************************)
(* The sessions of one user: the tokens the API issues, refuses, rotates   *)
(* and revokes (services/api/api/auth.py, api/deps.py, api/admin.py), and  *)
(* the pages of one browser that hold them                                 *)
(* (apps/web/lib/api-client.ts, auth-context.tsx).                         *)
(*                                                                         *)
(* An access and a refresh token are issued together and stored together,  *)
(* so a pair is one number; pair n was made with version pairs[n]. The     *)
(* transactions of these routes are those of AuditChain: of them only the  *)
(* values read and written are left. The reuse branch of refresh raises,   *)
(* which rolls its increment back: a reused token is just refused.         *)
(***************************************************************************)
EXTENDS Naturals, Sequences, FiniteSets

CONSTANTS
  Calls,       \* API calls made by the pages, each made once
  Page,        \* the page that makes each call
  Resets,      \* password resets
  Revocations, \* sessions revoked by an administrator, or by the user's own hand
  MaxPairs,    \* bound on pairs issued
  MaxFaults,   \* bound on refreshes that fail or whose answer is lost
  None         \* no call

Bumps == Resets \cup Revocations

ASSUME SessionAssumptions ==
  /\ Resets \cap Revocations = {}
  /\ MaxPairs \in Nat \ {0}
  /\ MaxFaults \in Nat
  /\ None \notin Calls
  /\ DOMAIN Page = Calls

VARIABLES
  version,   \* users.token_version
  bumps,     \* the transactions that increment it
  login,     \* a login from elsewhere: the version it read
  pairs,     \* pairs issued: the version in each
  used,      \* refresh tokens on the blacklist
  wiped,     \* Redis has restarted, with an empty blacklist
  exchanged, \* how often each refresh token was exchanged
  raced,     \* tokens of which two refreshes were past the check together
  stored,    \* the pair in localStorage, 0 for none
  call,      \* the calls: where they are, their pair, the version a refresh read
  promise,   \* refreshPromise of each page: the call that refreshes
  logouts,   \* refresh tokens on their way to /auth/logout
  faults,    \* failed refreshes
  excused    \* something has happened that may sign the user out

server == <<version, bumps, login, pairs, used, wiped, exchanged, raced>>
browser == <<stored, call, promise, logouts, faults, excused>>
sessionVars == <<version, bumps, login, pairs, used, wiped, exchanged, raced,
                 stored, call, promise, logouts, faults, excused>>

Pages == {Page[c] : c \in Calls}
InFlight == {"refresh", "selected", "clear", "answered", "refused"}
Over == {"done", "error", "signedout"}

\* a call with nothing to remember
At(pc) == [pc |-> pc, pair |-> 0, seen |-> 0, got |-> 0]

SessionTypeOK ==
  /\ version \in Nat
  /\ bumps \in [Bumps -> [pc : {"new", "read", "done"}, seen : Nat, known : 0..Len(pairs), missed : Nat]]
  /\ login \in [pc : {"new", "read", "done"}, seen : Nat]
  /\ pairs \in Seq(Nat) /\ Len(pairs) \in 1..MaxPairs
  /\ used \subseteq 1..Len(pairs)
  /\ wiped \in BOOLEAN
  /\ exchanged \in [1..MaxPairs -> Nat]
  /\ raced \subseteq 1..Len(pairs)
  /\ stored \in 0..Len(pairs)
  /\ call \in [Calls -> [pc : {"new", "sent", "denied", "sharing", "retry"} \cup InFlight \cup Over,
                         pair : 0..Len(pairs), seen : Nat, got : 0..Len(pairs)]]
  /\ promise \in [Pages -> Calls \cup {None}]
  /\ logouts \subseteq 1..Len(pairs)
  /\ faults \in 0..MaxFaults
  /\ excused \in BOOLEAN

\* the user has signed in and every page has loaded; calls, increments and a
\* login that are not to come are over
Starting(calls, increments, another) ==
  /\ version = 0
  /\ bumps = [b \in Bumps |-> [pc |-> IF b \in increments THEN "new" ELSE "done",
                               seen |-> 0, known |-> 0, missed |-> 0]]
  /\ login = [pc |-> IF another THEN "new" ELSE "done", seen |-> 0]
  /\ pairs = <<0>>
  /\ used = {}
  /\ wiped = FALSE
  /\ exchanged = [n \in 1..MaxPairs |-> 0]
  /\ raced = {}
  /\ stored = 1
  /\ call = [c \in Calls |-> At(IF c \in calls THEN "new" ELSE "done")]
  /\ promise = [p \in Pages |-> None]
  /\ logouts = {}
  /\ faults = 0
  /\ excused = FALSE

SessionInit == Starting(Calls, Bumps, TRUE)

-----------------------------------------------------------------------------
(* The version of the user *)

\* get_current_user: the token's version is the user's
Accepts(n) == n # 0 /\ pairs[n] = version

\* SELECT of the user; for a reset the version in its own token is the same
ReadVersion(b) ==
  /\ bumps[b].pc = "new"
  /\ bumps' = [bumps EXCEPT ![b] = [@ EXCEPT !.pc = "read", !.seen = version, !.known = Len(pairs)]]
  /\ UNCHANGED <<version, login, pairs, used, wiped, exchanged, raced, browser>>

\* a reset link made before an increment is no longer valid
LateReset(b) ==
  /\ b \in Resets
  /\ bumps[b].pc = "new"
  /\ version > 0
  /\ bumps' = [bumps EXCEPT ![b].pc = "done"]
  /\ UNCHANGED <<version, login, pairs, used, wiped, exchanged, raced, browser>>

\* the increment is lost
IncrementMutant(seen) == seen

\* user.token_version += 1, in Python
Increment(seen) == seen + 1

\* UPDATE and COMMIT: what was read plus one, whatever the version is by now
CommitVersion(b) ==
  /\ bumps[b].pc = "read"
  /\ version' = Increment(bumps[b].seen)
  /\ bumps' = [x \in Bumps |->
       IF x = b THEN [bumps[b] EXCEPT !.pc = "done",
                                      !.known = IF bumps[b].missed = 0 THEN Len(pairs) ELSE @]
       ELSE IF bumps[x].pc = "read" THEN [bumps[x] EXCEPT !.missed = @ + 1]
       ELSE bumps[x]]
  /\ excused' = TRUE
  /\ UNCHANGED <<login, pairs, used, wiped, exchanged, raced,
                 stored, call, promise, logouts, faults>>

\* _issue_tokens: an access and a refresh token that carry version v
Issue(v) ==
  /\ Len(pairs) < MaxPairs
  /\ pairs' = Append(pairs, v)

\* login: SELECT, the password, the audit record ...
LoginReads ==
  /\ login.pc = "new"
  /\ login' = [pc |-> "read", seen |-> version]
  /\ UNCHANGED <<version, bumps, pairs, used, wiped, exchanged, raced, browser>>

\* ... and the tokens, of the version that was read
LoginIssues ==
  /\ login.pc = "read"
  /\ Issue(login.seen)
  /\ login' = [login EXCEPT !.pc = "done"]
  /\ UNCHANGED <<version, bumps, used, wiped, exchanged, raced, browser>>

\* the Redis container keeps nothing over a restart
RedisRestarts ==
  /\ faults < MaxFaults
  /\ faults' = faults + 1
  /\ wiped' = TRUE
  /\ used' = {}
  /\ UNCHANGED <<version, bumps, login, pairs, exchanged, raced,
                 stored, call, promise, logouts, excused>>

-----------------------------------------------------------------------------
(* A call and its page *)

Sharing(c) == {d \in Calls : Page[d] = Page[c] /\ call[d].pc = "sharing"}

\* c, and those that wait for the same promise, go on at pc
Resolved(c, pc) ==
  /\ call' = [d \in Calls |-> IF d \in Sharing(c) \cup {c} THEN At(pc) ELSE call[d]]
  /\ promise' = [promise EXCEPT ![Page[c]] = None]

\* apiFetch: the stored token at the time of the call
Send(c) ==
  /\ call[c].pc = "new"
  /\ call' = [call EXCEPT ![c].pc = "sent", ![c].pair = stored]
  /\ UNCHANGED <<stored, promise, logouts, faults, excused, server>>

\* the API answers, 401 if it does not accept the token or it has expired
Judged(c) ==
  /\ call[c].pc = "sent"
  /\ \/ Accepts(call[c].pair) /\ call' = [call EXCEPT ![c] = At("done")]
     \/ call' = [call EXCEPT ![c] = At("denied")]
  /\ UNCHANGED <<stored, promise, logouts, faults, excused, server>>

\* two pages present the same refresh token
TwoPages(c) ==
  \E d \in Calls : Page[d] # Page[c] /\ call[d].pc \in InFlight /\ call[d].pair = stored

\* every caller refreshes for itself
RefreshMutant(c) ==
  /\ call[c].pc = "denied"
  /\ stored # 0
  /\ call' = [call EXCEPT ![c].pc = "refresh", ![c].pair = stored]
  /\ promise' = [promise EXCEPT ![Page[c]] = c]
  /\ excused' = (excused \/ TwoPages(c))
  /\ UNCHANGED <<stored, logouts, faults, server>>

\* refreshAccessToken: share the page's refresh, or start one, or, with no
\* token left, go to the login page
Refresh(c) ==
  /\ call[c].pc = "denied"
  /\ \/ /\ promise[Page[c]] # None
        /\ call' = [call EXCEPT ![c] = At("sharing")]
        /\ UNCHANGED <<promise, excused>>
     \/ /\ promise[Page[c]] = None
        /\ stored # 0
        /\ call' = [call EXCEPT ![c].pc = "refresh", ![c].pair = stored]
        /\ promise' = [promise EXCEPT ![Page[c]] = c]
        /\ excused' = (excused \/ TwoPages(c))
     \/ /\ promise[Page[c]] = None
        /\ stored = 0
        /\ call' = [call EXCEPT ![c] = At("signedout")]
        /\ UNCHANGED <<promise, excused>>
  /\ UNCHANGED <<stored, logouts, faults, server>>

\* refresh: SELECT of the user
Select(c) ==
  /\ call[c].pc = "refresh"
  /\ call' = [call EXCEPT ![c].pc = "selected", ![c].seen = version]
  /\ UNCHANGED <<stored, promise, logouts, faults, excused, server>>

\* EXISTS in the blacklist, then the version
Check(c) ==
  /\ call[c].pc = "selected"
  /\ call' = [call EXCEPT ![c].pc =
       IF call[c].pair \notin used /\ pairs[call[c].pair] = call[c].seen THEN "clear" ELSE "refused"]
  /\ UNCHANGED <<stored, promise, logouts, faults, excused, server>>

\* a successor, without a record that the token was exchanged
RotateMutant(c) ==
  /\ call[c].pc = "clear"
  /\ Issue(call[c].seen)
  /\ exchanged' = [exchanged EXCEPT ![call[c].pair] = @ + 1]
  /\ call' = [call EXCEPT ![c] = [At("answered") EXCEPT !.pair = call[c].pair, !.got = Len(pairs')]]
  /\ UNCHANGED <<version, bumps, login, used, wiped, raced, stored, promise, logouts, faults, excused>>

\* SET in the blacklist and a new pair
Rotate(c) ==
  /\ call[c].pc = "clear"
  /\ Len(pairs) < MaxPairs
  /\ used' = used \cup {call[c].pair}
  /\ pairs' = Append(pairs, call[c].seen)
  /\ exchanged' = [exchanged EXCEPT ![call[c].pair] = @ + 1]
  /\ raced' = IF \E d \in Calls \ {c} : call[d].pc = "clear" /\ call[d].pair = call[c].pair
              THEN raced \cup {call[c].pair} ELSE raced
  /\ call' = [call EXCEPT ![c] = [At("answered") EXCEPT !.pair = call[c].pair, !.got = Len(pairs')]]
  /\ UNCHANGED <<version, bumps, login, wiped, stored, promise, logouts, faults, excused>>

\* the page stores the new pair, over whatever is there by now
Store(c) ==
  /\ call[c].pc = "answered"
  /\ stored' = call[c].got
  /\ Resolved(c, "retry")
  /\ UNCHANGED <<logouts, faults, excused, server>>

\* any answer but a success clears the tokens, and every caller is sent to
\* the login page
Clear(c) ==
  /\ call[c].pc = "refused"
  /\ stored' = 0
  /\ Resolved(c, "signedout")
  /\ UNCHANGED <<logouts, faults, excused, server>>

\* the one retry, with the stored token
Retry(c) ==
  /\ call[c].pc = "retry"
  /\ \/ Accepts(stored) /\ call' = [call EXCEPT ![c] = At("done")]
     \/ call' = [call EXCEPT ![c] = At("error")]
  /\ UNCHANGED <<stored, promise, logouts, faults, excused, server>>

\* the refresh fails, before the API acted or after: fetch raises and the
\* tokens stay, or the answer is a 429 or 5xx and they are cleared
RefreshFails(c) ==
  /\ call[c].pc \in InFlight
  /\ faults < MaxFaults
  /\ faults' = faults + 1
  /\ excused' = TRUE
  /\ \/ Resolved(c, "error") /\ UNCHANGED stored
     \/ Resolved(c, "signedout") /\ stored' = 0
  /\ UNCHANGED <<logouts, server>>

\* logout clears the tokens first and then tells the API
Logout ==
  /\ stored # 0
  /\ stored' = 0
  /\ logouts' = logouts \cup {stored}
  /\ excused' = TRUE
  /\ UNCHANGED <<call, promise, faults, server>>

LogoutServed(n) ==
  /\ n \in logouts
  /\ logouts' = logouts \ {n}
  /\ used' = used \cup {n}
  /\ UNCHANGED <<version, bumps, login, pairs, wiped, exchanged, raced,
                 stored, call, promise, faults, excused>>

-----------------------------------------------------------------------------
CallStep(c) ==
  \/ Send(c) \/ Judged(c) \/ Refresh(c) \/ Select(c) \/ Check(c) \/ Rotate(c)
  \/ Store(c) \/ Clear(c) \/ Retry(c) \/ RefreshFails(c)

SessionNext ==
  \/ \E b \in Bumps : ReadVersion(b) \/ LateReset(b) \/ CommitVersion(b)
  \/ LoginReads \/ LoginIssues \/ RedisRestarts
  \/ Logout \/ \E n \in logouts : LogoutServed(n)
  \/ \E c \in Calls : CallStep(c)

SessionSpec == SessionInit /\ [][SessionNext]_sessionVars

-----------------------------------------------------------------------------
\* An increment was overtaken: two others committed between its read and its
\* commit, so the version went back.
Overtaken == \E b \in Bumps : bumps[b].missed > 1

\* A reset or revocation ends every session issued before its commit; if
\* another one committed since it read the version, every session issued
\* before that read. Later steps never bring such a session back, unless an
\* increment was overtaken.
RevocationLasts ==
  ~Overtaken => \A b \in Bumps : bumps[b].pc = "done" =>
                   \A n \in 1..bumps[b].known : pairs[n] # version

\* A refresh token has one successor, unless two refreshes with it were past
\* the check before either recorded it, or Redis forgot that it was used.
ExchangedOnce == \A n \in 1..Len(pairs) : exchanged[n] <= 1 \/ n \in raced \/ wiped

\* What the comment in reset_password and the docstring of revoke_sessions say:
\* no token made before the increment was committed is accepted after it.
EverySessionEnds ==
  [][\A b \in Bumps : bumps[b].pc = "read" /\ bumps'[b].pc = "done" =>
       \A n \in 1..Len(pairs) : pairs[n] # version']_sessionVars

\* Nobody is sent to the login page but for a reset or revocation, a logout, a
\* refresh that failed, or two pages that refreshed at once: the calls of one
\* page never spoil one another's refresh (the comment above refreshPromise).
SignedOutForACause == (\E c \in Calls : call[c].pc = "signedout") => excused
=============================================================================
