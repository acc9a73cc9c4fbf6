----------------------------- MODULE AuditChain -----------------------------
(***************************************************************************)
(* The hash-chained audit log of services/api and the request transactions *)
(* that write to it.                                                       *)
(*                                                                         *)
(* Every HTTP request runs in one database transaction (database.py,       *)
(* get_db): it commits on a clean return and rolls back on any exception,  *)
(* a deliberate HTTPException included.  audit_service.record takes a      *)
(* transaction-scoped advisory lock, reads the newest row, appends a row   *)
(* that carries its hash, and leaves the lock to the transaction.  Some    *)
(* requests also lock a row of `users` before or after they audit, which   *)
(* is what lets two transactions wait for each other.                      *)
(*                                                                         *)
(* A row's hash is abstracted to its id: the id is part of the hashed      *)
(* payload, so rows with different ids have different hashes.              *)
(***************************************************************************)
EXTENDS Integers, FiniteSets, Sequences

CONSTANTS
  Requests,        \* HTTP requests, each runs at most once
  Ids,             \* the uuids rows can draw, as positive integers
  Free,            \* the value of a lock nobody holds
  MaxSetBacks      \* bound: how often the wall clock is set back

ASSUME IdsAssumption == Ids \subseteq Nat \ {0}
ASSUME FreeAssumption == Free \notin Requests
ASSUME MaxSetBacksAssumption == MaxSetBacks \in Nat

VARIABLES
  rows,        \* committed rows of audit_log
  pending,     \* rows each open transaction has flushed, not yet committed
  auditLock,   \* holder of the advisory transaction lock
  userLock,    \* holder of the row lock on the one `users` row in question
  kind,        \* the route each request runs
  at,          \* how far each request is in its program
  pc,          \* where the request is, inside record() or outside it
  last,        \* the hash record() read, before it appends
  answer,      \* what the client was told
  now,         \* the wall clock
  setBacks     \* how often it has been set back

vars == <<rows, pending, auditLock, userLock, kind, at, pc, last, answer, now, setBacks>>

GENESIS == 0

-----------------------------------------------------------------------------
(* The routes, as the order in which they audit, lock the user row and end *)

\* Operators named *Mutant are plausible bugs in the definition they precede;
\* PROJECT.json says which property must notice each of them.

\* require_permission(..., audit_on_success=True) and a clean handler
AllowSteps == <<"audit", "commit">>

\* require_permission or check_resource_jurisdiction refuses: audit, raise
DenySteps == <<"audit", "rollback">>

\* the allow row is flushed, then the handler raises (404, 403, 409)
GrantThenErrorSteps == <<"audit", "rollback">>

\* refresh() presented with a rotated token: bump token_version, flush,
\* audit, raise
ReuseSteps == <<"user", "audit", "rollback">>

\* revoke_sessions: the dependency audits, the handler bumps token_version
RevokeSteps == <<"audit", "user", "commit">>

\* reset_password: bumps token_version, audits nothing
ResetStepsMutant == <<"user", "audit", "commit">>

ResetSteps == <<"user", "commit">>

Program ==
  [ allow |-> AllowSteps, deny |-> DenySteps, grantThenError |-> GrantThenErrorSteps,
    reuse |-> ReuseSteps, revoke |-> RevokeSteps, reset |-> ResetSteps ]

Kinds == DOMAIN Program

Audits(k) == \E i \in DOMAIN Program[k] : Program[k][i] = "audit"

-----------------------------------------------------------------------------
(* The order of the table and the chain, as verify_chain computes them     *)

\* ORDER BY ts, id
Before(a, b) == a.ts < b.ts \/ (a.ts = b.ts /\ a.id < b.id)

Newest(r, S) == \A s \in S : s = r \/ Before(s, r)

\* an empty table is not the genesis hash but "no row"
LastHashMutant(S) ==
  IF \E r \in S : Newest(r, S) THEN (CHOOSE r \in S : Newest(r, S)).id ELSE -1

\* the row_hash of the newest row of S, or the genesis hash
LastHash(S) ==
  IF \E r \in S : Newest(r, S) THEN (CHOOSE r \in S : Newest(r, S)).id ELSE GENESIS

\* verify_chain: in (ts, id) order every row names the hash of the one before
VerifyChain(S) == \A r \in S : r.prev = LastHash({s \in S : Before(s, r)})

-----------------------------------------------------------------------------
Init ==
  /\ rows = {}
  /\ pending = [r \in Requests |-> {}]
  /\ auditLock = Free
  /\ userLock = Free
  /\ kind \in [Requests -> Kinds]
  /\ at = [r \in Requests |-> 1]
  /\ pc = [r \in Requests |-> "idle"]
  /\ last = [r \in Requests |-> GENESIS]
  /\ answer = [r \in Requests |-> "none"]
  /\ now = 0
  /\ setBacks = 0

AtStep(r, step) ==
  /\ pc[r] = "run"
  /\ at[r] \in DOMAIN Program[kind[r]]
  /\ Program[kind[r]][at[r]] = step

\* a session lock, pg_advisory_lock, which outlives the transaction
ReleaseMutant(r) ==
  /\ auditLock' = auditLock
  /\ userLock' = IF userLock = r THEN Free ELSE userLock

\* Postgres releases both locks when the transaction ends, however it ends
Release(r) ==
  /\ auditLock' = IF auditLock = r THEN Free ELSE auditLock
  /\ userLock' = IF userLock = r THEN Free ELSE userLock

End(r, told) ==
  /\ pc' = [pc EXCEPT ![r] = "ended"]
  /\ answer' = [answer EXCEPT ![r] = told]
  /\ pending' = [pending EXCEPT ![r] = {}]
  /\ Release(r)
  /\ UNCHANGED <<kind, at, last, now, setBacks>>

Begin(r) ==
  /\ pc[r] = "idle"
  /\ pc' = [pc EXCEPT ![r] = "run"]
  /\ UNCHANGED <<rows, pending, auditLock, userLock, kind, at, last, answer, now, setBacks>>

\* the read is not preceded by the lock
TakeAuditLockMutant(r) ==
  /\ AtStep(r, "audit")
  /\ pc' = [pc EXCEPT ![r] = "read"]
  /\ UNCHANGED <<rows, pending, auditLock, userLock, kind, at, last, answer, now, setBacks>>

\* SELECT pg_advisory_xact_lock: waits for the holder, re-entrant
TakeAuditLock(r) ==
  /\ AtStep(r, "audit")
  /\ auditLock \in {Free, r}
  /\ auditLock' = r
  /\ pc' = [pc EXCEPT ![r] = "read"]
  /\ UNCHANGED <<rows, pending, userLock, kind, at, last, answer, now, setBacks>>

\* the newest row this transaction can see: committed ones and its own
ReadLast(r) ==
  /\ pc[r] = "read"
  /\ last' = [last EXCEPT ![r] = LastHash(rows \cup pending[r])]
  /\ pc' = [pc EXCEPT ![r] = "append"]
  /\ UNCHANGED <<rows, pending, auditLock, userLock, kind, at, answer, now, setBacks>>

UsedIds == {r.id : r \in rows \cup UNION {pending[q] : q \in Requests}}

\* ts = datetime.now(), a fresh uuid, prev_hash = what was read; flush
AppendRow(r) ==
  /\ pc[r] = "append"
  /\ \E id \in Ids \ UsedIds :
       pending' = [pending EXCEPT ![r] = @ \cup
                     {[id |-> id, ts |-> now, prev |-> last[r], req |-> r]}]
  /\ now' = now + 1
  /\ at' = [at EXCEPT ![r] = @ + 1]
  /\ pc' = [pc EXCEPT ![r] = "run"]
  /\ UNCHANGED <<rows, auditLock, userLock, kind, last, answer, setBacks>>

\* UPDATE users SET token_version = ...: waits for the row's lock
TakeUserRow(r) ==
  /\ AtStep(r, "user")
  /\ userLock \in {Free, r}
  /\ userLock' = r
  /\ at' = [at EXCEPT ![r] = @ + 1]
  /\ UNCHANGED <<rows, pending, auditLock, kind, pc, last, answer, now, setBacks>>

Commit(r) ==
  /\ AtStep(r, "commit")
  /\ rows' = rows \cup pending[r]
  /\ End(r, "ok")

\* the audit row is written on a connection of its own and survives
RollbackMutant(r) ==
  /\ AtStep(r, "rollback")
  /\ End(r, "error")
  /\ rows' = rows \cup pending[r]

Rollback(r) ==
  /\ AtStep(r, "rollback")
  /\ End(r, "error")
  /\ UNCHANGED rows

\* The process stops or the connection drops with the transaction open: it is
\* rolled back, unless the commit was under way and only its answer was lost.
ConnectionLost(r) ==
  /\ pc[r] \in {"run", "read", "append"}
  /\ End(r, "unknown")
  /\ UNCHANGED rows \/ (AtStep(r, "commit") /\ rows' = rows \cup pending[r])

WaitsFor(r, s) ==
  /\ r # s
  /\ \/ AtStep(r, "audit") /\ auditLock = s
     \/ AtStep(r, "user") /\ userLock = s

Deadlocked(r, s) == WaitsFor(r, s) /\ WaitsFor(s, r)

\* Postgres' deadlock detector ends one of the two transactions: a 500
DeadlockAbort(r) ==
  /\ \E s \in Requests : Deadlocked(r, s)
  /\ End(r, "error")
  /\ UNCHANGED rows

StepBack ==
  /\ setBacks < MaxSetBacks
  /\ now > 0
  /\ now' = now - 1
  /\ setBacks' = setBacks + 1
  /\ UNCHANGED <<rows, pending, auditLock, userLock, kind, at, pc, last, answer>>

Step(r) ==
  \/ Begin(r) \/ TakeAuditLock(r) \/ ReadLast(r) \/ AppendRow(r) \/ TakeUserRow(r)
  \/ Commit(r) \/ Rollback(r) \/ ConnectionLost(r) \/ DeadlockAbort(r)

Done == \A r \in Requests : pc[r] = "ended"

Next == (\E r \in Requests : Step(r)) \/ StepBack \/ (Done /\ UNCHANGED vars)

Spec == Init /\ [][Next]_vars

\* A request that can go on does.  Postgres queues lock waiters in order, so
\* one that finds the lock free again and again gets it: strong fairness.
Fairness ==
  \A r \in Requests :
    /\ WF_vars(ReadLast(r)) /\ WF_vars(AppendRow(r))
    /\ WF_vars(Commit(r)) /\ WF_vars(Rollback(r)) /\ WF_vars(DeadlockAbort(r))
    /\ SF_vars(TakeAuditLock(r)) /\ SF_vars(TakeUserRow(r))

FairSpec == Spec /\ Fairness

-----------------------------------------------------------------------------
Row == [id : Nat \ {0}, ts : Nat, prev : Nat, req : Requests]

\* Every variable keeps its type.
TypeOK ==
  /\ rows \subseteq Row
  /\ pending \in [Requests -> SUBSET Row]
  /\ auditLock \in Requests \cup {Free}
  /\ userLock \in Requests \cup {Free}
  /\ kind \in [Requests -> Kinds]
  /\ at \in [Requests -> Nat \ {0}]
  /\ pc \in [Requests -> {"idle", "run", "read", "append", "ended"}]
  /\ last \in [Requests -> Nat]
  /\ answer \in [Requests -> {"none", "ok", "error", "unknown"}]
  /\ now \in Nat
  /\ setBacks \in Nat

\* As long as the wall clock is not set back, verify_chain succeeds on the
\* committed log at every moment, whatever requests append, commit, roll back
\* or die concurrently: two requests never append after the same row
\* (audit_service.py, the concurrency note).
ChainIntact == setBacks = 0 => VerifyChain(rows)

\* A request answered with success has its row in the log, and a request that
\* was refused or failed has left none: only where the answer itself was lost
\* is the log the one to know (require_permission with audit_on_success, get_db).
AuditMatchesAnswer ==
  \A r \in Requests :
    LET logged == \E x \in rows : x.req = r IN
    /\ answer[r] = "ok" /\ Audits(kind[r]) => logged
    /\ logged => answer[r] \in {"ok", "unknown"}

\* The only two routes that can wait for each other are the reuse branch of
\* refresh() and revoke_sessions: they take the user row and the audit lock in
\* opposite orders, and no other pair does.
OnlyReuseAndRevokeDeadlock ==
  \A r, s \in Requests : Deadlocked(r, s) => {kind[r], kind[s]} = {"reuse", "revoke"}

\* Every request that started is ended: the advisory lock is never leaked and
\* the one lock cycle is broken by the database.
EveryRequestEnds == \A r \in Requests : pc[r] = "run" ~> pc[r] = "ended"

\* "Denials are always audited regardless of this flag" (security/rbac.py):
\* a request that was refused has its deny row in the log.
DenialsAudited ==
  \A r \in Requests :
    kind[r] = "deny" /\ answer[r] = "error" => \E x \in rows : x.req = r
=============================================================================
