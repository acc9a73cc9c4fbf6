------------------------- MODULE AuditChain_proofs --------------------------
(***************************************************************************)
(* Proofs about the requests of the API.                                   *)
(*  - AuditChain: the audit log is a chain for every number of concurrent  *)
(*    requests, until the wall clock is set back.                          *)
(*  - SessionTokens: revocation, rotation and sign-out, for every number   *)
(*    of pages, calls and increments.                                      *)
(***************************************************************************)
EXTENDS AuditChain, SessionTokens, TLAPS

\* What one open transaction sees of the log.
View(r) == rows \cup pending[r]

\* Only the holder of the advisory lock is inside record() or has flushed a
\* row, and nothing is left of a transaction that is not running.
LockInv ==
  \A r \in Requests :
    /\ pc[r] \in {"read", "append"} \/ pending[r] # {} => auditLock = r
    /\ pc[r] \in {"idle", "ended"} => pending[r] = {}

\* Every row was stamped before the clock's present value.
ClockInv ==
  /\ \A x \in rows : x.ts < now
  /\ \A r \in Requests : \A p \in pending[r] : p.ts < now

\* What a transaction sees is a chain, and what it read is the chain's end.
ViewInv ==
  \A r \in Requests :
    /\ VerifyChain(View(r))
    /\ pc[r] = "append" => last[r] = LastHash(View(r))

\* What holds until the clock is set back.
ChainInv == ClockInv /\ ViewInv /\ VerifyChain(rows)

IInv == TypeOK /\ LockInv /\ (setBacks = 0 => ChainInv)

-----------------------------------------------------------------------------
\* Appending a row stamped later than all of a chain, with the hash of the
\* chain's end, gives a chain.
LEMMA ExtendChain ==
  ASSUME NEW S, NEW x, S \subseteq Row, x \in Row,
         VerifyChain(S), \A s \in S : s.ts < x.ts, x.prev = LastHash(S)
  PROVE  VerifyChain(S \cup {x})
<1>1. ASSUME NEW r \in S
      PROVE  {s \in S \cup {x} : Before(s, r)} = {s \in S : Before(s, r)}
  BY DEF Before, Row
<1>2. {s \in S \cup {x} : Before(s, x)} = S
  BY DEF Before, Row
<1> QED
  BY <1>1, <1>2 DEF VerifyChain

\* What record() reads is a hash.
LEMMA LastHashType ==
  ASSUME NEW S, S \subseteq Row
  PROVE  LastHash(S) \in Nat
BY DEF LastHash, GENESIS, Row

\* Every variable keeps its type, whatever the clock does.
THEOREM TypeCorrect == Spec => []TypeOK
<1>1. Init => TypeOK
  BY DEF Init, TypeOK, GENESIS
<1>2. TypeOK /\ [Next]_vars => TypeOK'
  <2> SUFFICES ASSUME TypeOK, [Next]_vars
               PROVE  TypeOK'
    OBVIOUS
  <2>1. ASSUME NEW r \in Requests, Begin(r) \/ TakeAuditLock(r) \/ TakeUserRow(r)
        PROVE  TypeOK'
    BY <2>1 DEF Begin, TakeAuditLock, TakeUserRow, TypeOK
  <2>2. ASSUME NEW r \in Requests, ReadLast(r)
        PROVE  TypeOK'
    <3>1. LastHash(rows \cup pending[r]) \in Nat
      BY LastHashType DEF TypeOK
    <3> QED
      BY <2>2, <3>1 DEF ReadLast, TypeOK
  <2>3. ASSUME NEW r \in Requests, AppendRow(r)
        PROVE  TypeOK'
    <3>1. ASSUME NEW id \in Ids
          PROVE  [id |-> id, ts |-> now, prev |-> last[r], req |-> r] \in Row
      BY IdsAssumption DEF TypeOK, Row
    <3> QED
      BY <2>3, <3>1 DEF AppendRow, TypeOK
  <2>4. ASSUME NEW r \in Requests, NEW told \in {"ok", "error", "unknown"}, End(r, told),
               rows' \in {rows, rows \cup pending[r]}
        PROVE  TypeOK'
    BY <2>4 DEF End, Release, TypeOK
  <2>5. CASE StepBack \/ UNCHANGED vars
    BY <2>5 DEF StepBack, vars, TypeOK
  <2> QED
    BY <2>1, <2>2, <2>3, <2>4, <2>5
       DEF Next, Step, Commit, Rollback, ConnectionLost, DeadlockAbort
<1> QED
  BY <1>1, <1>2, PTL DEF Spec

\* Ending a transaction keeps the invariant when the log it leaves is a chain
\* stamped in the past: the log as it was, or what the lock holder sees.
LEMMA EndKeepsInv ==
  ASSUME IInv, NEW r \in Requests, NEW told \in {"ok", "error", "unknown"},
         End(r, told), rows' \in {rows, View(r)}
  PROVE  IInv'
<1>1. TypeOK'
  BY DEF IInv, TypeOK, End, Release, View
<1>2. LockInv'
  BY DEF IInv, TypeOK, LockInv, End, Release
<1>3. ASSUME setBacks' = 0
      PROVE  ChainInv'
  <2> DEFINE after == rows'
  <2>0. ChainInv
    BY <1>3 DEF IInv, End
  <2>1. VerifyChain(after)
    BY <2>0 DEF ChainInv, ViewInv
  <2>2. ClockInv'
    BY <2>0 DEF IInv, TypeOK, ChainInv, ClockInv, End, View
  <2>3. ViewInv'
    <3> SUFFICES ASSUME NEW q \in Requests
                 PROVE  /\ VerifyChain(rows' \cup pending'[q])
                        /\ pc'[q] = "append" => last'[q] = LastHash(rows' \cup pending'[q])
      BY DEF ViewInv, View
    <3>1. CASE q = r \/ pending[q] = {}
      <4>1. pending'[q] = {}
        BY <3>1 DEF IInv, TypeOK, End
      <4>2. rows' \cup pending'[q] = after
        BY <4>1
      <4>3. VerifyChain(rows' \cup pending'[q])
        BY <4>2, <2>1
      <4>4. ASSUME pc'[q] = "append"
            PROVE  last'[q] = LastHash(rows' \cup pending'[q])
        <5>1. q # r /\ pc[q] = "append" /\ last'[q] = last[q]
          BY <4>4 DEF IInv, TypeOK, End
        <5>2. rows' = rows
          \* q holds the lock, so r has flushed nothing
          BY <5>1 DEF IInv, LockInv, View
        <5>3. View(q) = rows' \cup pending'[q]
          BY <5>1, <5>2, <3>1, <4>1 DEF View
        <5> QED
          BY <5>1, <5>3, <2>0 DEF ChainInv, ViewInv
      <4> QED
        BY <4>3, <4>4
    <3>2. CASE q # r /\ pending[q] # {}
      <4>1. rows' = rows /\ pending'[q] = pending[q]
        BY <3>2 DEF IInv, TypeOK, LockInv, View, End
      <4>2. View(q) = rows' \cup pending'[q]
        BY <4>1 DEF View
      <4>3. pc'[q] = pc[q] /\ last'[q] = last[q]
        BY <3>2 DEF IInv, TypeOK, End
      <4> QED
        BY <4>2, <4>3, <2>0 DEF ChainInv, ViewInv
    <3> QED
      BY <3>1, <3>2
  <2> QED
    BY <2>1, <2>2, <2>3 DEF ChainInv
<1> QED
  BY <1>1, <1>2, <1>3 DEF IInv

\* The clock reading and the row a transaction appends extend what it sees,
\* and only that: nobody else holds the lock, so nobody else has read the end.
LEMMA AppendKeepsInv ==
  ASSUME IInv, NEW r \in Requests, AppendRow(r)
  PROVE  IInv'
<1>0. pc[r] = "append" /\ auditLock = r
  BY DEF AppendRow, IInv, LockInv
<1>1. PICK x \in Row :
         /\ x.ts = now /\ x.prev = last[r] /\ x.req = r
         /\ pending' = [pending EXCEPT ![r] = @ \cup {x}]
  <2>1. PICK id \in Ids \ UsedIds :
           pending' = [pending EXCEPT ![r] = @ \cup
                         {[id |-> id, ts |-> now, prev |-> last[r], req |-> r]}]
    BY DEF AppendRow
  <2>2. [id |-> id, ts |-> now, prev |-> last[r], req |-> r] \in Row
    BY IdsAssumption DEF IInv, TypeOK, Row
  <2> QED
    BY <2>1, <2>2
<1>2. \A q \in Requests : q # r =>
         /\ pc[q] \notin {"read", "append"} /\ pending[q] = {}
         /\ pc'[q] = pc[q] /\ pending'[q] = pending[q]
  BY <1>0, <1>1 DEF AppendRow, IInv, LockInv, TypeOK
<1>3. rows' = rows /\ last' = last /\ now' = now + 1 /\ UNCHANGED <<auditLock, setBacks>>
  BY DEF AppendRow
<1>4. TypeOK'
  BY <1>1, <1>3 DEF AppendRow, IInv, TypeOK
<1>5. LockInv'
  BY <1>0, <1>2, <1>3 DEF AppendRow, IInv, LockInv, TypeOK
<1>6. ASSUME setBacks' = 0
      PROVE  ChainInv'
  <2>0. ChainInv
    BY <1>3, <1>6 DEF IInv
  <2>1. ClockInv'
    BY <1>1, <1>2, <1>3, <2>0 DEF IInv, ChainInv, ClockInv, TypeOK, Row
  <2>2. VerifyChain(View(r) \cup {x})
    <3>1. View(r) \subseteq Row
      BY DEF View, IInv, TypeOK
    <3>2. \A s \in View(r) : s.ts < x.ts
      BY <1>1, <2>0 DEF View, ChainInv, ClockInv
    <3>3. VerifyChain(View(r)) /\ x.prev = LastHash(View(r))
      BY <1>0, <1>1, <2>0 DEF ChainInv, ViewInv
    <3> QED
      BY <3>1, <3>2, <3>3, ExtendChain
  <2>3. ViewInv'
    <3> SUFFICES ASSUME NEW q \in Requests
                 PROVE  /\ VerifyChain(rows' \cup pending'[q])
                        /\ pc'[q] = "append" => last'[q] = LastHash(rows' \cup pending'[q])
      BY DEF ViewInv, View
    <3>1. CASE q = r
      <4>1. rows' \cup pending'[q] = View(r) \cup {x}
        BY <3>1, <1>1, <1>3 DEF View, IInv, TypeOK
      <4>2. pc'[q] # "append"
        BY <3>1 DEF AppendRow, IInv, TypeOK
      <4> QED
        BY <4>1, <4>2, <2>2
    <3>2. CASE q # r
      <4>1. rows' \cup pending'[q] = View(q) /\ pc'[q] # "append"
        BY <3>2, <1>2, <1>3 DEF View
      <4> QED
        BY <4>1, <2>0 DEF ChainInv, ViewInv
    <3> QED
      BY <3>1, <3>2
  <2>4. VerifyChain(rows)'
    BY <1>3, <2>0 DEF ChainInv
  <2> QED
    BY <2>1, <2>3, <2>4 DEF ChainInv
<1> QED
  BY <1>4, <1>5, <1>6 DEF IInv

-----------------------------------------------------------------------------
\* The invariant holds in every state, for any set of requests and of ids:
\* only the clock can end what it says of the chain, for good.
THEOREM InvariantHolds == Spec => []IInv
<1>1. Init => IInv
  <2> SUFFICES ASSUME Init PROVE IInv
    OBVIOUS
  <2>1. TypeOK
    BY DEF Init, TypeOK, GENESIS
  <2>2. VerifyChain({})
    BY DEF VerifyChain
  <2>3. \A r \in Requests : View(r) = {} /\ pc[r] = "idle" /\ pending[r] = {}
    BY DEF Init, View
  <2> QED
    BY <2>1, <2>2, <2>3 DEF Init, IInv, LockInv, ChainInv, ClockInv, ViewInv
<1>2. ASSUME IInv, [Next]_vars
      PROVE  IInv'
  <2> USE <1>2
  \* an action that leaves the log, the transactions' rows and the clock alone
  <2>0. ASSUME UNCHANGED <<rows, pending, now, setBacks>>, LockInv', TypeOK',
               ViewInv => \A q \in Requests : pc'[q] = "append" => last'[q] = LastHash(View(q))
        PROVE  IInv'
    <3> SUFFICES ASSUME ChainInv
                 PROVE  ChainInv'
      BY <2>0 DEF IInv
    <3>1. ClockInv' /\ VerifyChain(rows)'
      BY <2>0 DEF ChainInv, ClockInv
    <3>2. ViewInv'
      BY <2>0 DEF ChainInv, ViewInv, View
    <3> QED
      BY <3>1, <3>2 DEF ChainInv
  <2>1. ASSUME NEW r \in Requests, Begin(r)
        PROVE  IInv'
    BY <2>1, <2>0 DEF Begin, IInv, TypeOK, LockInv, ViewInv
  <2>2. ASSUME NEW r \in Requests, TakeAuditLock(r)
        PROVE  IInv'
    BY <2>2, <2>0, FreeAssumption DEF TakeAuditLock, AtStep, IInv, TypeOK, LockInv, ViewInv
  <2>3. ASSUME NEW r \in Requests, ReadLast(r)
        PROVE  IInv'
    <3>1. View(r) \subseteq Row
      BY DEF View, IInv, TypeOK
    <3>2. LastHash(View(r)) \in Nat
      BY <3>1, LastHashType
    <3>3. TypeOK' /\ LockInv'
      BY <2>3, <3>2 DEF ReadLast, View, IInv, TypeOK, LockInv
    <3>4. ViewInv => \A q \in Requests : pc'[q] = "append" => last'[q] = LastHash(View(q))
      BY <2>3 DEF ReadLast, View, IInv, TypeOK, ViewInv
    <3> QED
      BY <2>0, <2>3, <3>3, <3>4 DEF ReadLast
  <2>4. ASSUME NEW r \in Requests, AppendRow(r)
        PROVE  IInv'
    BY <2>4, AppendKeepsInv
  <2>5. ASSUME NEW r \in Requests, TakeUserRow(r)
        PROVE  IInv'
    BY <2>5, <2>0 DEF TakeUserRow, IInv, TypeOK, LockInv, ViewInv
  <2>6. ASSUME NEW r \in Requests, Commit(r)
        PROVE  IInv'
    BY <2>6, EndKeepsInv DEF Commit, View
  <2>7. ASSUME NEW r \in Requests, Rollback(r) \/ ConnectionLost(r) \/ DeadlockAbort(r)
        PROVE  IInv'
    BY <2>7, EndKeepsInv DEF Rollback, ConnectionLost, DeadlockAbort, View
  <2>8. CASE StepBack
    <3>1. TypeOK' /\ LockInv'
      BY <2>8 DEF StepBack, IInv, TypeOK, LockInv
    <3>2. setBacks' # 0
      BY <2>8 DEF StepBack, IInv, TypeOK
    <3> QED
      BY <3>1, <3>2 DEF IInv
  <2>9. CASE UNCHANGED vars
    BY <2>9, <2>0 DEF vars, IInv, TypeOK, LockInv, ViewInv
  <2> QED
    BY <2>1, <2>2, <2>3, <2>4, <2>5, <2>6, <2>7, <2>8, <2>9 DEF Next, Step
<1> QED
  BY <1>1, <1>2, PTL DEF Spec

\* verify_chain succeeds on the committed log in every state that is reached
\* before the clock is set back, for any number of concurrent requests
\* (audit_service.py, concurrency note).
THEOREM ChainAlwaysIntact == Spec => []ChainIntact
<1>1. IInv => ChainIntact
  BY DEF IInv, ChainInv, ChainIntact
<1> QED
  BY <1>1, InvariantHolds, PTL

-----------------------------------------------------------------------------
(* The log against what clients were told.  This does not need the clock.  *)

\* the request is past an audit step of its route
PastAudit(r) == \E i \in 1..(at[r] - 1) : Program[kind[r]][i] = "audit"

\* A running request has flushed a row exactly when it is past an audit step,
\* and has not been answered.
ProgressInv ==
  \A r \in Requests :
    /\ \A p \in pending[r] : p.req = r
    /\ pc[r] \in {"read", "append"} => Program[kind[r]][at[r]] = "audit"
    /\ pc[r] # "ended" => answer[r] = "none" /\ (pending[r] # {} <=> PastAudit(r))

AnswerInv == ProgressInv /\ AuditMatchesAnswer

\* A transaction commits last: its audit steps, if any, are behind it.
LEMMA CommitIsLast ==
  ASSUME NEW k \in Kinds, NEW n \in DOMAIN Program[k], Program[k][n] = "commit"
  PROVE  Audits(k) <=> \E i \in 1..(n - 1) : Program[k][i] = "audit"
<1>1. Program[k] \in {AllowSteps, DenySteps, ReuseSteps, RevokeSteps, ResetSteps}
  BY DEF Kinds, Program, DenySteps, GrantThenErrorSteps
<1>2. CASE Program[k] \in {AllowSteps, ResetSteps}
  <2>1. DOMAIN Program[k] = 1..2 /\ n = 2
    BY <1>2 DEF AllowSteps, ResetSteps
  <2> QED
    BY <2>1, <1>2 DEF Audits, AllowSteps, ResetSteps
<1>3. CASE Program[k] = RevokeSteps
  <2>1. DOMAIN Program[k] = 1..3 /\ n = 3 /\ Program[k][1] = "audit"
    BY <1>3 DEF RevokeSteps
  <2> QED
    BY <2>1 DEF Audits
<1>4. CASE Program[k] \in {DenySteps, ReuseSteps}
  BY <1>4 DEF DenySteps, ReuseSteps
<1> QED
  BY <1>1, <1>2, <1>3, <1>4

\* A request answered with success has its row in the log when its route
\* audits, and one that was refused has none (rbac.py audit_on_success,
\* database.py get_db), for any number of requests and on any clock.
THEOREM LogMatchesAnswers == Spec => []AuditMatchesAnswer
<1>1. Init => AnswerInv
  BY DEF Init, AnswerInv, ProgressInv, PastAudit, AuditMatchesAnswer
<1>2. ASSUME TypeOK, AnswerInv, [Next]_vars, TypeOK'
      PROVE  AnswerInv'
  <2> USE <1>2
  \* requests other than the one that steps keep what the invariant speaks of
  <2>0. ASSUME NEW q \in Requests, UNCHANGED kind, at'[q] = at[q]
        PROVE  PastAudit(q)' <=> PastAudit(q)
    BY <2>0 DEF PastAudit
  <2>1. ASSUME NEW r \in Requests, Begin(r) \/ TakeAuditLock(r) \/ ReadLast(r)
        PROVE  AnswerInv'
    <3>1. UNCHANGED <<rows, pending, kind, at, answer>> /\ pc[r] # "ended" /\ pc'[r] # "ended"
      BY <2>1 DEF Begin, TakeAuditLock, ReadLast, AtStep, TypeOK
    <3>2. pc'[r] \in {"read", "append"} => Program[kind[r]][at[r]] = "audit"
      BY <2>1 DEF Begin, TakeAuditLock, ReadLast, AtStep, AnswerInv, ProgressInv, TypeOK
    <3>3. \A q \in Requests : q # r => pc'[q] = pc[q]
      BY <2>1 DEF Begin, TakeAuditLock, ReadLast, TypeOK
    <3>4. ProgressInv'
      BY <3>1, <3>2, <3>3, <2>0 DEF AnswerInv, ProgressInv
    <3> QED
      BY <3>1, <3>4 DEF AnswerInv, AuditMatchesAnswer
  <2>2. ASSUME NEW r \in Requests, AppendRow(r)
        PROVE  AnswerInv'
    <3>1. PICK x : /\ x.req = r
                   /\ pending' = [pending EXCEPT ![r] = @ \cup {x}]
      BY <2>2 DEF AppendRow
    <3>2. /\ UNCHANGED <<rows, kind, answer>>
          /\ at' = [at EXCEPT ![r] = @ + 1] /\ pc' = [pc EXCEPT ![r] = "run"]
          /\ pc[r] = "append"
      BY <2>2 DEF AppendRow
    <3>3. PastAudit(r)'
      BY <3>2 DEF PastAudit, AnswerInv, ProgressInv, TypeOK
    <3>4. ProgressInv'
      BY <3>1, <3>2, <3>3, <2>0 DEF AnswerInv, ProgressInv, TypeOK
    <3> QED
      BY <3>2, <3>4 DEF AnswerInv, AuditMatchesAnswer
  <2>3. ASSUME NEW r \in Requests, TakeUserRow(r)
        PROVE  AnswerInv'
    <3>1. /\ UNCHANGED <<rows, pending, kind, pc, answer>>
          /\ at' = [at EXCEPT ![r] = @ + 1]
          /\ pc[r] = "run" /\ Program[kind[r]][at[r]] = "user"
      BY <2>3 DEF TakeUserRow, AtStep
    <3>2. PastAudit(r)' <=> PastAudit(r)
      BY <3>1 DEF PastAudit, TypeOK
    <3>3. ProgressInv'
      BY <3>1, <3>2, <2>0 DEF AnswerInv, ProgressInv, TypeOK
    <3> QED
      BY <3>1, <3>3 DEF AnswerInv, AuditMatchesAnswer
  <2>4. ASSUME NEW r \in Requests, NEW told \in {"ok", "error", "unknown"}, End(r, told),
               pc[r] # "ended"
        PROVE  ProgressInv'
    <3>1. /\ UNCHANGED <<kind, at>>
          /\ pending' = [pending EXCEPT ![r] = {}] /\ pc' = [pc EXCEPT ![r] = "ended"]
          /\ answer' = [answer EXCEPT ![r] = told]
      BY <2>4 DEF End
    <3> QED
      BY <3>1, <2>0 DEF AnswerInv, ProgressInv, TypeOK
  <2>5. ASSUME NEW r \in Requests, Commit(r)
        PROVE  AnswerInv'
    <3>1. /\ Program[kind[r]][at[r]] = "commit" /\ pc[r] = "run"
          /\ at[r] \in DOMAIN Program[kind[r]] /\ kind[r] \in Kinds
      BY <2>5 DEF Commit, AtStep, TypeOK
    <3>2. pending[r] # {} <=> Audits(kind[r])
      BY <3>1, CommitIsLast DEF AnswerInv, ProgressInv, PastAudit
    <3>3. /\ UNCHANGED kind /\ rows' = rows \cup pending[r]
          /\ answer[r] = "none" /\ answer' = [answer EXCEPT ![r] = "ok"]
          /\ \A p \in pending[r] : p.req = r
      BY <2>5, <3>1 DEF Commit, End, AnswerInv, ProgressInv
    <3>4. AuditMatchesAnswer'
      BY <3>2, <3>3 DEF AnswerInv, AuditMatchesAnswer, TypeOK
    <3> QED
      BY <2>4, <2>5, <3>1, <3>4 DEF Commit, AnswerInv
  <2>6. ASSUME NEW r \in Requests, Rollback(r) \/ DeadlockAbort(r)
        PROVE  AnswerInv'
    <3>1. pc[r] # "ended" /\ End(r, "error")
      BY <2>6 DEF Rollback, DeadlockAbort, Deadlocked, WaitsFor, AtStep
    <3>2. /\ UNCHANGED <<rows, kind>> /\ answer[r] = "none"
          /\ answer' = [answer EXCEPT ![r] = "error"]
      BY <2>6, <3>1 DEF Rollback, DeadlockAbort, End, AnswerInv, ProgressInv
    <3>3. AuditMatchesAnswer'
      \* nothing was answered yet, so nothing was logged
      BY <3>2 DEF AnswerInv, AuditMatchesAnswer, TypeOK
    <3> QED
      BY <2>4, <3>1, <3>3 DEF AnswerInv
  <2>7. ASSUME NEW r \in Requests, ConnectionLost(r)
        PROVE  AnswerInv'
    <3>1. pc[r] # "ended" /\ End(r, "unknown")
      BY <2>7 DEF ConnectionLost
    <3>2. /\ UNCHANGED kind /\ answer[r] = "none"
          /\ answer' = [answer EXCEPT ![r] = "unknown"]
          /\ rows' \in {rows, rows \cup pending[r]}
          /\ \A p \in pending[r] : p.req = r
      BY <2>7, <3>1 DEF ConnectionLost, End, AnswerInv, ProgressInv
    <3>3. AuditMatchesAnswer'
      BY <3>2 DEF AnswerInv, AuditMatchesAnswer, TypeOK
    <3> QED
      BY <2>4, <3>1, <3>3 DEF AnswerInv
  <2>8. CASE StepBack \/ UNCHANGED vars
    <3>1. UNCHANGED <<rows, pending, kind, at, pc, answer>>
      BY <2>8 DEF StepBack, vars
    <3> QED
      BY <3>1, <2>0 DEF AnswerInv, ProgressInv, AuditMatchesAnswer
  <2> QED
    BY <2>1, <2>2, <2>3, <2>5, <2>6, <2>7, <2>8 DEF Next, Step
<1> QED
  BY <1>1, <1>2, TypeCorrect, PTL DEF Spec, AnswerInv

-----------------------------------------------------------------------------
(* The locks: a request holds what the steps behind it have taken.         *)

PastUser(r) == \E i \in 1..(at[r] - 1) : Program[kind[r]][i] = "user"

HoldInv ==
  \A r \in Requests :
    /\ pc[r] \in {"read", "append"} => Program[kind[r]][at[r]] = "audit"
    /\ auditLock = r => PastAudit(r) \/ pc[r] \in {"read", "append"}
    /\ userLock = r => PastUser(r)

\* Of all routes only one takes the user row and then the audit lock, and only
\* one the other way round.
LEMMA OppositeOrders ==
  ASSUME NEW k \in Kinds, NEW n \in DOMAIN Program[k], NEW i \in 1..(n - 1)
  PROVE  /\ Program[k][i] = "user" /\ Program[k][n] = "audit" => k = "reuse"
         /\ Program[k][i] = "audit" /\ Program[k][n] = "user" => k = "revoke"
<1>1. CASE k \in {"allow", "deny", "grantThenError"}
  BY <1>1 DEF Program, AllowSteps, DenySteps, GrantThenErrorSteps
<1>2. CASE k = "reset"
  BY <1>2 DEF Program, ResetSteps
<1>3. CASE k = "reuse"
  BY <1>3 DEF Program, ReuseSteps
<1>4. CASE k = "revoke"
  BY <1>4 DEF Program, RevokeSteps
<1> QED
  BY <1>1, <1>2, <1>3, <1>4 DEF Kinds, Program

\* Only the reuse branch of refresh() and revoke_sessions can wait for each
\* other, for any number of requests (api/auth.py and api/admin.py).
THEOREM DeadlocksAreKnown == Spec => []OnlyReuseAndRevokeDeadlock
<1>1. ASSUME Init PROVE HoldInv
  BY <1>1, FreeAssumption DEF Init, HoldInv
<1>2. ASSUME TypeOK, HoldInv, [Next]_vars
      PROVE  HoldInv'
  <2> USE <1>2
  <2>0. ASSUME NEW q \in Requests, UNCHANGED kind, at'[q] = at[q]
        PROVE  (PastAudit(q)' <=> PastAudit(q)) /\ (PastUser(q)' <=> PastUser(q))
    BY <2>0 DEF PastAudit, PastUser
  <2>1. ASSUME NEW r \in Requests, Begin(r) \/ TakeAuditLock(r) \/ ReadLast(r)
        PROVE  HoldInv'
    <3>1. /\ UNCHANGED <<kind, at, userLock>>
          /\ \A q \in Requests : q # r => pc'[q] = pc[q]
          /\ auditLock' = auditLock \/ (auditLock' = r /\ pc'[r] = "read")
      BY <2>1 DEF Begin, TakeAuditLock, ReadLast, TypeOK
    <3>2. /\ pc'[r] \in {"read", "append"} => Program[kind[r]][at[r]] = "audit"
          /\ pc[r] \in {"read", "append"} => pc'[r] \in {"read", "append"}
      BY <2>1 DEF Begin, TakeAuditLock, ReadLast, AtStep, HoldInv, TypeOK
    <3> QED
      BY <3>1, <3>2, <2>0 DEF HoldInv
  <2>2. ASSUME NEW r \in Requests, AppendRow(r) \/ TakeUserRow(r)
        PROVE  HoldInv'
    <3>1. /\ UNCHANGED <<kind, auditLock>> /\ at' = [at EXCEPT ![r] = @ + 1]
          /\ pc' = [pc EXCEPT ![r] = "run"]
          /\ userLock' = userLock \/ (userLock' = r /\ Program[kind[r]][at[r]] = "user")
          /\ pc[r] \in {"read", "append"} => Program[kind[r]][at[r]] = "audit"
      BY <2>2 DEF AppendRow, TakeUserRow, AtStep, HoldInv, TypeOK
    <3>2. /\ PastAudit(r) \/ Program[kind[r]][at[r]] = "audit" => PastAudit(r)'
          /\ PastUser(r) \/ Program[kind[r]][at[r]] = "user" => PastUser(r)'
      BY <3>1 DEF PastAudit, PastUser, TypeOK
    <3>3. \A q \in Requests : q # r => pc'[q] = pc[q] /\ at'[q] = at[q]
      BY <3>1 DEF TypeOK
    <3>4. pc'[r] = "run"
      BY <3>1 DEF TypeOK
    <3> QED
      BY <3>1, <3>2, <3>3, <3>4, <2>0 DEF HoldInv
  <2>3. ASSUME NEW r \in Requests,
               Commit(r) \/ Rollback(r) \/ ConnectionLost(r) \/ DeadlockAbort(r)
        PROVE  HoldInv'
    <3>1. PICK told \in {"ok", "error", "unknown"} : End(r, told)
      BY <2>3 DEF Commit, Rollback, ConnectionLost, DeadlockAbort
    <3>2. /\ UNCHANGED <<kind, at>> /\ pc' = [pc EXCEPT ![r] = "ended"]
          /\ auditLock' \in {auditLock, Free} /\ auditLock' # r
          /\ userLock' \in {userLock, Free} /\ userLock' # r
      BY <3>1, FreeAssumption DEF End, Release
    <3>3. pc'[r] = "ended" /\ \A q \in Requests : q # r => pc'[q] = pc[q]
      BY <3>2 DEF TypeOK
    <3> QED
      BY <3>2, <3>3, <2>0, FreeAssumption DEF HoldInv
  <2>4. CASE StepBack \/ UNCHANGED vars
    <3>1. UNCHANGED <<kind, at, pc, auditLock, userLock>>
      BY <2>4 DEF StepBack, vars
    <3> QED
      BY <3>1, <2>0 DEF HoldInv
  <2> QED
    BY <2>1, <2>2, <2>3, <2>4 DEF Next, Step
<1>3. ASSUME TypeOK, HoldInv, NEW r \in Requests, NEW s \in Requests, Deadlocked(r, s)
      PROVE  {kind[r], kind[s]} = {"reuse", "revoke"}
  <2>1. ASSUME NEW p \in Requests, NEW q \in Requests, AtStep(p, "audit"), auditLock = q,
               AtStep(q, "user"), userLock = p
        PROVE  kind[p] = "reuse" /\ kind[q] = "revoke"
    <3>1. PastUser(p) /\ PastAudit(q)
      BY <1>3, <2>1 DEF HoldInv, AtStep
    <3> QED
      BY <1>3, <2>1, <3>1, OppositeOrders DEF PastUser, PastAudit, AtStep, TypeOK
  <2>2. \/ AtStep(r, "audit") /\ auditLock = s /\ AtStep(s, "user") /\ userLock = r
        \/ AtStep(s, "audit") /\ auditLock = r /\ AtStep(r, "user") /\ userLock = s
    BY <1>3 DEF Deadlocked, WaitsFor
  <2> QED
    BY <2>1, <2>2
<1>4. TypeOK /\ HoldInv => OnlyReuseAndRevokeDeadlock
  BY <1>3 DEF OnlyReuseAndRevokeDeadlock
<1> QED
  BY <1>1, <1>2, <1>4, TypeCorrect, PTL DEF Spec
(***************************************************************************)
(* SessionTokens: what a revocation ends stays ended, a refresh token has  *)
(* one successor, and a page does not sign its user out.                   *)
(***************************************************************************)

Refreshing(c) == call[c].pc \in InFlight

\* A call that refreshes has a pair and is its page's promise, so a page has
\* one such call at a time; one that was answered has got a pair.
CallerInv ==
  /\ \A c \in Calls : Refreshing(c) => call[c].pair # 0 /\ promise[Page[c]] = c
  /\ \A c \in Calls : call[c].pc = "answered" => call[c].got # 0

\* An increment between its read and its commit has seen the present version
\* if no other has committed meanwhile, and that or the one before it if one has.
ReadInv(b) ==
  /\ bumps[b].missed = 0 => bumps[b].seen = version
  /\ bumps[b].seen <= version /\ version <= bumps[b].seen + 1
  /\ \A n \in 1..bumps[b].known : pairs[n] <= bumps[b].seen

\* Until an increment is overtaken: no version is ahead of the user's, and
\* those that an increment has ended are behind it.
VersionInv ==
  /\ login.seen <= version
  /\ \A n \in 1..Len(pairs) : pairs[n] <= version
  /\ \A c \in Calls : call[c].seen <= version
  /\ \A b \in Bumps : bumps[b].pc = "read" => ReadInv(b)
  /\ \A b \in Bumps : bumps[b].pc # "read" => \A n \in 1..bumps[b].known : pairs[n] < version

\* A token that was exchanged is on the blacklist, and no refresh with it is
\* past the check.
OnceInv ==
  \A n \in 1..MaxPairs :
    \/ n \in raced \/ wiped \/ exchanged[n] = 0
    \/ /\ exchanged[n] = 1 /\ n \in used
       /\ \A c \in Calls : call[c].pc = "clear" => call[c].pair # n

\* Until something excuses it: there was one version, one call refreshes at a
\* time, it does so with the token that is stored, and that one is unused until
\* the call has its successor.
QuietInv ==
  /\ version = 0 /\ login.seen = 0 /\ logouts = {} /\ stored # 0
  /\ \A n \in 1..Len(pairs) : pairs[n] = 0
  /\ \A c \in Calls : call[c].seen = 0 /\ call[c].pc \notin {"refused", "signedout"}
  /\ \A c, d \in Calls : Refreshing(c) /\ Refreshing(d) => c = d
  /\ \A c \in Calls : Refreshing(c) => call[c].pair = stored
  /\ stored \in used => \E c \in Calls : call[c].pc = "answered"
  /\ \A c \in Calls : call[c].pc = "answered" => call[c].got \notin used \cup {stored}

SessionInv ==
  /\ SessionTypeOK /\ CallerInv /\ OnceInv
  /\ Overtaken \/ VersionInv
  /\ excused \/ QuietInv
-----------------------------------------------------------------------------
CallSteps == {"new", "sent", "denied", "sharing", "retry"} \cup InFlight \cup Over
CallsAt(n) == [pc : CallSteps, pair : 0..n, seen : Nat, got : 0..n]
BumpsAt(n) == [pc : {"new", "read", "done"}, seen : Nat, known : 0..n, missed : Nat]

\* The pairs before an issue are what they were, and one is added.
LEMMA IssueFacts ==
  ASSUME SessionTypeOK, NEW v \in Nat, Len(pairs) < MaxPairs, pairs' = Append(pairs, v)
  PROVE  /\ pairs' \in Seq(Nat) /\ Len(pairs') = Len(pairs) + 1 /\ Len(pairs') \in 1..MaxPairs
         /\ \A n \in 1..Len(pairs) : pairs'[n] = pairs[n]
         /\ pairs'[Len(pairs) + 1] = v
<1>1. pairs \in Seq(Nat) /\ Len(pairs) \in 1..MaxPairs /\ MaxPairs \in Nat /\ Len(pairs) \in Nat
  BY SessionAssumptions DEF SessionTypeOK
<1> QED
  BY <1>1

\* More pairs are more that a call or an increment may know.
LEMMA MorePairs ==
  ASSUME NEW m \in Nat, NEW n \in Nat, m <= n
  PROVE  /\ CallsAt(m) \subseteq CallsAt(n)
         /\ BumpsAt(m) \subseteq BumpsAt(n)
         /\ \A S : S \subseteq 1..m => S \subseteq 1..n
         /\ \A p : p \in 0..m => p \in 0..n
<1>1. 0..m \subseteq 0..n /\ 1..m \subseteq 1..n
  OBVIOUS
<1> QED
  BY <1>1 DEF CallsAt, BumpsAt

\* The ends of a promise: the call that made it and those that share it go on.
LEMMA ResolvedFacts ==
  ASSUME SessionTypeOK, NEW c \in Calls, NEW k \in CallSteps, Resolved(c, k)
  PROVE  /\ call' \in [Calls -> CallsAt(Len(pairs))]
         /\ promise' \in [Pages -> Calls \cup {None}]
         /\ promise'[Page[c]] = None
         /\ \A p \in Pages \ {Page[c]} : promise'[p] = promise[p]
         /\ call'[c] = At(k)
         /\ \A d \in Calls : \/ call'[d] = call[d] /\ d # c
                             \/ call'[d] = At(k) /\ (d = c \/ call[d].pc = "sharing")
<1>1. Page[c] \in Pages /\ Len(pairs) \in Nat
  BY DEF Pages, SessionTypeOK
<1>2. call \in [Calls -> CallsAt(Len(pairs))] /\ promise \in [Pages -> Calls \cup {None}]
  BY DEF SessionTypeOK, CallsAt, CallSteps
<1>3. At(k) \in CallsAt(Len(pairs))
  BY <1>1 DEF At, CallsAt
<1>4. call' = [d \in Calls |-> IF d \in Sharing(c) \cup {c} THEN At(k) ELSE call[d]]
  BY DEF Resolved
<1>5. \A d \in Calls : call'[d] = IF d \in Sharing(c) \cup {c} THEN At(k) ELSE call[d]
  BY <1>4
<1>6. call' \in [Calls -> CallsAt(Len(pairs))]
  BY <1>2, <1>3, <1>4
<1>7. \A d \in Calls : \/ call'[d] = call[d] /\ d # c
                       \/ call'[d] = At(k) /\ (d = c \/ call[d].pc = "sharing")
  BY <1>5 DEF Sharing
<1>8. promise' = [promise EXCEPT ![Page[c]] = None]
  BY DEF Resolved
<1>9. call'[c] = At(k)
  BY <1>5
<1> QED
  BY <1>1, <1>2, <1>6, <1>7, <1>8, <1>9

\* What the steps of the server before a call comes to it leave behind.
LEMMA VersionTypes ==
  ASSUME SessionTypeOK,
         (\E b \in Bumps : ReadVersion(b) \/ LateReset(b) \/ CommitVersion(b)) \/ LoginReads
  PROVE  SessionTypeOK'
<1> USE DEF SessionTypeOK, server, browser
<1>0. Len(pairs) \in Nat /\ Len(pairs) \in 0..Len(pairs)
  OBVIOUS
<1>1. ASSUME NEW b \in Bumps, ReadVersion(b)
      PROVE  SessionTypeOK'
  <2>1. UNCHANGED <<version, login, pairs, used, wiped, exchanged, raced, stored, call, promise, logouts, faults, excused>>
    BY <1>1 DEF ReadVersion
  <2>2. bumps' \in [Bumps -> BumpsAt(Len(pairs))]
    BY <1>0, <1>1 DEF ReadVersion, BumpsAt
  <2> QED
    BY <2>1, <2>2 DEF BumpsAt
<1>2. ASSUME NEW b \in Bumps, LateReset(b)
      PROVE  SessionTypeOK'
  <2>1. UNCHANGED <<version, login, pairs, used, wiped, exchanged, raced, stored, call, promise, logouts, faults, excused>>
    BY <1>2 DEF LateReset
  <2>2. bumps' \in [Bumps -> BumpsAt(Len(pairs))]
    BY <1>0, <1>2 DEF LateReset, BumpsAt
  <2> QED
    BY <2>1, <2>2 DEF BumpsAt
<1>3. ASSUME NEW b \in Bumps, CommitVersion(b)
      PROVE  SessionTypeOK'
  <2>1. UNCHANGED <<login, pairs, used, wiped, exchanged, raced, stored, call, promise, logouts, faults>>
    BY <1>3 DEF CommitVersion
  <2>3. \A x \in Bumps : bumps[x] \in BumpsAt(Len(pairs))
    BY DEF BumpsAt
  <2>2. version' \in Nat /\ excused' \in BOOLEAN
    <3>1. bumps[b].seen \in Nat /\ version' = bumps[b].seen + 1 /\ excused' = TRUE
      BY <1>3, <2>3 DEF CommitVersion, Increment, BumpsAt
    <3> QED
      BY <3>1
  <2>4. [bumps[b] EXCEPT !.pc = "done", !.known = IF bumps[b].missed = 0 THEN Len(pairs) ELSE @] \in BumpsAt(Len(pairs))
    BY <1>0, <2>3 DEF BumpsAt
  <2>5. ASSUME NEW r \in BumpsAt(Len(pairs))
        PROVE  [r EXCEPT !.missed = @ + 1] \in BumpsAt(Len(pairs))
    <3>1. r.missed + 1 \in Nat
      BY <2>5 DEF BumpsAt
    <3> QED
      BY <2>5, <3>1 DEF BumpsAt
  <2>6. bumps' = [x \in Bumps |->
          IF x = b THEN [bumps[b] EXCEPT !.pc = "done", !.known = IF bumps[b].missed = 0 THEN Len(pairs) ELSE @]
          ELSE IF bumps[x].pc = "read" THEN [bumps[x] EXCEPT !.missed = @ + 1]
          ELSE bumps[x]]
    BY <1>3 DEF CommitVersion
  <2>7. bumps' \in [Bumps -> BumpsAt(Len(pairs))]
    BY <2>3, <2>4, <2>5, <2>6
  <2> QED
    BY <2>1, <2>2, <2>7 DEF BumpsAt
<1>4. ASSUME LoginReads
      PROVE  SessionTypeOK'
  BY <1>4 DEF LoginReads
<1> QED
  BY <1>1, <1>2, <1>3, <1>4

\* Where a pair is issued: what knew of some pairs may know of one more.
LEMMA IssueTypes ==
  ASSUME SessionTypeOK, CallerInv, LoginIssues \/ \E c \in Calls : Rotate(c)
  PROVE  SessionTypeOK'
<1> USE DEF SessionTypeOK
<1>1. ASSUME LoginIssues
      PROVE  SessionTypeOK'
  <2>1. /\ login.seen \in Nat /\ Len(pairs) < MaxPairs /\ pairs' = Append(pairs, login.seen)
        /\ UNCHANGED <<version, bumps, used, wiped, exchanged, raced, stored, call, promise, logouts, faults, excused>>
        /\ login' = [login EXCEPT !.pc = "done"]
    BY <1>1 DEF LoginIssues, Issue, browser
  <2>2. pairs' \in Seq(Nat) /\ Len(pairs') = Len(pairs) + 1 /\ Len(pairs') \in 1..MaxPairs
    BY <2>1, IssueFacts
  <2>3. Len(pairs) \in Nat /\ Len(pairs') \in Nat /\ Len(pairs) <= Len(pairs')
    BY <2>2
  <2>4. bumps' \in [Bumps -> BumpsAt(Len(pairs'))] /\ call' \in [Calls -> CallsAt(Len(pairs'))]
    BY <2>1, <2>3, MorePairs DEF BumpsAt, CallsAt, CallSteps
  <2>5. used' \subseteq 1..Len(pairs') /\ raced' \subseteq 1..Len(pairs') /\ logouts' \subseteq 1..Len(pairs') /\ stored' \in 0..Len(pairs')
    BY <2>1, <2>3
  <2>6. login' \in [pc : {"new", "read", "done"}, seen : Nat]
    BY <2>1
  <2> QED
    BY <2>1, <2>2, <2>4, <2>5, <2>6 DEF BumpsAt, CallsAt, CallSteps
<1>2. ASSUME NEW c \in Calls, Rotate(c)
      PROVE  SessionTypeOK'
  <2> DEFINE p == call[c].pair
  <2>1. /\ call[c].seen \in Nat /\ Len(pairs) < MaxPairs /\ pairs' = Append(pairs, call[c].seen)
        /\ UNCHANGED <<version, bumps, login, wiped, stored, promise, logouts, faults, excused>>
        /\ used' = used \cup {p} /\ raced' \in {raced, raced \cup {p}}
        /\ exchanged' = [exchanged EXCEPT ![p] = @ + 1]
        /\ call' = [call EXCEPT ![c] = [At("answered") EXCEPT !.pair = p, !.got = Len(pairs')]]
    BY <1>2 DEF Rotate
  <2>2. pairs' \in Seq(Nat) /\ Len(pairs') = Len(pairs) + 1 /\ Len(pairs') \in 1..MaxPairs
    BY <2>1, IssueFacts
  <2>3. Len(pairs) \in Nat /\ Len(pairs') \in Nat /\ Len(pairs) <= Len(pairs')
    BY <2>2
  <2>4. p \in 1..Len(pairs) /\ p \in 0..Len(pairs') /\ Len(pairs') \in 0..Len(pairs')
    <3>1. p \in 0..Len(pairs) /\ p # 0
      BY <1>2 DEF Rotate, CallerInv, Refreshing, InFlight
    <3> QED
      BY <3>1, <2>3
  <2>5. bumps' \in [Bumps -> BumpsAt(Len(pairs'))] /\ call \in [Calls -> CallsAt(Len(pairs'))]
    BY <2>1, <2>3, MorePairs DEF BumpsAt, CallsAt, CallSteps
  <2>6. [At("answered") EXCEPT !.pair = p, !.got = Len(pairs')] \in CallsAt(Len(pairs'))
    BY <2>4 DEF At, CallsAt, CallSteps, InFlight
  <2>7. call' \in [Calls -> CallsAt(Len(pairs'))]
    BY <2>1, <2>5, <2>6
  <2>8. used' \subseteq 1..Len(pairs') /\ raced' \subseteq 1..Len(pairs') /\ logouts' \subseteq 1..Len(pairs') /\ stored' \in 0..Len(pairs')
    BY <2>1, <2>3, <2>4
  <2>9. exchanged' \in [1..MaxPairs -> Nat]
    <3>1. p \in 1..MaxPairs
      BY <2>4, SessionAssumptions
    <3>2. exchanged[p] \in Nat
      BY <3>1
    <3>3. exchanged[p] + 1 \in Nat
      BY <3>2
    <3> QED
      BY <2>1, <3>1, <3>3
  <2> QED
    BY <2>1, <2>2, <2>5, <2>7, <2>8, <2>9 DEF BumpsAt, CallsAt, CallSteps
<1> QED
  BY <1>1, <1>2
\* What a call, its page and Redis do on their own.
LEMMA CallTypes ==
  ASSUME SessionTypeOK, NEW c \in Calls,
         \/ Send(c) \/ Judged(c) \/ Refresh(c) \/ Select(c) \/ Check(c)
         \/ Store(c) \/ Clear(c) \/ Retry(c) \/ RefreshFails(c)
  PROVE  SessionTypeOK'
<1>0. /\ Len(pairs) \in Nat /\ Page[c] \in Pages /\ stored \in 0..Len(pairs) /\ 0 \in 0..Len(pairs)
      /\ call \in [Calls -> CallsAt(Len(pairs))] /\ call[c] \in CallsAt(Len(pairs))
  BY DEF SessionTypeOK, CallsAt, CallSteps, Pages
<1>1. \A k \in CallSteps : At(k) \in CallsAt(Len(pairs))
  BY <1>0 DEF At, CallsAt
<1>2. \A r \in CallsAt(Len(pairs)) : [call EXCEPT ![c] = r] \in [Calls -> CallsAt(Len(pairs))]
  BY <1>0
<1>3. ASSUME Send(c) \/ Judged(c) \/ Select(c) \/ Check(c) \/ Retry(c)
      PROVE  call' \in [Calls -> CallsAt(Len(pairs))]
  <2>1. {"sent", "selected", "done", "denied", "error", "clear", "refused"} \subseteq CallSteps
    BY DEF CallSteps, InFlight, Over
  <2>2. /\ [call[c] EXCEPT !.pc = "sent", !.pair = stored] \in CallsAt(Len(pairs))
        /\ [call[c] EXCEPT !.pc = "selected", !.seen = version] \in CallsAt(Len(pairs))
    BY <1>0, <2>1 DEF CallsAt, SessionTypeOK
  <2>3. \A k \in CallSteps : [call[c] EXCEPT !.pc = k] \in CallsAt(Len(pairs))
    BY <1>0 DEF CallsAt
  <2>4. ASSUME NEW r, \E x \in CallsAt(Len(pairs)) : call' = [call EXCEPT ![c] = x]
        PROVE  call' \in [Calls -> CallsAt(Len(pairs))]
    BY <2>4, <1>2
  <2>5. CASE Send(c)
    <3>1. call' = [call EXCEPT ![c] = [call[c] EXCEPT !.pc = "sent", !.pair = stored]]
      BY <2>5 DEF Send
    <3> QED
      BY <3>1, <2>2, <1>2
  <2>6. CASE Select(c)
    <3>1. call' = [call EXCEPT ![c] = [call[c] EXCEPT !.pc = "selected", !.seen = version]]
      BY <2>6 DEF Select
    <3> QED
      BY <3>1, <2>2, <1>2
  <2>7. CASE Judged(c) \/ Retry(c)
    <3>1. \E k \in {"done", "denied", "error"} : call' = [call EXCEPT ![c] = At(k)]
      BY <2>7 DEF Judged, Retry
    <3> QED
      BY <3>1, <2>1, <1>1, <1>2
  <2>8. CASE Check(c)
    <3>1. \E k \in {"clear", "refused"} : call' = [call EXCEPT ![c] = [call[c] EXCEPT !.pc = k]]
      BY <2>8 DEF Check
    <3> QED
      BY <3>1, <2>1, <2>3, <1>2
  <2> QED
    BY <1>3, <2>5, <2>6, <2>7, <2>8
<1>4. CASE Send(c) \/ Judged(c) \/ Select(c) \/ Check(c) \/ Retry(c)
  <2>1. UNCHANGED <<stored, promise, logouts, faults, excused, version, bumps, login, pairs, used, wiped, exchanged, raced>>
    BY <1>4 DEF Send, Judged, Select, Check, Retry, server
  <2> QED
    BY <1>3, <1>4, <2>1 DEF SessionTypeOK, CallsAt, CallSteps
<1>5. CASE Refresh(c)
  <2>1. UNCHANGED <<stored, logouts, faults, version, bumps, login, pairs, used, wiped, exchanged, raced>>
    BY <1>5 DEF Refresh, server
  <2>2. promise' \in [Pages -> Calls \cup {None}]
    BY <1>0, <1>5 DEF Refresh, SessionTypeOK
  <2>3. excused' \in BOOLEAN
    BY <1>5 DEF Refresh, SessionTypeOK, TwoPages
  <2>4. "sharing" \in CallSteps /\ "signedout" \in CallSteps /\ "refresh" \in CallSteps
    BY DEF CallSteps, InFlight, Over
  <2>5. [call[c] EXCEPT !.pc = "refresh", !.pair = stored] \in CallsAt(Len(pairs))
    BY <1>0, <2>4 DEF CallsAt
  <2>6. \/ \E k \in {"sharing", "signedout"} : call' = [call EXCEPT ![c] = At(k)]
        \/ call' = [call EXCEPT ![c] = [call[c] EXCEPT !.pc = "refresh", !.pair = stored]]
    BY <1>5 DEF Refresh
  <2>7. call' \in [Calls -> CallsAt(Len(pairs))]
    BY <1>1, <1>2, <2>4, <2>5, <2>6
  <2> QED
    BY <2>1, <2>2, <2>3, <2>7 DEF SessionTypeOK, CallsAt, CallSteps
<1>6. CASE Store(c) \/ Clear(c) \/ RefreshFails(c)
  <2>1. PICK k \in {"retry", "signedout", "error"} : Resolved(c, k)
    BY <1>6 DEF Store, Clear, RefreshFails
  <2>2. k \in CallSteps
    BY DEF CallSteps, Over
  <2>3. call' \in [Calls -> CallsAt(Len(pairs))] /\ promise' \in [Pages -> Calls \cup {None}]
    BY <2>1, <2>2, ResolvedFacts
  <2>4. UNCHANGED <<logouts, version, bumps, login, pairs, used, wiped, exchanged, raced>>
    BY <1>6 DEF Store, Clear, RefreshFails, server
  <2>5. stored' \in 0..Len(pairs)
    BY <1>0, <1>6 DEF Store, Clear, RefreshFails, CallsAt
  <2>6. faults' \in 0..MaxFaults /\ excused' \in BOOLEAN
    <3>1. \/ faults' = faults /\ excused' = excused
          \/ faults < MaxFaults /\ faults' = faults + 1 /\ excused' = TRUE
      BY <1>6 DEF Store, Clear, RefreshFails
    <3>2. faults \in 0..MaxFaults /\ excused \in BOOLEAN
      BY DEF SessionTypeOK
    <3>3. excused' \in BOOLEAN
      BY <3>1, <3>2
    <3>4. \/ faults' = faults
          \/ faults < MaxFaults /\ faults' = faults + 1
      BY <3>1
    <3>5. faults' \in 0..MaxFaults
      BY <3>2, <3>4, SessionAssumptions
    <3> QED
      BY <3>3, <3>5
  <2> QED
    BY <2>3, <2>4, <2>5, <2>6 DEF SessionTypeOK, CallsAt, CallSteps
<1> QED
  BY <1>4, <1>5, <1>6

\* Logouts and a restart of Redis.
LEMMA OtherTypes ==
  ASSUME SessionTypeOK, RedisRestarts \/ Logout \/ \E n \in logouts : LogoutServed(n)
  PROVE  SessionTypeOK'
<1>1. CASE RedisRestarts
  BY <1>1, SessionAssumptions DEF RedisRestarts, SessionTypeOK
<1>2. CASE Logout
  <2>1. UNCHANGED <<call, promise, faults, version, bumps, login, pairs, used, wiped, exchanged, raced>>
    BY <1>2 DEF Logout, server
  <2>2. stored' \in 0..Len(pairs) /\ logouts' \subseteq 1..Len(pairs) /\ excused' \in BOOLEAN
    BY <1>2 DEF Logout, SessionTypeOK
  <2> QED
    BY <2>1, <2>2 DEF SessionTypeOK
<1>3. CASE \E n \in logouts : LogoutServed(n)
  BY <1>3 DEF LogoutServed, SessionTypeOK
<1> QED
  BY <1>1, <1>2, <1>3

\* A step of the specification is one of four kinds.
LEMMA SessionSteps ==
  ASSUME SessionTypeOK, CallerInv, SessionNext \/ UNCHANGED sessionVars
  PROVE  SessionTypeOK'
<1>1. CASE UNCHANGED sessionVars
  BY <1>1 DEF sessionVars, SessionTypeOK
<1>2. CASE SessionNext
  BY <1>2, VersionTypes, IssueTypes, CallTypes, OtherTypes DEF SessionNext, CallStep
<1> QED
  BY <1>1, <1>2
-----------------------------------------------------------------------------
Untouched == UNCHANGED <<stored, call, promise, logouts>>

\* What a step does to the calls. Either none of them moves; or one does, and
\* keeps what it has, on the page's promise as before; or it starts a refresh;
\* or those that wait for one refresh go on together.
LEMMA CallMoves ==
  ASSUME SessionTypeOK, CallerInv, NEW c \in Calls, CallStep(c)
  PROVE  \/ /\ promise' = promise /\ call[c].pc \notin InFlight /\ call'[c].pc \notin InFlight
            /\ \A d \in Calls \ {c} : call'[d] = call[d]
         \/ /\ promise' = promise /\ call[c].pc \in InFlight /\ call'[c].pc \in InFlight
            /\ call'[c].pair = call[c].pair
            /\ call'[c].pc = "answered" => call'[c].got = Len(pairs') /\ Len(pairs') # 0
            /\ \A d \in Calls \ {c} : call'[d] = call[d]
         \/ /\ promise[Page[c]] = None /\ promise' = [promise EXCEPT ![Page[c]] = c]
            /\ call[c].pc = "denied" /\ call'[c].pc = "refresh" /\ call'[c].pair = stored /\ stored # 0
            /\ \A d \in Calls \ {c} : call'[d] = call[d]
         \/ /\ call[c].pc \in InFlight
            /\ \E k \in {"retry", "error", "signedout"} : Resolved(c, k)
<1>0. /\ Len(pairs) \in Nat /\ call[c] \in CallsAt(Len(pairs))
      /\ call \in [Calls -> CallsAt(Len(pairs))]
  BY DEF SessionTypeOK, CallsAt, CallSteps
<1> USE DEF InFlight, At
<1>1. ASSUME Send(c) \/ Judged(c) \/ Retry(c)
      PROVE  /\ promise' = promise /\ call[c].pc \notin InFlight /\ call'[c].pc \notin InFlight
             /\ \A d \in Calls \ {c} : call'[d] = call[d]
  BY <1>0, <1>1 DEF Send, Judged, Retry, CallsAt
<1>2. ASSUME Select(c) \/ Check(c)
      PROVE  /\ promise' = promise /\ call[c].pc \in InFlight /\ call'[c].pc \in InFlight
             /\ call'[c].pair = call[c].pair /\ call'[c].pc # "answered"
             /\ \A d \in Calls \ {c} : call'[d] = call[d]
  BY <1>0, <1>2 DEF Select, Check, CallsAt
<1>3. ASSUME Rotate(c)
      PROVE  /\ promise' = promise /\ call[c].pc \in InFlight /\ call'[c].pc \in InFlight
             /\ call'[c].pair = call[c].pair
             /\ call'[c].got = Len(pairs') /\ Len(pairs') # 0
             /\ \A d \in Calls \ {c} : call'[d] = call[d]
  <2>1. call[c].seen \in Nat /\ Len(pairs) < MaxPairs /\ pairs' = Append(pairs, call[c].seen)
    BY <1>0, <1>3 DEF Rotate, CallsAt
  <2>2. Len(pairs') # 0
    BY <2>1, <1>0, IssueFacts
  <2> QED
    BY <1>0, <1>3, <2>2 DEF Rotate, CallsAt
<1>4. ASSUME Refresh(c)
      PROVE  \/ /\ promise' = promise /\ call[c].pc \notin InFlight /\ call'[c].pc \notin InFlight
                /\ \A d \in Calls \ {c} : call'[d] = call[d]
             \/ /\ promise[Page[c]] = None /\ promise' = [promise EXCEPT ![Page[c]] = c]
                /\ call[c].pc = "denied" /\ call'[c].pc = "refresh" /\ call'[c].pair = stored /\ stored # 0
                /\ \A d \in Calls \ {c} : call'[d] = call[d]
  BY <1>0, <1>4 DEF Refresh, CallsAt
<1>5. ASSUME Store(c) \/ Clear(c) \/ RefreshFails(c)
      PROVE  call[c].pc \in InFlight /\ \E k \in {"retry", "error", "signedout"} : Resolved(c, k)
  BY <1>5 DEF Store, Clear, RefreshFails
<1> QED
  BY <1>1, <1>2, <1>3, <1>4, <1>5 DEF CallStep

\* A page has one call that refreshes at a time.
LEMMA CallersKept ==
  ASSUME SessionTypeOK, CallerInv, SessionNext \/ UNCHANGED sessionVars
  PROVE  CallerInv'
<1>1. ASSUME UNCHANGED <<call, promise>>
      PROVE  CallerInv'
  BY <1>1 DEF CallerInv, Refreshing
<1>2. ASSUME NEW c \in Calls, CallStep(c)
      PROVE  CallerInv'
  <2>0. /\ \A d \in Calls : Page[d] \in Pages /\ d # None
        /\ promise \in [Pages -> Calls \cup {None}]
    BY SessionAssumptions DEF Pages, SessionTypeOK
  <2>1. \A d \in Calls : call[d].pc \in InFlight => call[d].pair # 0 /\ promise[Page[d]] = d
    BY DEF CallerInv, Refreshing
  <2>2. \A d \in Calls : call[d].pc = "answered" => call[d].got # 0
    BY DEF CallerInv
  <2>3. CASE /\ promise' = promise /\ call'[c].pc \notin InFlight
             /\ \A d \in Calls \ {c} : call'[d] = call[d]
    BY <2>1, <2>2, <2>3 DEF CallerInv, Refreshing, InFlight
  <2>4. CASE /\ promise' = promise /\ call[c].pc \in InFlight /\ call'[c].pc \in InFlight
             /\ call'[c].pair = call[c].pair
             /\ call'[c].pc = "answered" => call'[c].got = Len(pairs') /\ Len(pairs') # 0
             /\ \A d \in Calls \ {c} : call'[d] = call[d]
    BY <2>1, <2>2, <2>4 DEF CallerInv, Refreshing
  <2>5. CASE /\ promise[Page[c]] = None /\ promise' = [promise EXCEPT ![Page[c]] = c]
             /\ call'[c].pc = "refresh" /\ call'[c].pair = stored /\ stored # 0
             /\ \A d \in Calls \ {c} : call'[d] = call[d]
    <3>1. promise'[Page[c]] = c /\ \A p \in Pages \ {Page[c]} : promise'[p] = promise[p]
      BY <2>0, <2>5
    <3>2. \A d \in Calls \ {c} : call[d].pc \in InFlight => Page[d] # Page[c]
      BY <2>0, <2>1, <2>5
    <3> QED
      BY <2>0, <2>1, <2>2, <2>5, <3>1, <3>2 DEF CallerInv, Refreshing
  <2>6. CASE call[c].pc \in InFlight /\ \E k \in {"retry", "error", "signedout"} : Resolved(c, k)
    <3>1. PICK k \in {"retry", "error", "signedout"} : Resolved(c, k)
      BY <2>6
    <3>2. k \in CallSteps
      BY DEF CallSteps, Over
    <3>3. /\ \A p \in Pages \ {Page[c]} : promise'[p] = promise[p]
          /\ \A d \in Calls : \/ call'[d] = call[d] /\ d # c
                              \/ call'[d] = At(k)
      BY <3>1, <3>2, ResolvedFacts
    <3>4. At(k).pc = k /\ k \notin InFlight /\ k # "answered"
      BY DEF At, InFlight
    <3>5. \A d \in Calls \ {c} : call[d].pc \in InFlight => Page[d] # Page[c]
      BY <2>1, <2>6
    <3> QED
      BY <2>0, <2>1, <2>2, <3>3, <3>4, <3>5 DEF CallerInv, Refreshing
  <2> QED
    BY <1>2, <2>3, <2>4, <2>5, <2>6, CallMoves
<1>3. CASE UNCHANGED sessionVars
  BY <1>1, <1>3 DEF sessionVars
<1>4. CASE \/ \E b \in Bumps : ReadVersion(b) \/ LateReset(b) \/ CommitVersion(b)
           \/ LoginReads \/ LoginIssues \/ RedisRestarts
           \/ Logout \/ \E n \in logouts : LogoutServed(n)
  <2>1. UNCHANGED <<call, promise>>
    BY <1>4 DEF ReadVersion, LateReset, CommitVersion, LoginReads, LoginIssues, RedisRestarts,
                Logout, LogoutServed, browser
  <2> QED
    BY <2>1, <1>1
<1> QED
  BY <1>2, <1>3, <1>4 DEF SessionNext
-----------------------------------------------------------------------------
\* A token past the check was unused when it was checked, and whoever else is
\* past it when it is exchanged races.
LEMMA OnceKept ==
  ASSUME SessionTypeOK, CallerInv, OnceInv, SessionNext \/ UNCHANGED sessionVars
  PROVE  OnceInv'
<1> DEFINE Past(n) == \E d \in Calls : call[d].pc = "clear" /\ call[d].pair = n
           Fresh(n) == n \in raced \/ wiped \/ exchanged[n] = 0
           Spent(n) == exchanged[n] = 1 /\ n \in used /\ ~Past(n)
<1>0. ASSUME \A n \in 1..MaxPairs : Fresh(n) \/ Spent(n)
      PROVE  OnceInv
  BY <1>0 DEF OnceInv
<1>1. \A n \in 1..MaxPairs : Fresh(n) \/ Spent(n)
  BY DEF OnceInv
<1>2. SUFFICES ASSUME NEW n \in 1..MaxPairs
               PROVE  Fresh(n)' \/ Spent(n)'
  BY DEF OnceInv
<1>3. ASSUME UNCHANGED <<raced, wiped, exchanged>>, used \subseteq used', Past(n)' => Past(n)
      PROVE  Fresh(n)' \/ Spent(n)'
  BY <1>1, <1>3
<1>4. ASSUME UNCHANGED call
      PROVE  Past(n)' => Past(n)
  BY <1>4
<1>5. ASSUME NEW c \in Calls, Rotate(c)
      PROVE  Fresh(n)' \/ Spent(n)'
  <2> DEFINE p == call[c].pair
  <2>1. /\ wiped' = wiped /\ used' = used \cup {p}
        /\ exchanged' = [exchanged EXCEPT ![p] = @ + 1]
        /\ raced' = IF \E d \in Calls \ {c} : call[d].pc = "clear" /\ call[d].pair = p
                    THEN raced \cup {p} ELSE raced
        /\ call[c].pc = "clear"
        /\ call' = [call EXCEPT ![c] = [At("answered") EXCEPT !.pair = p, !.got = Len(pairs')]]
    BY <1>5 DEF Rotate
  <2>2. /\ call'[c].pc = "answered" /\ \A d \in Calls \ {c} : call'[d] = call[d]
        /\ exchanged \in [1..MaxPairs -> Nat]
    BY <2>1 DEF SessionTypeOK, At
  <2>3. CASE n # p
    <3>1. exchanged'[n] = exchanged[n] /\ Past(n)' = Past(n) /\ (n \in used' <=> n \in used)
      BY <2>1, <2>2, <2>3
    <3>2. n \in raced' <=> n \in raced
      BY <2>1, <2>3
    <3> QED
      BY <1>1, <2>1, <3>1, <3>2
  <2>4. CASE n = p
    <3>1. Past(n)
      BY <2>1, <2>4
    <3>2. Fresh(n)
      BY <1>1, <3>1
    <3>3. CASE n \in raced \/ wiped
      BY <2>1, <3>3
    <3>4. CASE exchanged[n] = 0
      <4>1. exchanged'[n] = 1 /\ n \in used'
        BY <2>1, <2>2, <2>4, <3>4
      <4>2. CASE \E d \in Calls \ {c} : call[d].pc = "clear" /\ call[d].pair = p
        BY <2>1, <2>4, <4>2
      <4>3. CASE ~\E d \in Calls \ {c} : call[d].pc = "clear" /\ call[d].pair = p
        <5>1. ~Past(n)'
          BY <2>2, <2>4, <4>3
        <5> QED
          BY <4>1, <5>1
      <4> QED
        BY <4>2, <4>3
    <3> QED
      BY <3>2, <3>3, <3>4
  <2> QED
    BY <2>3, <2>4
<1>6. ASSUME NEW c \in Calls, Check(c)
      PROVE  Fresh(n)' \/ Spent(n)'
  <2>1. /\ UNCHANGED <<raced, wiped, exchanged, used>>
        /\ \A d \in Calls \ {c} : call'[d] = call[d]
        /\ call'[c].pc = "clear" => call[c].pair \notin used
        /\ call'[c].pair = call[c].pair
    BY <1>6 DEF Check, server, SessionTypeOK
  <2> QED
    BY <1>1, <2>1
<1>7. ASSUME NEW c \in Calls, CallStep(c), ~Rotate(c), ~Check(c)
      PROVE  Fresh(n)' \/ Spent(n)'
  <2>1. UNCHANGED <<raced, wiped, exchanged, used>>
    BY <1>7 DEF CallStep, Send, Judged, Refresh, Select, Store, Clear, Retry, RefreshFails, server
  <2>2. Past(n)' => Past(n)
    <3>1. CASE Send(c) \/ Judged(c) \/ Retry(c) \/ Refresh(c) \/ Select(c)
      <4>1. call'[c].pc # "clear" /\ \A d \in Calls \ {c} : call'[d] = call[d]
        BY <3>1 DEF Send, Judged, Retry, Refresh, Select, At, SessionTypeOK
      <4> QED
        BY <4>1
    <3>2. CASE Store(c) \/ Clear(c) \/ RefreshFails(c)
      <4>1. PICK k \in {"retry", "error", "signedout"} : Resolved(c, k)
        BY <3>2 DEF Store, Clear, RefreshFails
      <4>2. k \in CallSteps /\ At(k).pc # "clear"
        BY DEF CallSteps, Over, At
      <4>3. \A d \in Calls : call'[d] = call[d] \/ call'[d] = At(k)
        BY <4>1, <4>2, ResolvedFacts
      <4> QED
        BY <4>2, <4>3
    <3> QED
      BY <1>7, <3>1, <3>2 DEF CallStep
  <2> QED
    BY <1>3, <2>1, <2>2
<1>8. CASE RedisRestarts
  <2>1. wiped'
    BY <1>8 DEF RedisRestarts
  <2> QED
    BY <2>1
<1>9. CASE \/ UNCHANGED sessionVars
           \/ \E b \in Bumps : ReadVersion(b) \/ LateReset(b) \/ CommitVersion(b)
           \/ LoginReads \/ LoginIssues
           \/ Logout \/ \E m \in logouts : LogoutServed(m)
  <2>1. UNCHANGED <<raced, wiped, exchanged, call>> /\ used \subseteq used'
    BY <1>9 DEF sessionVars, ReadVersion, LateReset, CommitVersion, LoginReads, LoginIssues,
                Logout, LogoutServed, browser, server
  <2> QED
    BY <1>3, <1>4, <2>1
<1> QED
  BY <1>5, <1>6, <1>7, <1>8, <1>9 DEF SessionNext, CallStep
-----------------------------------------------------------------------------
\* An increment that was overtaken stays so.
LEMMA OvertakenStays ==
  ASSUME SessionTypeOK, Overtaken, SessionNext \/ UNCHANGED sessionVars
  PROVE  Overtaken'
<1>1. \A b \in Bumps : bumps[b].missed \in Nat
  BY DEF SessionTypeOK
<1>2. \A b \in Bumps : bumps'[b].missed \in Nat /\ bumps'[b].missed >= bumps[b].missed
  <2>1. ASSUME UNCHANGED bumps
        PROVE  \A b \in Bumps : bumps'[b].missed \in Nat /\ bumps'[b].missed >= bumps[b].missed
    BY <1>1, <2>1
  <2>2. ASSUME NEW b \in Bumps, ReadVersion(b) \/ LateReset(b)
        PROVE  \A d \in Bumps : bumps'[d].missed = bumps[d].missed
    <3>1. bumps'[b].missed = bumps[b].missed /\ \A d \in Bumps \ {b} : bumps'[d] = bumps[d]
      <4>1. CASE ReadVersion(b)
        BY <4>1 DEF ReadVersion, SessionTypeOK
      <4>2. CASE LateReset(b)
        BY <4>2 DEF LateReset, SessionTypeOK
      <4> QED
        BY <2>2, <4>1, <4>2
    <3> QED
      BY <3>1
  <2>3. ASSUME NEW b \in Bumps, CommitVersion(b)
        PROVE  \A d \in Bumps : bumps'[d].missed \in {bumps[d].missed, bumps[d].missed + 1}
    BY <2>3 DEF CommitVersion, SessionTypeOK
  <2>4. CASE UNCHANGED sessionVars \/ LoginReads \/ LoginIssues \/ RedisRestarts \/ Logout
             \/ (\E n \in logouts : LogoutServed(n)) \/ \E c \in Calls : CallStep(c)
    <3>1. UNCHANGED bumps
      BY <2>4 DEF sessionVars, LoginReads, LoginIssues, RedisRestarts, Logout, LogoutServed, CallStep,
                  Send, Judged, Refresh, Select, Check, Rotate, Store, Clear, Retry, RefreshFails, server
    <3> QED
      BY <2>1, <3>1
  <2> QED
    BY <1>1, <2>2, <2>3, <2>4 DEF SessionNext
<1> QED
  BY <1>1, <1>2 DEF Overtaken

\* The step that writes the version writes the next one, or the present one
\* again, as long as nothing was overtaken.
LEMMA CommitKept ==
  ASSUME SessionTypeOK, VersionInv, ~Overtaken', NEW b \in Bumps, CommitVersion(b)
  PROVE  VersionInv'
<1>0. /\ version \in Nat /\ login.seen \in Nat /\ Len(pairs) \in Nat
      /\ \A n \in 1..Len(pairs) : pairs[n] \in Nat
      /\ \A c \in Calls : call[c].seen \in Nat
      /\ \A x \in Bumps : /\ bumps[x].seen \in Nat /\ bumps[x].missed \in Nat
                          /\ bumps[x].known \in 0..Len(pairs)
  BY DEF SessionTypeOK
<1>1. /\ UNCHANGED <<login, pairs, call>>
      /\ version' = bumps[b].seen + 1 /\ bumps[b].pc = "read"
      /\ bumps'[b].pc = "done"
      /\ bumps'[b].known = IF bumps[b].missed = 0 THEN Len(pairs) ELSE bumps[b].known
      /\ \A x \in Bumps \ {b} : IF bumps[x].pc = "read"
                                THEN bumps'[x] = [bumps[x] EXCEPT !.missed = @ + 1]
                                ELSE bumps'[x] = bumps[x]
  BY DEF CommitVersion, Increment, SessionTypeOK
<1>2. ReadInv(b) /\ bumps[b].seen <= version /\ version <= bumps[b].seen + 1
  BY <1>1 DEF VersionInv, ReadInv
<1>3. version' \in Nat /\ version <= version' /\ version' <= version + 1
  BY <1>0, <1>1, <1>2
<1>4. /\ login'.seen <= version'
      /\ \A n \in 1..Len(pairs') : pairs'[n] <= version'
      /\ \A c \in Calls : call'[c].seen <= version'
  BY <1>0, <1>1, <1>3 DEF VersionInv
<1>5. ASSUME NEW x \in Bumps, bumps'[x].pc = "read"
      PROVE  ReadInv(x)'
  <2>1. x # b
    BY <1>1, <1>5
  <2>2. bumps[x].pc = "read" /\ bumps'[x] = [bumps[x] EXCEPT !.missed = @ + 1]
    BY <1>1, <1>5, <2>1
  <2>3. /\ bumps'[x].missed = bumps[x].missed + 1 /\ bumps'[x].seen = bumps[x].seen
        /\ bumps'[x].known = bumps[x].known
    BY <2>2 DEF SessionTypeOK
  <2>4. bumps[x].missed = 0
    BY <1>0, <2>3 DEF Overtaken
  <2>5. bumps[x].seen = version /\ \A n \in 1..bumps[x].known : pairs[n] <= bumps[x].seen
    BY <2>2, <2>4 DEF VersionInv, ReadInv
  <2> QED
    BY <1>0, <1>1, <1>3, <2>3, <2>4, <2>5 DEF ReadInv
<1>6. ASSUME NEW x \in Bumps, bumps'[x].pc # "read"
      PROVE  \A n \in 1..bumps'[x].known : pairs'[n] < version'
  <2>1. CASE x # b
    <3>1. bumps[x].pc # "read"
      BY <1>1, <1>6, <2>1 DEF SessionTypeOK
    <3>2. bumps'[x] = bumps[x]
      BY <1>1, <2>1, <3>1
    <3>3. \A n \in 1..bumps[x].known : pairs[n] < version
      BY <3>1 DEF VersionInv
    <3>4. \A n \in 1..bumps[x].known : n \in 1..Len(pairs)
      BY <1>0
    <3> QED
      BY <1>0, <1>1, <1>3, <3>2, <3>3, <3>4
  <2>2. CASE x = b
    <3>1. CASE bumps[b].missed = 0
      <4>1. bumps[b].seen = version /\ bumps'[b].known = Len(pairs)
        BY <1>1, <1>2, <3>1 DEF ReadInv
      <4>2. \A n \in 1..Len(pairs) : pairs[n] <= version
        BY DEF VersionInv
      <4> QED
        BY <1>0, <1>1, <2>2, <4>1, <4>2
    <3>2. CASE bumps[b].missed # 0
      <4>1. bumps'[b].known = bumps[b].known /\ \A n \in 1..bumps[b].known : pairs[n] <= bumps[b].seen
        BY <1>1, <1>2, <3>2 DEF ReadInv
      <4>2. \A n \in 1..bumps[b].known : n \in 1..Len(pairs)
        BY <1>0
      <4> QED
        BY <1>0, <1>1, <2>2, <4>1, <4>2
    <3> QED
      BY <3>1, <3>2
  <2> QED
    BY <2>1, <2>2
<1> QED
  BY <1>4, <1>5, <1>6 DEF VersionInv

\* Where the version stays, what is issued or read is no newer than it.
LEMMA VersionKept ==
  ASSUME SessionTypeOK, CallerInv, VersionInv, ~Overtaken', SessionNext \/ UNCHANGED sessionVars
  PROVE  VersionInv'
<1>0. /\ version \in Nat /\ login.seen \in Nat /\ Len(pairs) \in Nat
      /\ \A n \in 1..Len(pairs) : pairs[n] \in Nat
      /\ \A c \in Calls : call[c].seen \in Nat
      /\ \A x \in Bumps : bumps[x].seen \in Nat /\ bumps[x].known \in 0..Len(pairs)
  BY DEF SessionTypeOK
<1>1. ASSUME UNCHANGED <<version, bumps>>, login'.seen \in {login.seen, version},
             Len(pairs') \in Nat, Len(pairs) <= Len(pairs'),
             \A n \in 1..Len(pairs) : pairs'[n] = pairs[n],
             \A n \in 1..Len(pairs') : n > Len(pairs) => pairs'[n] <= version,
             \A c \in Calls : call'[c].seen \in {call[c].seen, version, 0}
      PROVE  VersionInv'
  <2>1. /\ login'.seen <= version'
        /\ \A n \in 1..Len(pairs') : pairs'[n] <= version'
        /\ \A c \in Calls : call'[c].seen <= version'
    <3>1. \A n \in 1..Len(pairs') : n \in 1..Len(pairs) \/ n > Len(pairs)
      BY <1>0, <1>1
    <3> QED
      BY <1>0, <1>1, <3>1 DEF VersionInv
  <2>2. \A x \in Bumps : \A n \in 1..bumps[x].known : n \in 1..Len(pairs)
    BY <1>0
  <2>3. ASSUME NEW x \in Bumps, bumps'[x].pc = "read"
        PROVE  ReadInv(x)'
    BY <1>0, <1>1, <2>2, <2>3 DEF VersionInv, ReadInv
  <2>4. ASSUME NEW x \in Bumps, bumps'[x].pc # "read"
        PROVE  \A n \in 1..bumps'[x].known : pairs'[n] < version'
    BY <1>0, <1>1, <2>2, <2>4 DEF VersionInv
  <2> QED
    BY <2>1, <2>3, <2>4 DEF VersionInv
<1>2. ASSUME UNCHANGED pairs
      PROVE  /\ Len(pairs') \in Nat /\ Len(pairs) <= Len(pairs')
             /\ \A n \in 1..Len(pairs) : pairs'[n] = pairs[n]
             /\ \A n \in 1..Len(pairs') : n > Len(pairs) => pairs'[n] <= version
  BY <1>0, <1>2
<1>3. ASSUME NEW v \in Nat, v <= version, Len(pairs) < MaxPairs, pairs' = Append(pairs, v)
      PROVE  /\ Len(pairs') \in Nat /\ Len(pairs) <= Len(pairs')
             /\ \A n \in 1..Len(pairs) : pairs'[n] = pairs[n]
             /\ \A n \in 1..Len(pairs') : n > Len(pairs) => pairs'[n] <= version
  <2>1. /\ Len(pairs') = Len(pairs) + 1
        /\ \A n \in 1..Len(pairs) : pairs'[n] = pairs[n]
        /\ pairs'[Len(pairs) + 1] = v
    BY <1>3, IssueFacts
  <2>2. \A n \in 1..Len(pairs') : n > Len(pairs) => n = Len(pairs) + 1
    BY <1>0, <2>1
  <2> QED
    BY <1>0, <1>3, <2>1, <2>2
<1>4. ASSUME NEW b \in Bumps, ReadVersion(b)
      PROVE  VersionInv'
  <2>1. /\ UNCHANGED <<version, login, pairs, call>>
        /\ bumps'[b].pc = "read" /\ bumps'[b].seen = version
        /\ bumps'[b].known = Len(pairs)
        /\ \A x \in Bumps \ {b} : bumps'[x] = bumps[x]
    BY <1>4 DEF ReadVersion, SessionTypeOK, browser
  <2>2. ReadInv(b)'
    BY <1>0, <2>1 DEF ReadInv, VersionInv
  <2>3. ASSUME NEW x \in Bumps \ {b}, bumps'[x].pc = "read"
        PROVE  ReadInv(x)'
    BY <2>1, <2>3 DEF ReadInv, VersionInv
  <2> QED
    BY <2>1, <2>2, <2>3 DEF VersionInv
<1>5. ASSUME NEW b \in Bumps, LateReset(b)
      PROVE  VersionInv'
  <2>1. /\ UNCHANGED <<version, login, pairs, call>>
        /\ bumps[b].pc = "new" /\ bumps'[b].pc = "done" /\ bumps'[b].known = bumps[b].known
        /\ \A x \in Bumps \ {b} : bumps'[x] = bumps[x]
    BY <1>5 DEF LateReset, SessionTypeOK, browser
  <2>2. ASSUME NEW x \in Bumps, bumps'[x].pc = "read"
        PROVE  ReadInv(x)'
    BY <2>1, <2>2 DEF ReadInv, VersionInv
  <2> QED
    BY <2>1, <2>2 DEF VersionInv
<1>6. ASSUME NEW b \in Bumps, CommitVersion(b)
      PROVE  VersionInv'
  BY <1>6, CommitKept
<1>7. CASE LoginReads \/ RedisRestarts \/ Logout \/ (\E n \in logouts : LogoutServed(n)) \/ UNCHANGED sessionVars
  <2>1. UNCHANGED <<version, bumps, pairs, call>> /\ login'.seen \in {login.seen, version}
    BY <1>7 DEF LoginReads, RedisRestarts, Logout, LogoutServed, sessionVars, server, browser
  <2>2. \A c \in Calls : call'[c].seen \in {call[c].seen, version, 0}
    BY <2>1
  <2> QED
    BY <1>1, <1>2, <2>1, <2>2
<1>8. CASE LoginIssues
  <2>1. /\ UNCHANGED <<version, bumps, call>> /\ login'.seen = login.seen
        /\ Len(pairs) < MaxPairs /\ pairs' = Append(pairs, login.seen)
    BY <1>8 DEF LoginIssues, Issue, browser, SessionTypeOK
  <2>2. login.seen <= version
    BY DEF VersionInv
  <2>3. \A c \in Calls : call'[c].seen \in {call[c].seen, version, 0}
    BY <2>1
  <2> QED
    BY <1>0, <1>1, <1>3, <2>1, <2>2, <2>3
<1>9. ASSUME NEW c \in Calls, CallStep(c)
      PROVE  VersionInv'
  <2>1. \A d \in Calls : call'[d].seen \in {call[d].seen, version, 0}
    <3>1. CASE Send(c) \/ Judged(c) \/ Refresh(c) \/ Select(c) \/ Check(c) \/ Rotate(c) \/ Retry(c)
      <4>0. call \in [Calls -> CallsAt(Len(pairs))] /\ call[c] \in CallsAt(Len(pairs))
        BY DEF SessionTypeOK, CallsAt, CallSteps
      <4>1. \A d \in Calls \ {c} : call'[d] = call[d]
        BY <3>1, <4>0 DEF Send, Judged, Refresh, Select, Check, Rotate, Retry
      <4>2. call'[c].seen \in {call[c].seen, version, 0}
        <5>1. CASE Send(c)
          BY <4>0, <5>1 DEF Send, CallsAt
        <5>2. CASE Select(c)
          BY <4>0, <5>2 DEF Select, CallsAt
        <5>3. CASE Check(c)
          BY <4>0, <5>3 DEF Check, CallsAt
        <5>4. CASE Judged(c) \/ Retry(c)
          BY <4>0, <5>4 DEF Judged, Retry, At
        <5>5. CASE Refresh(c)
          BY <4>0, <5>5 DEF Refresh, At, CallsAt
        <5>6. CASE Rotate(c)
          BY <4>0, <5>6 DEF Rotate, At
        <5> QED
          BY <3>1, <5>1, <5>2, <5>3, <5>4, <5>5, <5>6
      <4> QED
        BY <4>1, <4>2
    <3>2. CASE Store(c) \/ Clear(c) \/ RefreshFails(c)
      <4>1. PICK k \in {"retry", "error", "signedout"} : Resolved(c, k)
        BY <3>2 DEF Store, Clear, RefreshFails
      <4>2. k \in CallSteps /\ At(k).seen = 0
        BY DEF CallSteps, Over, At
      <4> QED
        BY <4>1, <4>2, ResolvedFacts
    <3> QED
      BY <1>9, <3>1, <3>2 DEF CallStep
  <2>2. UNCHANGED <<version, bumps, login>>
    BY <1>9 DEF CallStep, Send, Judged, Refresh, Select, Check, Rotate, Store, Clear, Retry, RefreshFails, server
  <2>3. CASE Rotate(c)
    <3>1. Len(pairs) < MaxPairs /\ pairs' = Append(pairs, call[c].seen)
      BY <2>3 DEF Rotate
    <3>2. call[c].seen <= version
      BY DEF VersionInv
    <3> QED
      BY <1>0, <1>1, <1>3, <2>1, <2>2, <3>1, <3>2
  <2>4. CASE ~Rotate(c)
    <3>1. UNCHANGED pairs
      BY <1>9, <2>4 DEF CallStep, Send, Judged, Refresh, Select, Check, Store, Clear, Retry, RefreshFails, server
    <3> QED
      BY <1>1, <1>2, <2>1, <2>2, <3>1
  <2> QED
    BY <2>3, <2>4
<1> QED
  BY <1>4, <1>5, <1>6, <1>7, <1>8, <1>9 DEF SessionNext
-----------------------------------------------------------------------------
\* What excuses a sign-out stays on record.
LEMMA ExcuseStays ==
  ASSUME SessionTypeOK, excused, SessionNext \/ UNCHANGED sessionVars
  PROVE  excused'
<1>1. CASE UNCHANGED sessionVars
  BY <1>1 DEF sessionVars
<1>2. ASSUME NEW c \in Calls, CallStep(c)
      PROVE  excused'
  BY <1>2 DEF CallStep, Send, Judged, Refresh, Select, Check, Rotate, Store, Clear, Retry, RefreshFails
<1>3. CASE \/ \E b \in Bumps : ReadVersion(b) \/ LateReset(b) \/ CommitVersion(b)
           \/ LoginReads \/ LoginIssues \/ RedisRestarts
           \/ Logout \/ \E n \in logouts : LogoutServed(n)
  BY <1>3 DEF ReadVersion, LateReset, CommitVersion, LoginReads, LoginIssues, RedisRestarts,
              Logout, LogoutServed, browser
<1> QED
  BY <1>1, <1>2, <1>3 DEF SessionNext

\* Without an excuse, whatever is not a call leaves the one version, the stored
\* token and the calls alone.
LEMMA QuietElsewhere ==
  ASSUME SessionTypeOK, QuietInv, ~excused',
         \/ \E b \in Bumps : ReadVersion(b) \/ LateReset(b) \/ CommitVersion(b)
         \/ LoginReads \/ LoginIssues \/ RedisRestarts
         \/ Logout \/ (\E n \in logouts : LogoutServed(n)) \/ UNCHANGED sessionVars
  PROVE  QuietInv'
<1>1. ASSUME UNCHANGED <<version, stored, call, logouts>>, used' \subseteq used, login'.seen = 0,
             \A n \in 1..Len(pairs') : pairs'[n] = 0
      PROVE  QuietInv'
  BY <1>1 DEF QuietInv, Refreshing
<1>2. version = 0 /\ login.seen = 0 /\ \A n \in 1..Len(pairs) : pairs[n] = 0
  BY DEF QuietInv
<1>3. CASE (\E b \in Bumps : ReadVersion(b) \/ LateReset(b)) \/ LoginReads \/ RedisRestarts \/ UNCHANGED sessionVars
  <2>1. UNCHANGED <<version, stored, call, logouts, pairs>> /\ used' \subseteq used
    BY <1>3 DEF ReadVersion, LateReset, LoginReads, RedisRestarts, browser, sessionVars
  <2>2. login'.seen = 0
    <3>1. CASE LoginReads
      BY <1>2, <3>1 DEF LoginReads
    <3>2. CASE (\E b \in Bumps : ReadVersion(b) \/ LateReset(b)) \/ RedisRestarts \/ UNCHANGED sessionVars
      <4>1. UNCHANGED login
        BY <3>2 DEF ReadVersion, LateReset, RedisRestarts, sessionVars
      <4> QED
        BY <1>2, <4>1
    <3> QED
      BY <1>3, <3>1, <3>2
  <2> QED
    BY <1>1, <1>2, <2>1, <2>2
<1>4. CASE LoginIssues
  <2>1. /\ UNCHANGED <<version, stored, call, logouts, used>> /\ login'.seen = 0
        /\ Len(pairs) < MaxPairs /\ pairs' = Append(pairs, 0)
    BY <1>2, <1>4 DEF LoginIssues, Issue, browser, SessionTypeOK
  <2>2. /\ Len(pairs') = Len(pairs) + 1 /\ Len(pairs) \in Nat /\ pairs'[Len(pairs) + 1] = 0
        /\ \A n \in 1..Len(pairs) : pairs'[n] = pairs[n]
    BY <2>1, IssueFacts DEF SessionTypeOK
  <2>3. \A n \in 1..Len(pairs') : n \in 1..Len(pairs) \/ n = Len(pairs) + 1
    BY <2>2
  <2>4. \A n \in 1..Len(pairs') : pairs'[n] = 0
    BY <1>2, <2>2, <2>3
  <2> QED
    BY <1>1, <2>1, <2>4
<1>5. CASE (\E b \in Bumps : CommitVersion(b)) \/ Logout
  BY <1>5 DEF CommitVersion, Logout
<1>6. CASE \E n \in logouts : LogoutServed(n)
  BY <1>6 DEF QuietInv
<1> QED
  BY <1>3, <1>4, <1>5, <1>6

\* Without an excuse, one call refreshes at a time, and its token is unused.
LEMMA QuietCalls ==
  ASSUME SessionTypeOK, CallerInv, QuietInv, ~excused', NEW c \in Calls, CallStep(c)
  PROVE  QuietInv'
<1>0. /\ Len(pairs) \in Nat /\ call \in [Calls -> CallsAt(Len(pairs))] /\ used \subseteq 1..Len(pairs)
      /\ stored \in 0..Len(pairs)
  BY DEF SessionTypeOK, CallsAt, CallSteps
<1>1. /\ version = 0 /\ login.seen = 0 /\ logouts = {} /\ stored # 0
      /\ \A n \in 1..Len(pairs) : pairs[n] = 0
      /\ \A d \in Calls : call[d].seen = 0 /\ call[d].pc \notin {"refused", "signedout"}
  BY DEF QuietInv
<1>2. /\ \A d, e \in Calls : Refreshing(d) /\ Refreshing(e) => d = e
      /\ \A d \in Calls : Refreshing(d) => call[d].pair = stored
      /\ stored \in used => \E d \in Calls : call[d].pc = "answered"
      /\ \A d \in Calls : call[d].pc = "answered" => call[d].got \notin used \cup {stored}
  BY DEF QuietInv
<1> USE DEF Refreshing, InFlight
\* a step of a call that does not refresh
<1>3. ASSUME UNCHANGED <<version, login, logouts, stored, pairs, used>>,
             \A d \in Calls \ {c} : call'[d] = call[d],
             call'[c].seen = 0, call'[c].pc \notin InFlight \cup {"signedout"}, call[c].pc \notin InFlight
      PROVE  QuietInv'
  BY <1>1, <1>2, <1>3 DEF QuietInv
<1>4. CASE Send(c) \/ Judged(c) \/ Retry(c)
  <2>1. UNCHANGED <<version, login, logouts, stored, pairs, used>>
    BY <1>4 DEF Send, Judged, Retry, server
  <2>2. /\ \A d \in Calls \ {c} : call'[d] = call[d]
        /\ call'[c].seen = 0 /\ call'[c].pc \notin InFlight \cup {"signedout"} /\ call[c].pc \notin InFlight
    BY <1>0, <1>1, <1>4 DEF Send, Judged, Retry, At, CallsAt
  <2> QED
    BY <1>3, <2>1, <2>2
<1>5. CASE Refresh(c)
  <2>1. UNCHANGED <<version, login, logouts, stored, pairs, used>>
    BY <1>5 DEF Refresh, server
  <2>2. CASE promise[Page[c]] # None
    <3>1. call' = [call EXCEPT ![c] = At("sharing")] /\ call[c].pc = "denied"
      BY <1>5, <2>2 DEF Refresh
    <3>2. /\ \A d \in Calls \ {c} : call'[d] = call[d]
          /\ call'[c].seen = 0 /\ call'[c].pc \notin InFlight \cup {"signedout"} /\ call[c].pc \notin InFlight
      BY <1>0, <3>1 DEF At
    <3> QED
      BY <1>3, <2>1, <3>2
  <2>3. CASE promise[Page[c]] = None
    <3>1. /\ call[c].pc = "denied" /\ excused' = (excused \/ TwoPages(c))
          /\ call' = [call EXCEPT ![c] = [call[c] EXCEPT !.pc = "refresh", !.pair = stored]]
      BY <1>1, <1>5, <2>3 DEF Refresh
    <3>2. /\ \A d \in Calls \ {c} : call'[d] = call[d]
          /\ call'[c].seen = 0 /\ call'[c].pc = "refresh" /\ call'[c].pair = stored
      BY <1>0, <1>1, <3>1 DEF CallsAt
    <3>3. \A d \in Calls : ~Refreshing(d)
      <4>1. ASSUME NEW d \in Calls, Refreshing(d)
            PROVE  FALSE
        <5>1. promise[Page[d]] = d /\ d # None
          BY <4>1, SessionAssumptions DEF CallerInv
        <5>2. Page[d] # Page[c]
          BY <2>3, <5>1
        <5>3. TwoPages(c)
          BY <1>2, <4>1, <5>2 DEF TwoPages
        <5> QED
          BY <3>1, <5>3
      <4> QED
        BY <4>1
    <3>4. stored \notin used
      BY <1>2, <3>3
    <3> QED
      BY <1>1, <2>1, <3>2, <3>3, <3>4 DEF QuietInv
  <2> QED
    BY <2>2, <2>3
<1>6. CASE Select(c) \/ Check(c)
  <2>1. UNCHANGED <<version, login, logouts, stored, pairs, used>>
    BY <1>6 DEF Select, Check, server
  <2>2. call[c].pc \in {"refresh", "selected"}
    BY <1>6 DEF Select, Check
  <2>3. call[c].pair = stored /\ \A d \in Calls \ {c} : ~Refreshing(d)
    BY <1>2, <2>2
  <2>4. stored \notin used
    BY <1>2, <2>2, <2>3
  <2>5. pairs[stored] = 0
    BY <1>0, <1>1
  <2>6. /\ \A d \in Calls \ {c} : call'[d] = call[d]
        /\ call'[c].seen = 0 /\ call'[c].pc \in {"selected", "clear"} /\ call'[c].pair = stored
    <3>1. CASE Select(c)
      BY <1>0, <1>1, <2>3, <3>1 DEF Select, CallsAt
    <3>2. CASE Check(c)
      BY <1>0, <1>1, <2>3, <2>4, <2>5, <3>2 DEF Check, CallsAt
    <3> QED
      BY <1>6, <3>1, <3>2
  <2> QED
    BY <1>1, <2>1, <2>3, <2>4, <2>6 DEF QuietInv
<1>7. CASE Rotate(c)
  <2>1. /\ UNCHANGED <<version, login, logouts, stored>>
        /\ call[c].pc = "clear" /\ Len(pairs) < MaxPairs
        /\ used' = used \cup {call[c].pair} /\ pairs' = Append(pairs, 0)
        /\ call' = [call EXCEPT ![c] = [At("answered") EXCEPT !.pair = call[c].pair, !.got = Len(pairs')]]
    BY <1>1, <1>7 DEF Rotate
  <2>2. call[c].pair = stored /\ \A d \in Calls \ {c} : ~Refreshing(d)
    BY <1>2, <2>1
  <2>3. /\ Len(pairs') = Len(pairs) + 1 /\ pairs'[Len(pairs) + 1] = 0
        /\ \A n \in 1..Len(pairs) : pairs'[n] = pairs[n]
    BY <2>1, IssueFacts
  <2>4. \A n \in 1..Len(pairs') : n \in 1..Len(pairs) \/ n = Len(pairs) + 1
    BY <1>0, <2>3
  <2>5. \A n \in 1..Len(pairs') : pairs'[n] = 0
    BY <1>1, <2>3, <2>4
  <2>6. Len(pairs') \notin used \cup {stored}
    BY <1>0, <2>3
  <2>7. /\ \A d \in Calls \ {c} : call'[d] = call[d]
        /\ call'[c].seen = 0 /\ call'[c].pc = "answered" /\ call'[c].pair = stored /\ call'[c].got = Len(pairs')
    BY <1>0, <2>1, <2>2 DEF At
  <2> QED
    BY <1>1, <2>1, <2>2, <2>5, <2>6, <2>7 DEF QuietInv
<1>8. CASE Store(c)
  <2>1. /\ call[c].pc = "answered" /\ stored' = call[c].got /\ Resolved(c, "retry")
        /\ UNCHANGED <<version, login, logouts, pairs, used>>
    BY <1>8 DEF Store, server
  <2>2. call[c].got \notin used /\ call[c].got # 0 /\ \A d \in Calls \ {c} : ~Refreshing(d)
    BY <1>2, <2>1 DEF CallerInv
  <2>3. "retry" \in CallSteps /\ At("retry").pc = "retry" /\ At("retry").seen = 0
    BY DEF CallSteps, At
  <2>4. \A d \in Calls : \/ call'[d] = call[d] /\ d # c
                         \/ call'[d] = At("retry")
    BY <2>1, <2>3, ResolvedFacts
  <2>5. \A d \in Calls : ~Refreshing(d)' /\ call'[d].pc \notin {"refused", "signedout"} /\ call'[d].seen = 0
    BY <1>1, <2>2, <2>3, <2>4
  <2> QED
    BY <1>1, <2>1, <2>2, <2>5 DEF QuietInv
<1>9. CASE Clear(c)
  BY <1>1, <1>9 DEF Clear
<1>10. CASE RefreshFails(c)
  BY <1>10 DEF RefreshFails
<1> QED
  BY <1>4, <1>5, <1>6, <1>7, <1>8, <1>9, <1>10 DEF CallStep
-----------------------------------------------------------------------------
\* SessionInv is inductive.
LEMMA SessionInvariance == SessionSpec => []SessionInv
<1>1. SessionInit => SessionInv
  <2> SUFFICES ASSUME SessionInit
               PROVE  SessionInv
    OBVIOUS
  <2> USE DEF SessionInit, Starting
  <2>0. /\ pairs = <<0>> /\ Len(pairs) = 1 /\ pairs[1] = 0 /\ MaxPairs \in Nat \ {0} /\ MaxFaults \in Nat
        /\ \A n \in 1..Len(pairs) : n = 1
    BY SessionAssumptions
  <2>1. SessionTypeOK
    <3>1. call \in [Calls -> CallsAt(Len(pairs))]
      BY <2>0 DEF CallsAt, CallSteps, At
    <3>2. bumps \in [Bumps -> BumpsAt(Len(pairs))]
      BY <2>0 DEF BumpsAt
    <3>3. pairs \in Seq(Nat) /\ Len(pairs) \in 1..MaxPairs /\ stored \in 0..Len(pairs)
      BY <2>0
    <3>4. promise \in [Pages -> Calls \cup {None}] /\ exchanged \in [1..MaxPairs -> Nat] /\ faults \in 0..MaxFaults
      BY <2>0
    <3>5. login \in [pc : {"new", "read", "done"}, seen : Nat] /\ version \in Nat
      OBVIOUS
    <3> QED
      BY <3>1, <3>2, <3>3, <3>4, <3>5 DEF SessionTypeOK, CallsAt, CallSteps, BumpsAt
  <2>2. \A c \in Calls : call[c].pc \in {"new", "done"} /\ call[c].seen = 0
    BY DEF At
  <2>3. CallerInv
    BY <2>2 DEF CallerInv, Refreshing, InFlight
  <2>4. OnceInv
    BY DEF OnceInv
  <2>5. VersionInv
    <3>1. \A b \in Bumps : bumps[b].pc # "read" /\ bumps[b].known = 0
      OBVIOUS
    <3> QED
      BY <2>0, <2>2, <3>1 DEF VersionInv
  <2>6. QuietInv
    BY <2>0, <2>2 DEF QuietInv, Refreshing, InFlight
  <2> QED
    BY <2>1, <2>3, <2>4, <2>5, <2>6 DEF SessionInv
<1>2. SessionInv /\ [SessionNext]_sessionVars => SessionInv'
  <2> SUFFICES ASSUME SessionInv, SessionNext \/ UNCHANGED sessionVars
               PROVE  SessionInv'
    OBVIOUS
  <2>0. SessionTypeOK /\ CallerInv /\ OnceInv
    BY DEF SessionInv
  <2>1. SessionTypeOK' /\ CallerInv' /\ OnceInv'
    BY <2>0, SessionSteps, CallersKept, OnceKept
  <2>2. Overtaken' \/ VersionInv'
    <3>1. CASE Overtaken
      BY <2>0, <3>1, OvertakenStays
    <3>2. CASE ~Overtaken
      BY <2>0, <3>2, VersionKept DEF SessionInv
    <3> QED
      BY <3>1, <3>2
  <2>3. excused' \/ QuietInv'
    <3>1. CASE excused
      BY <2>0, <3>1, ExcuseStays
    <3>2. CASE ~excused
      BY <2>0, <3>2, QuietCalls, QuietElsewhere DEF SessionInv, SessionNext
    <3> QED
      BY <3>1, <3>2
  <2> QED
    BY <2>1, <2>2, <2>3 DEF SessionInv
<1> QED
  BY <1>1, <1>2, PTL DEF SessionSpec

\* The versions, the pairs, and what the calls and pages hold keep their types,
\* and no more pairs are issued than are accounted for.
THEOREM SessionsTyped == SessionSpec => []SessionTypeOK
<1>1. SessionInv => SessionTypeOK
  BY DEF SessionInv
<1> QED
  BY <1>1, SessionInvariance, PTL

\* For any number of resets, revocations, logins and refreshes: what a reset or
\* revocation has ended stays ended, until one increment of the version has
\* been overtaken by two others (reset_password, revoke_sessions).
THEOREM RevocationsLast == SessionSpec => []RevocationLasts
<1>1. SessionInv => RevocationLasts
  <2> SUFFICES ASSUME SessionInv, ~Overtaken, NEW b \in Bumps, bumps[b].pc = "done",
                      NEW n \in 1..bumps[b].known
               PROVE  pairs[n] # version
    BY DEF RevocationLasts
  <2>1. pairs[n] < version
    BY DEF SessionInv, VersionInv
  <2>2. n \in 1..Len(pairs) /\ pairs \in Seq(Nat) /\ version \in Nat
    BY DEF SessionInv, SessionTypeOK
  <2>3. pairs[n] \in Nat
    BY <2>2
  <2> QED
    BY <2>1, <2>2, <2>3
<1> QED
  BY <1>1, SessionInvariance, PTL

\* For any number of calls and pages: a refresh token has one successor, unless
\* two refreshes were past the check together or Redis restarted (refresh).
THEOREM TokensAreExchangedOnce == SessionSpec => []ExchangedOnce
<1>1. SessionInv => ExchangedOnce
  <2> SUFFICES ASSUME SessionInv, NEW n \in 1..Len(pairs)
               PROVE  exchanged[n] <= 1 \/ n \in raced \/ wiped
    BY DEF ExchangedOnce
  <2>1. n \in 1..MaxPairs
    BY SessionAssumptions DEF SessionInv, SessionTypeOK
  <2>2. n \in raced \/ wiped \/ exchanged[n] = 0 \/ exchanged[n] = 1
    BY <2>1 DEF SessionInv, OnceInv
  <2> QED
    BY <2>2
<1> QED
  BY <1>1, SessionInvariance, PTL

\* For any number of calls and pages: nobody is sent to the login page but for
\* a reset or revocation, a logout, a refresh that failed, or two pages that
\* refreshed at once (refreshAccessToken).
THEOREM SignOutsHaveACause == SessionSpec => []SignedOutForACause
<1>1. SessionInv => SignedOutForACause
  BY DEF SessionInv, QuietInv, SignedOutForACause
<1> QED
  BY <1>1, SessionInvariance, PTL
=============================================================================
