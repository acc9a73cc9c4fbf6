------------------------ MODULE EventConsumer_proofs ------------------------
(***************************************************************************)
(* Proofs about EventConsumer, for any number of entries, any batch size   *)
(* and any sequence of failures.                                           *)
(***************************************************************************)
EXTENDS EventConsumer, FiniteSetTheorems, TLAPS

\* The task holds a batch only between reading and acknowledging it; the batch
\* is not in the table before the commit, and is after it.
BatchInv ==
  /\ task \notin {"store", "ack"} => batch = {}
  /\ task = "store" => batch \cap rows = {}
  /\ task = "ack" => Parsed \subseteq rows

\* Of what the stream still holds, exactly the part up to the group's position
\* was delivered; without a group, nothing was.
OrderInv ==
  /\ group => \A e \in 1..published : e > trimmed => (e \in handed <=> e <= position)
  /\ ~group => \A e \in handed : e <= trimmed

IInv == TypeOK /\ BatchInv /\ OrderInv /\ AckedAreStored

-----------------------------------------------------------------------------
\* What a read can return: the next entries, at most a batch of them.
LEMMA AvailableFacts ==
  ASSUME TypeOK
  PROVE  /\ Passed \in 0..published
         /\ Available \subseteq (Passed + 1)..published
         /\ IsFiniteSet(Available)
         /\ Cardinality(Available) <= BatchSize
         /\ \A e \in Available, d \in (Passed + 1)..published : d <= e => d \in Available
<1>1. Passed \in 0..published
  BY DEF TypeOK, Passed
<1> DEFINE last == IF Passed + BatchSize < published THEN Passed + BatchSize ELSE published
<1>2. /\ last \in Int
      /\ last <= published
      /\ last <= Passed + BatchSize
      /\ Available = (Passed + 1)..last
      /\ published \in Int
      /\ BatchSize \in Int /\ BatchSize >= 0
  BY <1>1, ConsumerAssumption DEF TypeOK, Available
<1>3. /\ IsFiniteSet(Available)
      /\ Cardinality(Available) = IF Passed + 1 > last THEN 0 ELSE last - (Passed + 1) + 1
  BY <1>1, <1>2, FS_Interval
<1>4. Cardinality(Available) <= BatchSize
  BY <1>1, <1>2, <1>3
<1> QED
  BY <1>1, <1>2, <1>3, <1>4

-----------------------------------------------------------------------------
\* The types alone are inductive.
LEMMA DeliverType ==
  ASSUME TypeOK, DeliverAvailable
  PROVE  /\ position' \in 0..published
         /\ handed' \subseteq 1..published
         /\ handed \subseteq handed'
         /\ pending' \subseteq handed'
         /\ Available \subseteq handed'
         /\ UNCHANGED <<published, trimmed, group, acked, rows>>
<1>1. Passed \in 0..published /\ Available \subseteq (Passed + 1)..published
  BY AvailableFacts
<1>2. Available \subseteq 1..published
  BY <1>1 DEF TypeOK
<1> QED
  BY <1>2 DEF TypeOK, DeliverAvailable

LEMMA UnansweredType ==
  ASSUME TypeOK, NEW next \in {"read", "dead", "off"}, Unanswered(next)
  PROVE  TypeOK'
<1>1. faults' \in 0..MaxFaults
  BY ConsumerAssumption DEF TypeOK, Unanswered, Fault
<1>2. IsFiniteSet({}) /\ Cardinality({}) = 0
  BY FS_EmptySet
<1>3. batch' = {} /\ task' = next /\ Cardinality(batch') <= BatchSize
  BY <1>2, ConsumerAssumption DEF Unanswered
<1>4. CASE UNCHANGED <<stream, rows>>
  BY <1>1, <1>3, <1>4 DEF TypeOK, stream
<1>5. CASE CreateGroup
  BY <1>1, <1>3, <1>5 DEF TypeOK, CreateGroup
<1>6. CASE DeliverAvailable
  BY <1>1, <1>3, <1>6, DeliverType DEF TypeOK
<1>7. CASE StoreBatch
  BY <1>1, <1>3, <1>7 DEF TypeOK, StoreBatch, stream, Parsed
<1>8. CASE AckBatch
  BY <1>1, <1>3, <1>8 DEF TypeOK, AckBatch
<1> QED
  BY <1>4, <1>5, <1>6, <1>7, <1>8 DEF Unanswered

LEMMA InitType == Init => TypeOK
<1>1. Cardinality({}) <= BatchSize /\ 0 \in 0..N /\ 0 \in 0..MaxFaults
  BY ConsumerAssumption, FS_EmptySet
<1>2. Init => group \in BOOLEAN
  BY DEF Init
<1>3. Init => /\ published \in 0..N /\ trimmed \in 0..published /\ position \in 0..published
                /\ faults \in 0..MaxFaults
  BY <1>1 DEF Init
<1>4. Init => Cardinality(batch) <= BatchSize
  BY <1>1 DEF Init
<1> QED
  BY <1>2, <1>3, <1>4 DEF Init, TypeOK

\* Every variable keeps its type: in particular a batch never exceeds its size
\* and only parsed entries reach the table.
THEOREM TypeCorrect == Spec => []TypeOK
<1>1. Init => TypeOK
  BY InitType
<1>2. TypeOK /\ [Next]_vars => TypeOK'
  <2> SUFFICES ASSUME TypeOK, [Next]_vars
               PROVE  TypeOK'
    OBVIOUS
  <2>1. CASE Start
    BY <2>1 DEF TypeOK, Start, stream
  <2>2. CASE EnsureGroup
    BY <2>2 DEF TypeOK, EnsureGroup, CreateGroup
  <2>3. CASE Read
    <3>1. Cardinality(Available) <= BatchSize
      BY AvailableFacts
    <3> QED
      BY <2>3, <3>1, DeliverType DEF TypeOK, Read
  <2>4. CASE Store
    BY <2>4 DEF TypeOK, Store, StoreBatch, Parsed, stream
  <2>5. CASE Ack
    BY <2>5, ConsumerAssumption, FS_EmptySet DEF TypeOK, Ack, AckBatch
  <2>6. CASE ReadFails \/ TaskDies \/ ProcessStops
    BY <2>6, UnansweredType DEF ReadFails, TaskDies, ProcessStops
  <2>7. CASE RedisLosesData
    <3>1. faults' \in 0..MaxFaults
      BY <2>7, ConsumerAssumption DEF TypeOK, RedisLosesData, Fault
    <3>2. trimmed' \in 0..published' /\ pending' \subseteq handed'
      BY <2>7, ConsumerAssumption DEF TypeOK, RedisLosesData
    <3> QED
      BY <2>7, <3>1, <3>2 DEF TypeOK, RedisLosesData
  <2>8. CASE Publish
    BY <2>8, ConsumerAssumption DEF TypeOK, Publish
  <2>9. CASE UNCHANGED vars
    BY <2>9 DEF TypeOK, vars, stream
  <2> QED
    BY <2>1, <2>2, <2>3, <2>4, <2>5, <2>6, <2>7, <2>8, <2>9 DEF Next, TaskStep
<1> QED
  BY <1>1, <1>2, PTL DEF Spec

-----------------------------------------------------------------------------
\* A delivery keeps the order: what it hands over lies between the group's old
\* and new position, and had not been handed over before.
LEMMA DeliverOrder ==
  ASSUME TypeOK, OrderInv, DeliverAvailable
  PROVE  OrderInv' /\ Available \cap handed = {} /\ Available \cap rows = {}
<1>1. /\ Passed \in 0..published
      /\ Available \subseteq (Passed + 1)..published
      /\ \A e \in Available, d \in (Passed + 1)..published : d <= e => d \in Available
  BY AvailableFacts
<1>2. /\ group
      /\ position' \in Available
      /\ \A e \in Available : e <= position'
      /\ handed' = handed \cup Available
      /\ UNCHANGED <<published, trimmed, group>>
  BY DEF DeliverAvailable
<1>3. Passed >= position /\ Passed >= trimmed /\ (Passed = position \/ Passed = trimmed)
  BY DEF Passed, TypeOK
<1>4. published \in Nat /\ trimmed \in Nat /\ position \in Nat /\ Passed \in Nat
  BY <1>1 DEF TypeOK
<1>5. \A e \in Available : e \in 1..published /\ e > trimmed /\ e > position
  BY <1>1, <1>3, <1>4
<1>6. \A e \in 1..published : e > trimmed => (e \in handed <=> e <= position)
  BY <1>2 DEF OrderInv
<1>7. Available \cap handed = {}
  BY <1>4, <1>5, <1>6
<1>8. ASSUME NEW e \in 1..published, e > trimmed
      PROVE  e \in handed' <=> e <= position'
  <2>1. CASE e <= position
    BY <2>1, <1>2, <1>4, <1>5, <1>6, <1>8
  <2>2. CASE e > position /\ e <= position'
    <3>1. e \in (Passed + 1)..published
      BY <2>2, <1>3, <1>4, <1>8
    <3> QED
      BY <3>1, <2>2, <1>1, <1>2
  <2>3. CASE e > position'
    <3>1. e \notin Available /\ position' > position
      BY <2>3, <1>2, <1>4, <1>5
    <3> QED
      BY <3>1, <2>3, <1>2, <1>4, <1>5, <1>6, <1>8
  <2> QED
    BY <2>1, <2>2, <2>3, <1>2, <1>4, <1>5
<1>9. Available \cap rows = {}
  BY <1>7 DEF TypeOK
<1> QED
  BY <1>2, <1>7, <1>8, <1>9 DEF OrderInv

\* Creating the group again does nothing; creating it anew starts at the first
\* entry the stream still holds.
LEMMA CreateOrder ==
  ASSUME TypeOK, OrderInv, CreateGroup
  PROVE  OrderInv'
<1>1. CASE group
  BY <1>1 DEF OrderInv, CreateGroup
<1>2. CASE ~group
  <2>1. \A e \in 1..published : e > trimmed => e \notin handed /\ ~(e <= 0)
    BY <1>2 DEF OrderInv, TypeOK
  <2> QED
    BY <2>1, <1>2 DEF OrderInv, CreateGroup
<1> QED
  BY <1>1, <1>2

\* A round trip without an answer keeps the invariant whether or not it had
\* its effect, because the task drops its batch.
LEMMA UnansweredInv ==
  ASSUME IInv, NEW next \in {"read", "dead", "off"}, Unanswered(next)
  PROVE  IInv'
<1> USE DEF IInv
<1>1. TypeOK'
  BY UnansweredType
<1>2. batch' = {} /\ task' \notin {"store", "ack"}
  BY DEF Unanswered
<1>3. BatchInv'
  BY <1>2 DEF BatchInv
<1>4. OrderInv' /\ AckedAreStored'
  <2>1. CASE UNCHANGED <<stream, rows>>
    BY <2>1 DEF OrderInv, AckedAreStored, stream
  <2>2. CASE CreateGroup
    BY <2>2, CreateOrder DEF AckedAreStored, CreateGroup
  <2>3. CASE DeliverAvailable
    BY <2>3, DeliverOrder DEF AckedAreStored, DeliverAvailable
  <2>4. CASE StoreBatch
    BY <2>4 DEF OrderInv, AckedAreStored, StoreBatch, stream
  <2>5. CASE task = "ack" /\ AckBatch
    BY <2>5 DEF OrderInv, AckedAreStored, AckBatch, BatchInv, Parsed
  <2> QED
    BY <2>1, <2>2, <2>3, <2>4, <2>5 DEF Unanswered
<1> QED
  BY <1>1, <1>3, <1>4

\* The invariant is inductive.
LEMMA InvInductive == Spec => []IInv
<1>1. Init => IInv
  <2>1. Init => BatchInv /\ OrderInv /\ AckedAreStored
    BY DEF Init, BatchInv, OrderInv, AckedAreStored
  <2> QED
    BY <2>1, InitType DEF IInv
<1>2. IInv /\ TypeOK' /\ [Next]_vars => IInv'
  <2> SUFFICES ASSUME IInv, TypeOK', [Next]_vars
               PROVE  BatchInv' /\ OrderInv' /\ AckedAreStored'
    BY DEF IInv
  <2> USE DEF IInv
  <2>1. CASE Start
    BY <2>1 DEF Start, BatchInv, OrderInv, AckedAreStored, stream
  <2>2. CASE EnsureGroup
    BY <2>2, CreateOrder DEF EnsureGroup, CreateGroup, BatchInv, AckedAreStored
  <2>3. CASE Read
    BY <2>3, DeliverOrder DEF Read, DeliverAvailable, BatchInv, AckedAreStored
  <2>4. CASE Store
    BY <2>4 DEF Store, StoreBatch, Parsed, BatchInv, OrderInv, AckedAreStored, stream
  <2>5. CASE Ack
    BY <2>5 DEF Ack, AckBatch, Parsed, BatchInv, OrderInv, AckedAreStored
  <2>6. CASE ReadFails \/ TaskDies \/ ProcessStops
    BY <2>6, UnansweredInv DEF ReadFails, TaskDies, ProcessStops
  <2>7. CASE RedisLosesData
    BY <2>7 DEF TypeOK, RedisLosesData, BatchInv, OrderInv, AckedAreStored, Parsed
  <2>8. CASE Publish
    <3>1. /\ published' = published + 1 /\ trimmed' >= trimmed /\ trimmed' \in Int
          /\ trimmed' <= published
      BY <2>8, ConsumerAssumption DEF Publish, TypeOK
    <3>2. position <= published /\ handed \subseteq 1..published
      BY DEF TypeOK
    <3>3. OrderInv'
      BY <2>8, <3>1, <3>2 DEF Publish, TypeOK, OrderInv
    <3> QED
      BY <2>8, <3>3 DEF Publish, BatchInv, AckedAreStored, Parsed
  <2>9. CASE UNCHANGED vars
    BY <2>9 DEF BatchInv, OrderInv, AckedAreStored, Parsed, vars, stream
  <2> QED
    BY <2>1, <2>2, <2>3, <2>4, <2>5, <2>6, <2>7, <2>8, <2>9 DEF Next, TaskStep
<1> QED
  BY <1>1, <1>2, TypeCorrect, PTL DEF Spec

\* Nothing is acknowledged before it is stored, whatever fails.
THEOREM AckedAlwaysStored == Spec => []AckedAreStored
BY InvInductive, PTL DEF IInv

-----------------------------------------------------------------------------
\* Adding a set to another adds at most its size.
LEMMA AddAtMost ==
  ASSUME NEW S, NEW T, NEW U, IsFiniteSet(S), IsFiniteSet(T), U \subseteq S \cup T
  PROVE  /\ IsFiniteSet(U)
         /\ Cardinality(U) \in Nat
         /\ Cardinality(U) <= Cardinality(S) + Cardinality(T)
<1>1. /\ IsFiniteSet(S \cup T)
      /\ Cardinality(S \cup T) = Cardinality(S) + Cardinality(T) - Cardinality(S \cap T)
  BY FS_Union
<1>2. IsFiniteSet(S \cap T)
  BY FS_Subset
<1>3. Cardinality(S) \in Nat /\ Cardinality(T) \in Nat /\ Cardinality(S \cap T) \in Nat
  BY <1>2, FS_CardinalityType
<1>4. IsFiniteSet(U) /\ Cardinality(U) <= Cardinality(S \cup T)
  BY <1>1, FS_Subset
<1>5. Cardinality(U) \in Nat
  BY <1>4, FS_CardinalityType
<1> QED
  BY <1>1, <1>3, <1>4, <1>5

\* The sets a batch or a loss is made of are finite.
LEMMA Finite ==
  ASSUME TypeOK
  PROVE  IsFiniteSet(handed) /\ IsFiniteSet(batch) /\ IsFiniteSet(Lost)
<1>1. IsFiniteSet(1..published)
  BY FS_Interval DEF TypeOK
<1>2. handed \subseteq 1..published /\ batch \subseteq 1..published /\ Lost \subseteq 1..published
  BY DEF TypeOK, Lost
<1> QED
  BY <1>1, <1>2, FS_Subset

\* A failure loses at most what the task holds, or what was on its way to it.
LEMMA LossStep ==
  ASSUME IInv, NEW next \in {"read", "dead", "off"}, Unanswered(next), LossIsBounded
  PROVE  LossIsBounded'
<1> USE DEF IInv
<1>1. /\ IsFiniteSet(Available) /\ Cardinality(Available) <= BatchSize
      /\ IsFiniteSet(batch) /\ Cardinality(batch) <= BatchSize
      /\ IsFiniteSet(Lost)
  BY AvailableFacts, Finite DEF TypeOK
<1>2. ~(batch # {} /\ task = "read")
  BY DEF BatchInv
<1>3. Lost' \subseteq Lost \cup batch \/ Lost' \subseteq Lost \cup Available
  <2>1. CASE UNCHANGED <<stream, rows>>
    BY <2>1 DEF Unanswered, Lost, stream
  <2>2. CASE CreateGroup \/ StoreBatch \/ AckBatch
    BY <2>2 DEF Unanswered, CreateGroup, StoreBatch, AckBatch, Lost, stream
  <2>3. CASE task = "read" /\ DeliverAvailable
    BY <2>3, <1>2 DEF Unanswered, DeliverAvailable, Lost
  <2> QED
    BY <2>1, <2>2, <2>3 DEF Unanswered
<1>4. Cardinality(Lost') <= Cardinality(Lost) + BatchSize
  <2>1. /\ Cardinality(Lost) \in Nat /\ Cardinality(batch) \in Nat
        /\ Cardinality(Available) \in Nat
    BY <1>1, FS_CardinalityType
  <2>2. /\ Lost' \subseteq Lost \cup batch =>
             /\ Cardinality(Lost') \in Nat
             /\ Cardinality(Lost') <= Cardinality(Lost) + Cardinality(batch)
        /\ Lost' \subseteq Lost \cup Available =>
             /\ Cardinality(Lost') \in Nat
             /\ Cardinality(Lost') <= Cardinality(Lost) + Cardinality(Available)
    BY <1>1, AddAtMost
  <2> QED
    BY <1>1, <1>3, <2>1, <2>2, ConsumerAssumption
<1>5. faults \in Nat /\ faults' = faults + 1 /\ BatchSize \in Nat
  BY ConsumerAssumption DEF TypeOK, Unanswered, Fault
<1>6. BatchSize * faults' = BatchSize * faults + BatchSize
  BY <1>5
<1>7. Cardinality(Lost) \in Nat /\ Cardinality(Lost') \in Nat
  BY <1>1, <1>3, AddAtMost, FS_CardinalityType
<1>8. Cardinality(Lost) <= BatchSize * faults /\ BatchSize * faults \in Nat
  BY <1>5 DEF LossIsBounded
<1>9. Cardinality(Lost') <= BatchSize * faults'
  BY <1>4, <1>5, <1>6, <1>7, <1>8
<1> QED
  BY <1>9 DEF LossIsBounded

\* For any number of entries and failures, each failure loses at most a batch.
THEOREM LossAlwaysBounded == Spec => []LossIsBounded
<1>1. Init => LossIsBounded
  <2>1. Init => Lost = {}
    BY DEF Init, Lost
  <2>2. Init => Cardinality(Lost) = 0 /\ BatchSize * faults = 0
    BY <2>1, FS_EmptySet, ConsumerAssumption DEF Init
  <2> QED
    BY <2>2 DEF LossIsBounded
<1>2. IInv /\ LossIsBounded /\ [Next]_vars => LossIsBounded'
  <2> SUFFICES ASSUME IInv, LossIsBounded, [Next]_vars
               PROVE  LossIsBounded'
    OBVIOUS
  <2>1. CASE ReadFails \/ TaskDies \/ ProcessStops
    BY <2>1, LossStep DEF ReadFails, TaskDies, ProcessStops
  <2>2. ASSUME Lost' \subseteq Lost, faults' = faults \/ faults' = faults + 1
        PROVE  LossIsBounded'
    <3>1. IsFiniteSet(Lost)
      BY Finite DEF IInv
    <3>2. Cardinality(Lost') <= Cardinality(Lost) /\ IsFiniteSet(Lost')
      BY <2>2, <3>1, FS_Subset
    <3>3. Cardinality(Lost) \in Nat /\ Cardinality(Lost') \in Nat
      BY <3>1, <3>2, FS_CardinalityType
    <3>4. BatchSize \in Nat /\ faults \in Nat
      BY ConsumerAssumption DEF IInv, TypeOK
    <3>5. BatchSize * (faults + 1) = BatchSize * faults + BatchSize
      BY <3>4
    <3>6. Cardinality(Lost) <= BatchSize * faults
      BY DEF LossIsBounded
    <3>7. Cardinality(Lost') <= BatchSize * faults'
      <4>1. BatchSize * faults \in Nat
        BY <3>4
      <4>2. BatchSize * faults <= BatchSize * faults'
        BY <2>2, <3>4, <3>5, <4>1
      <4> QED
        BY <2>2, <3>2, <3>3, <3>4, <3>6, <4>1, <4>2
    <3> QED
      BY <3>7 DEF LossIsBounded
  <2>3. faults \in Nat
    BY ConsumerAssumption DEF IInv, TypeOK
  <2>4. CASE TaskStep
    <3>1. Lost' \subseteq Lost
      <4>1. CASE Start \/ EnsureGroup
        BY <4>1 DEF Start, EnsureGroup, CreateGroup, Lost, stream
      <4>2. CASE Read
        BY <4>2 DEF Read, DeliverAvailable, Lost, IInv, BatchInv
      <4>3. CASE Store
        BY <4>3 DEF Store, StoreBatch, Lost, stream
      <4>4. CASE Ack
        BY <4>4 DEF Ack, AckBatch, Parsed, Lost, IInv, BatchInv
      <4> QED
        BY <2>4, <4>1, <4>2, <4>3, <4>4 DEF TaskStep
    <3>2. faults' = faults
      BY <2>4 DEF TaskStep, Start, EnsureGroup, Read, Store, Ack
    <3> QED
      BY <3>1, <3>2, <2>2, <2>3
  <2>5. CASE RedisLosesData
    <3>1. Lost' = Lost /\ faults' = faults + 1
      BY <2>5 DEF RedisLosesData, Fault, Lost
    <3> QED
      BY <3>1, <2>2, <2>3
  <2>6. CASE Publish \/ UNCHANGED vars
    <3>1. Lost' = Lost /\ faults' = faults
      BY <2>6 DEF Publish, vars, stream, Lost
    <3> QED
      BY <3>1, <2>2, <2>3
  <2> QED
    BY <2>1, <2>4, <2>5, <2>6 DEF Next
<1> QED
  BY <1>1, <1>2, InvInductive, PTL DEF Spec

-----------------------------------------------------------------------------
\* The sets of entries that EventDelivery's actions look at.
LEMMA FateSets ==
  ASSUME TypeOK
  PROVE  /\ Delivery!With("inflight") = batch \ (rows \cup Malformed)
         /\ Delivery!With("waiting") = {e \in (trimmed + 1)..published : e \notin handed}
         /\ Delivery!With("unpublished") = (published + 1)..N
<1>1. /\ published \in Nat /\ trimmed \in Nat /\ N \in Nat /\ published <= N
      /\ handed \subseteq 1..published /\ batch \subseteq handed /\ rows \subseteq handed
  BY ConsumerAssumption DEF TypeOK
<1>2. ASSUME NEW e \in 1..N
      PROVE  /\ FateOf(e) = "inflight" <=> e \in batch \ (rows \cup Malformed)
             /\ FateOf(e) = "waiting" <=> e \notin handed /\ e > trimmed /\ e <= published
             /\ FateOf(e) = "unpublished" <=> e > published
  BY <1>1 DEF FateOf
<1>3. \A f : Delivery!With(f) = {e \in 1..N : FateOf(e) = f}
  BY DEF Delivery!With, Delivery!Events, Entries
<1>4. Delivery!With("inflight") = batch \ (rows \cup Malformed)
  <2>1. batch \subseteq 1..N
    BY <1>1
  <2>2. {e \in 1..N : FateOf(e) = "inflight"} = batch \ (rows \cup Malformed)
    BY <1>2, <2>1
  <2> QED
    BY <1>3, <2>2
<1>5. Delivery!With("waiting") = {e \in (trimmed + 1)..published : e \notin handed}
  BY <1>1, <1>2, <1>3
<1>6. Delivery!With("unpublished") = (published + 1)..N
  <2>1. \A e : e \in (published + 1)..N <=> e \in 1..N /\ e > published
    BY <1>1
  <2>2. {e \in 1..N : FateOf(e) = "unpublished"} = (published + 1)..N
    BY <1>2, <2>1
  <2> QED
    BY <1>3, <2>2
<1> QED
  BY <1>4, <1>5, <1>6

\* A delivery hands over the first waiting entries, whatever becomes of them.
LEMMA DeliverMaps ==
  ASSUME IInv, TypeOK', DeliverAvailable, batch = {},
         NEW f, \/ f = "inflight" /\ batch' = Available
                \/ f = "lost" /\ batch' = {}
  PROVE  Delivery!HandOver(f)
<1>1. /\ Passed \in 0..published
      /\ Available \subseteq (Passed + 1)..published
      /\ Cardinality(Available) <= BatchSize
      /\ \A e \in Available, d \in (Passed + 1)..published : d <= e => d \in Available
  BY AvailableFacts DEF IInv
<1>2. /\ handed' = handed \cup Available
      /\ Available # {} /\ group
      /\ UNCHANGED <<published, trimmed, rows>>
  BY DEF DeliverAvailable
<1>3. /\ published \in Nat /\ trimmed \in Nat /\ N \in Nat /\ published <= N /\ position \in Nat
      /\ handed \subseteq 1..published /\ rows \subseteq handed
  BY ConsumerAssumption DEF IInv, TypeOK
<1>4. Available \cap handed = {} /\ Available \cap rows = {}
  BY DeliverOrder DEF IInv
<1>5. Passed >= trimmed /\ (Passed = position \/ Passed = trimmed)
  BY <1>3 DEF Passed
<1>6. Delivery!With("waiting") = {e \in (trimmed + 1)..published : e \notin handed}
      /\ Delivery!With("inflight") = {}
  BY FateSets DEF IInv
<1>7. Available \subseteq Delivery!With("waiting")
  BY <1>1, <1>3, <1>4, <1>5, <1>6
<1>8. Delivery!With("waiting") \subseteq (Passed + 1)..published
  BY <1>2, <1>3, <1>5, <1>6 DEF IInv, OrderInv
<1>9. Delivery!FirstWaiting(Available)
  BY <1>1, <1>3, <1>7, <1>8 DEF Delivery!FirstWaiting
<1>10. ASSUME NEW e \in Entries
       PROVE  FateOf(e)' = IF e \notin Available THEN FateOf(e)
                           ELSE IF e \in Malformed THEN "skipped" ELSE f
  <2>1. CASE e \notin Available
    BY <2>1, <1>2, <1>3 DEF FateOf, Entries
  <2>2. CASE e \in Available
    BY <2>2, <1>2, <1>3, <1>4 DEF FateOf, Entries
  <2> QED
    BY <2>1, <2>2
<1>11. [e \in Entries |-> FateOf(e)]'
         = [e \in Delivery!Events |->
              IF e \notin Available THEN [d \in Entries |-> FateOf(d)][e]
              ELSE IF e \in Malformed THEN "skipped" ELSE f]
  BY <1>10 DEF Delivery!Events, Entries
<1>12. \A e, d \in Available : e - d < BatchSize
  BY <1>1, <1>3, ConsumerAssumption DEF Available
<1> QED
  BY <1>2, <1>6, <1>7, <1>9, <1>11, <1>12 DEF Delivery!HandOver

\* The fate of an entry depends on nothing but these.
LEMMA SameFate ==
  ASSUME TypeOK, NEW e \in Entries, UNCHANGED <<published, trimmed>>,
         e \in handed' <=> e \in handed, e \in batch' <=> e \in batch, e \in rows' <=> e \in rows
  PROVE  FateOf(e)' = FateOf(e)
<1>1. published \in Int /\ trimmed \in Int /\ e \in Int /\ trimmed <= published
  BY ConsumerAssumption DEF TypeOK, Entries
<1>2. CASE e \in rows
  BY <1>2 DEF FateOf
<1>3. CASE e \notin rows /\ e \in handed
  BY <1>3 DEF FateOf
<1>4. CASE e \notin rows /\ e \notin handed
  <2>1. e \notin batch
    BY <1>4 DEF TypeOK
  <2> QED
    BY <1>1, <1>4, <2>1 DEF FateOf
<1> QED
  BY <1>2, <1>3, <1>4

\* A step that neither moves the stream nor the table, and drops a batch only
\* after it was committed, changes no fate.
LEMMA StutterMaps ==
  ASSUME IInv, UNCHANGED <<published, trimmed, handed, rows>>,
         batch' = batch \/ (batch' = {} /\ task # "store")
  PROVE  UNCHANGED [e \in Entries |-> FateOf(e)]
<1>1. batch' = batch \/ batch \subseteq rows \cup Malformed
  BY DEF IInv, BatchInv, Parsed
<1>2. ASSUME NEW e \in Entries
      PROVE  FateOf(e)' = FateOf(e)
  <2>1. batch \subseteq handed /\ rows \subseteq handed
    BY DEF IInv, TypeOK
  <2>2. CASE batch' = batch
    BY <2>2 DEF FateOf
  <2>3. CASE batch' = {} /\ batch \subseteq rows \cup Malformed
    BY <2>1, <2>3 DEF FateOf
  <2> QED
    BY <1>1, <2>2, <2>3
<1> QED
  BY <1>2

\* A commit stores the batch in flight as a whole; a failure loses it as a whole.
LEMMA ConcludeMaps ==
  ASSUME IInv, task = "store", UNCHANGED <<published, trimmed, handed>>,
         NEW f, \/ f = "stored" /\ rows' = rows \cup Parsed /\ batch' \in {batch, {}}
                \/ f = "lost" /\ rows' = rows /\ batch' = {}
  PROVE  Delivery!Conclude(f) \/ UNCHANGED [e \in Entries |-> FateOf(e)]
<1> DEFINE inflight == batch \ (rows \cup Malformed)
<1>1. Delivery!With("inflight") = inflight
  BY FateSets DEF IInv
<1>2. /\ batch \subseteq handed /\ rows \subseteq handed \ Malformed /\ batch \cap rows = {}
      /\ inflight = batch \ Malformed
  BY DEF IInv, TypeOK, BatchInv
<1>3. ASSUME NEW e \in Entries
      PROVE  FateOf(e)' = IF e \in inflight THEN f ELSE FateOf(e)
  <2>1. CASE e \in inflight
    BY <1>2, <2>1 DEF FateOf, Parsed
  <2>2. CASE e \notin inflight
    <3>1. e \notin inflight /\ (e \in rows' <=> e \in rows)
      BY <1>2, <2>2 DEF Parsed
    <3>2. CASE e \in batch
      BY <1>2, <3>1, <3>2 DEF FateOf
    <3>3. CASE e \notin batch
      <4>1. e \notin batch' /\ (e \in handed' <=> e \in handed)
        BY <3>3
      <4>2. FateOf(e)' = FateOf(e)
        BY <3>1, <3>3, <4>1, SameFate DEF IInv
      <4> QED
        BY <3>1, <4>2
    <3> QED
      BY <3>2, <3>3
  <2> QED
    BY <2>1, <2>2
<1>4. [e \in Entries |-> FateOf(e)]'
        = [e \in Delivery!Events |->
             IF e \in inflight THEN f ELSE [d \in Entries |-> FateOf(d)][e]]
  BY <1>3 DEF Delivery!Events, Entries
<1>5. CASE inflight # {}
  BY <1>1, <1>4, <1>5 DEF Delivery!Conclude, Delivery!Settle
<1>6. CASE inflight = {}
  BY <1>3, <1>6
<1> QED
  BY <1>5, <1>6

\* A round trip without an answer hands over, concludes, or changes no fate.
LEMMA UnansweredMaps ==
  ASSUME IInv, TypeOK', NEW next \in {"read", "dead", "off"}, Unanswered(next)
  PROVE  Delivery!Next \/ UNCHANGED [e \in Entries |-> FateOf(e)]
<1>1. batch' = {}
  BY DEF Unanswered
<1>2. CASE task = "store" /\ UNCHANGED <<stream, rows>>
  <2>1. Delivery!Conclude("lost") \/ UNCHANGED [e \in Entries |-> FateOf(e)]
    BY <1>1, <1>2, ConcludeMaps DEF stream
  <2> QED
    BY <2>1 DEF Delivery!Next
<1>3. CASE task # "store" /\ UNCHANGED <<stream, rows>>
  BY <1>1, <1>3, StutterMaps DEF stream
<1>4. CASE task = "ensure" /\ CreateGroup
  BY <1>1, <1>4, StutterMaps DEF CreateGroup
<1>5. CASE task = "read" /\ DeliverAvailable
  <2>1. batch = {}
    BY <1>5 DEF IInv, BatchInv
  <2>2. Delivery!HandOver("lost")
    BY <1>1, <1>5, <2>1, DeliverMaps
  <2> QED
    BY <2>2 DEF Delivery!Next
<1>6. CASE task = "store" /\ StoreBatch
  <2>1. Delivery!Conclude("stored") \/ UNCHANGED [e \in Entries |-> FateOf(e)]
    BY <1>1, <1>6, ConcludeMaps DEF StoreBatch, stream
  <2> QED
    BY <2>1 DEF Delivery!Next
<1>7. CASE task = "ack" /\ AckBatch
  BY <1>1, <1>7, StutterMaps DEF AckBatch
<1> QED
  BY <1>2, <1>3, <1>4, <1>5, <1>6, <1>7 DEF Unanswered

\* Losing the stream discards what waited in it.
LEMMA LossMaps ==
  ASSUME IInv, RedisLosesData
  PROVE  Delivery!Next \/ UNCHANGED [e \in Entries |-> FateOf(e)]
<1> DEFINE waiting == {e \in (trimmed + 1)..published : e \notin handed}
<1>1. Delivery!With("waiting") = waiting
  BY FateSets DEF IInv
<1>2. /\ published \in Nat /\ trimmed \in Nat /\ handed \subseteq 1..published
      /\ rows \subseteq handed /\ trimmed' = published
      /\ UNCHANGED <<published, handed, batch, rows>>
  BY ConsumerAssumption DEF IInv, TypeOK, RedisLosesData
<1>3. ASSUME NEW e \in Entries
      PROVE  FateOf(e)' = IF e \in waiting THEN "discarded" ELSE FateOf(e)
  BY <1>2, ConsumerAssumption DEF FateOf, Entries
<1>4. [e \in Entries |-> FateOf(e)]'
        = [e \in Delivery!Events |->
             IF e \in waiting THEN "discarded" ELSE [d \in Entries |-> FateOf(d)][e]]
  BY <1>3 DEF Delivery!Events, Entries
<1>5. CASE waiting # {}
  BY <1>1, <1>4, <1>5 DEF Delivery!Discard, Delivery!Settle, Delivery!Next
<1>6. CASE waiting = {}
  BY <1>3, <1>6
<1> QED
  BY <1>5, <1>6

\* Adding an entry makes it wait, and discards the first of those that waited.
LEMMA PublishMaps ==
  ASSUME IInv, Publish
  PROVE  Delivery!Next
<1> DEFINE waiting == {e \in (trimmed + 1)..published : e \notin handed}
           gone == {e \in waiting : e <= trimmed'}
<1>1. /\ Delivery!With("waiting") = waiting
      /\ Delivery!With("unpublished") = (published + 1)..N
  BY FateSets DEF IInv
<1>2. /\ published \in Nat /\ trimmed \in Nat /\ N \in Nat /\ published < N
      /\ handed \subseteq 1..published /\ rows \subseteq handed /\ trimmed <= published
      /\ published' = published + 1
      /\ trimmed' \in Int /\ trimmed' >= trimmed /\ trimmed' <= published
      /\ UNCHANGED <<handed, batch, rows>>
  BY ConsumerAssumption DEF IInv, TypeOK, Publish
<1>3. /\ published + 1 \in Delivery!With("unpublished")
      /\ \A d \in Delivery!With("unpublished") : published + 1 <= d
  BY <1>1, <1>2
<1>4. gone \in SUBSET Delivery!With("waiting") /\ Delivery!FirstWaiting(gone)
  BY <1>1, <1>2 DEF Delivery!FirstWaiting
<1>5. ASSUME NEW e \in Entries
      PROVE  FateOf(e)' = IF e = published + 1 THEN "waiting"
                          ELSE IF e \in gone THEN "discarded" ELSE FateOf(e)
  <2>1. e \in Int /\ e >= 1
    BY <1>2 DEF Entries
  <2>2. CASE e \in handed
    BY <1>2, <2>1, <2>2 DEF FateOf
  <2>3. CASE e \notin handed
    BY <1>2, <2>1, <2>3 DEF FateOf
  <2> QED
    BY <2>2, <2>3
<1>6. [e \in Entries |-> FateOf(e)]'
        = [d \in Delivery!Events |->
             IF d = published + 1 THEN "waiting"
             ELSE IF d \in gone THEN "discarded" ELSE [e \in Entries |-> FateOf(e)][d]]
  BY <1>5 DEF Delivery!Events, Entries
<1>7. Delivery!Publish
  BY <1>3, <1>4, <1>6 DEF Delivery!Publish
<1> QED
  BY <1>7 DEF Delivery!Next

\* The consumer implements EventDelivery: for any stream, batch size and
\* sequence of failures, entries leave in order, batches are all or nothing,
\* and a fate is final.
THEOREM ConsumerDelivers == Spec => DeliverySpec
<1>1. Init => Delivery!Init
  <2> SUFFICES ASSUME Init
               PROVE  Delivery!Init
    OBVIOUS
  <2>1. ASSUME NEW e \in Entries
        PROVE  FateOf(e) = "unpublished"
    BY ConsumerAssumption DEF Init, FateOf, Entries
  <2> QED
    BY <2>1 DEF Delivery!Init, Delivery!Events, Entries
<1>2. IInv /\ TypeOK' /\ [Next]_vars => [Delivery!Next]_([e \in Entries |-> FateOf(e)])
  <2> SUFFICES ASSUME IInv, TypeOK', [Next]_vars
               PROVE  Delivery!Next \/ UNCHANGED [e \in Entries |-> FateOf(e)]
    OBVIOUS
  <2>1. CASE Start \/ EnsureGroup \/ Ack \/ UNCHANGED vars
    BY <2>1, StutterMaps
       DEF Start, EnsureGroup, CreateGroup, Ack, AckBatch, vars, stream
  <2>2. CASE Read
    <3>1. batch = {}
      BY <2>2 DEF Read, IInv, BatchInv
    <3>2. Delivery!HandOver("inflight")
      BY <2>2, <3>1, DeliverMaps DEF Read
    <3> QED
      BY <3>2 DEF Delivery!Next
  <2>3. CASE Store
    <3>1. Delivery!Conclude("stored") \/ UNCHANGED [e \in Entries |-> FateOf(e)]
      BY <2>3, ConcludeMaps DEF Store, StoreBatch, stream
    <3> QED
      BY <3>1 DEF Delivery!Next
  <2>4. CASE ReadFails \/ TaskDies \/ ProcessStops
    BY <2>4, UnansweredMaps DEF ReadFails, TaskDies, ProcessStops
  <2>5. CASE RedisLosesData
    BY <2>5, LossMaps
  <2>6. CASE Publish
    BY <2>6, PublishMaps
  <2> QED
    BY <2>1, <2>2, <2>3, <2>4, <2>5, <2>6 DEF Next, TaskStep
<1> QED
  BY <1>1, <1>2, InvInductive, TypeCorrect, PTL DEF Spec, DeliverySpec, Delivery!Spec
=============================================================================
