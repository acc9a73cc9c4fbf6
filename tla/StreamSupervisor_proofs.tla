---------------------- MODULE StreamSupervisor_proofs -----------------------
(***************************************************************************)
(* Proofs about StreamSupervisor: for any cameras, sources and faults, what *)
(* go2rtc has open and the catalogue as last read differ only where the     *)
(* supervisor has reason to suspect it.                                     *)
(***************************************************************************)
EXTENDS StreamSupervisor, TLAPS

Reconciling == pollPc \in {"remove", "push"}

\* While a reconciliation is under way its target and what is still pending
\* may differ, too.
MirrorInv ==
  \A c \in Cameras :
    \/ streams[c] = Wanted(c)
    \/ c \in suspect
    \/ Reconciling /\ c \in pending \cup {target}

IInv == TypeOK /\ MirrorInv

-----------------------------------------------------------------------------
\* A call leaves every other stream alone, and the one it is about right or
\* suspect.
LEMMA CallFacts ==
  ASSUME TypeOK, NEW c \in Cameras, NEW source \in Sources \cup {Absent}, Call(c, source)
  PROVE  /\ streams' \in Listing /\ suspect' \subseteq Cameras /\ faults' \in Nat
         /\ \A d \in Cameras \ {c} : streams'[d] = streams[d] /\ (d \in suspect' <=> d \in suspect)
         /\ streams'[c] = Wanted(c) \/ c \in suspect'
<1>1. /\ streams' \in {streams, [streams EXCEPT ![c] = source]}
      /\ suspect' \in {suspect \ {c}, suspect \cup {c}}
      /\ faults' \in {faults, faults + 1}
  BY DEF Call
<1>2. c \in suspect' \/ (streams' = [streams EXCEPT ![c] = source] /\ source = Wanted(c))
  BY DEF Call
<1> QED
  BY <1>1, <1>2 DEF TypeOK, Listing

\* What the supervisor goes on with after an answer is well typed.
LEMMA ProceedTypes ==
  ASSUME TypeOK, NEW new \in Listing, NEW left \in SUBSET Cameras, Proceed(new, left), Reenter,
         pollPc = "remove" => target \in Cameras
  PROVE  /\ cameras' \in Listing /\ yaml' \in Listing /\ latest' \in Listing
         /\ pending' \subseteq Cameras
         /\ target' \in Cameras \cup {Nobody}
         /\ target' # Nobody <=> pollPc' \in {"remove", "push"}
         /\ pollPc' \in {"sleep", "remove", "push"}
         /\ healthPc' \in {"sleep", healthPc} /\ (healthPc = "push" <=> healthPc' = "push")
         /\ known' \subseteq Cameras /\ waiting' \subseteq Cameras /\ ripe' \subseteq Cameras
         /\ failures' \in [Cameras -> 0..(MaxExponent + 1)]
<1>1. CASE left = {} /\ pollPc' = "sleep"
  <2>1. /\ cameras' = new /\ yaml' = new /\ latest' = Empty /\ pending' = {} /\ target' = Nobody
        /\ healthPc' = IF healthPc = "off" THEN "sleep" ELSE healthPc
    BY <1>1 DEF Proceed
  <2> QED
    BY <1>1, <2>1, MaxExponentAssumption DEF Reenter, TypeOK, Listing, Empty
<1>2. CASE left # {}
  <2>1. PICK c \in left :
          /\ latest' = new
          /\ pollPc' \in {"remove", "push"}
          /\ pending' = left \ {c} /\ target' = c
          /\ UNCHANGED <<cameras, yaml, healthPc>>
    BY <1>2 DEF Proceed
  <2> QED
    BY <2>1, NobodyAssumption, MaxExponentAssumption DEF Reenter, TypeOK, Listing
<1> QED
  BY <1>1, <1>2 DEF Proceed

\* So is what a health check leaves at its next call.
LEMMA ExamineTypes ==
  ASSUME TypeOK, NEW list \in Listing, NEW up \in SUBSET Cameras, NEW due \in SUBSET Cameras,
         Examine(list, up, due)
  PROVE  /\ healthPc' \in {"sleep", "raised", "push"}
         /\ snapshot' \in Listing /\ active' \subseteq Cameras /\ ripe' \subseteq Cameras
         /\ repush' \in Cameras \cup {Nobody} /\ (repush' # Nobody <=> healthPc' = "push")
         /\ known' \subseteq Cameras /\ waiting' \subseteq Cameras
         /\ failures' \in [Cameras -> 0..(MaxExponent + 1)]
<1> DEFINE seen(passed, c) == IF c \in passed \cap up THEN 0 ELSE failures[c]
<1>0. \A passed \in SUBSET Cameras, c \in Cameras : seen(passed, c) \in 0..(MaxExponent + 1)
  BY MaxExponentAssumption DEF TypeOK
<1>1. PICK passed \in SUBSET Listed(list) :
        \/ /\ healthPc' = "sleep"
           /\ snapshot' = Empty /\ active' = {} /\ ripe' = {} /\ repush' = Nobody
           /\ known' = known \cup passed
           /\ failures' = [c \in Cameras |-> seen(passed, c)]
           /\ UNCHANGED waiting
        \/ \E c \in Listed(list) \ passed :
             /\ known' = known \cup passed \cup {c}
             /\ IF Overflows(failures[c] + 1)
                THEN /\ healthPc' = "raised"
                     /\ snapshot' = Empty /\ active' = {} /\ ripe' = {} /\ repush' = Nobody
                     /\ failures' = [d \in Cameras |-> seen(passed, d)]
                     /\ UNCHANGED waiting
                ELSE /\ healthPc' = "push"
                     /\ snapshot' = [d \in Cameras |->
                                       IF d \in Listed(list) \ passed THEN list[d] ELSE Absent]
                     /\ active' = up /\ ripe' = due /\ repush' = c
                     /\ failures' = [d \in Cameras |->
                                       IF d = c THEN failures[c] + 1 ELSE seen(passed, d)]
                     /\ waiting' = waiting \cup {c}
  BY DEF Examine
<1>2. passed \in SUBSET Cameras
  BY DEF Listed
<1>3. CASE healthPc' = "sleep"
  <2>1. failures' = [c \in Cameras |-> seen(passed, c)]
    BY <1>1, <1>3
  <2>2. failures' \in [Cameras -> 0..(MaxExponent + 1)]
    BY <2>1, <1>0, <1>2
  <2> QED
    BY <1>1, <1>2, <1>3, <2>2 DEF TypeOK, Listing, Empty, Listed
<1>4. CASE healthPc' = "raised"
  <2>1. failures' = [c \in Cameras |-> seen(passed, c)]
    BY <1>1, <1>4
  <2>2. failures' \in [Cameras -> 0..(MaxExponent + 1)]
    BY <2>1, <1>0, <1>2
  <2> QED
    BY <1>1, <1>2, <1>4, <2>2 DEF TypeOK, Listing, Empty, Listed
<1>5. CASE healthPc' = "push"
  <2>1. PICK c \in Listed(list) \ passed :
          /\ ~Overflows(failures[c] + 1)
          /\ known' = known \cup passed \cup {c}
          /\ snapshot' = [d \in Cameras |->
                            IF d \in Listed(list) \ passed THEN list[d] ELSE Absent]
          /\ active' = up /\ ripe' = due /\ repush' = c
          /\ failures' = [d \in Cameras |-> IF d = c THEN failures[c] + 1 ELSE seen(passed, d)]
          /\ waiting' = waiting \cup {c}
    BY <1>1, <1>5
  <2>2. c \in Cameras
    BY DEF Listed
  <2>3. failures[c] + 1 \in 0..(MaxExponent + 1)
    BY <2>1, <2>2, MaxExponentAssumption DEF Overflows, TypeOK
  <2>4. failures' \in [Cameras -> 0..(MaxExponent + 1)]
    BY <2>1, <2>3, <1>0, <1>2
  <2> QED
    BY <1>2, <1>5, <2>1, <2>2, <2>4, NobodyAssumption DEF TypeOK, Listing
<1> QED
  BY <1>1, <1>3, <1>4, <1>5

\* Going on preserves the mirror when all that is not left to do is right.
LEMMA ProceedMirrors ==
  ASSUME NEW new, NEW left, Proceed(new, left),
         \A c \in Cameras : streams'[c] = new[c] \/ c \in suspect' \/ c \in left
  PROVE  MirrorInv'
<1>1. CASE left = {} /\ pollPc' = "sleep" /\ cameras' = new
  BY <1>1 DEF MirrorInv, Wanted
<1>2. CASE \E c \in left : /\ pollPc' \in {"remove", "push"} /\ latest' = new
                          /\ pending' = left \ {c} /\ target' = c
  BY <1>2 DEF MirrorInv, Wanted, Reconciling
<1> QED
  BY <1>1, <1>2 DEF Proceed

\* Where the catalogue as last read does not change, a call keeps the mirror.
LEMMA CallMirrors ==
  ASSUME TypeOK, MirrorInv, NEW c \in Cameras, NEW source \in Sources \cup {Absent},
         Call(c, source), UNCHANGED <<pollVars, cameras>>
  PROVE  MirrorInv'
<1>1. \A d \in Cameras : Wanted(d)' = Wanted(d)
  BY DEF Wanted, pollVars
<1> QED
  BY <1>1, CallFacts DEF MirrorInv, Reconciling, pollVars

\* The invariant holds, for any cameras, sources and numbers of faults.
THEOREM InvariantHolds == Spec => []IInv
<1>1. ASSUME Init PROVE IInv
  <2>1. TypeOK
    BY <1>1, NobodyAssumption, MaxExponentAssumption DEF Init, TypeOK, Listing, Empty
  <2>2. MirrorInv
    BY <1>1 DEF Init, MirrorInv, Wanted
  <2> QED
    BY <2>1, <2>2 DEF IInv
<1>2. ASSUME IInv, [Next]_vars
      PROVE  IInv'
  <2> USE <1>2 DEF IInv
  <2>1. CASE PollWake \/ Start
    <3>1. /\ pollPc \in {"sleep", "down"} /\ pollPc' = "fetch"
          /\ UNCHANGED <<external, streams, yaml, cameras, backoff, latest, pending, target,
                         healthVars, suspect, faults>>
      BY <2>1 DEF PollWake, Start
    <3>2. TypeOK'
      BY <3>1 DEF TypeOK, external, backoff, healthVars
    <3>3. MirrorInv'
      BY <3>1 DEF MirrorInv, Wanted, Reconciling
    <3> QED
      BY <3>2, <3>3
  <2>2. CASE Fetched
    <3>1. PICK new \in {catalogue} : Proceed(new, Differences(new))
      BY <2>2 DEF Fetched
    <3>2. new \in Listing /\ Differences(new) \in SUBSET Cameras
      BY <3>1 DEF TypeOK, Differences
    <3>3. TypeOK'
      BY <2>2, <3>1, <3>2, ProceedTypes DEF Fetched, TypeOK, external
    <3>4. \A c \in Cameras : streams'[c] = new[c] \/ c \in suspect' \/ c \in Differences(new)
      BY <2>2 DEF Fetched, MirrorInv, Wanted, Reconciling, Differences
    <3> QED
      BY <3>1, <3>3, <3>4, ProceedMirrors
  <2>3. CASE FetchFails
    <3>1. TypeOK'
      BY <2>3 DEF FetchFails, TypeOK, external, backoff
    <3>2. MirrorInv'
      BY <2>3 DEF FetchFails, MirrorInv, Wanted, Reconciling
    <3> QED
      BY <3>1, <3>2
  <2>4. CASE Reconciled
    <3>1. /\ target \in Cameras /\ latest[target] \in Sources \cup {Absent}
          /\ latest \in Listing /\ pending \in SUBSET Cameras
      BY <2>4 DEF Reconciled, TypeOK, Listing
    <3>2. Wanted(target) = latest[target] /\ \A c \in Cameras : Wanted(c) = latest[c]
      BY <2>4, <3>1 DEF Reconciled, Wanted
    <3>3. TypeOK'
      BY <2>4, <3>1, CallFacts, ProceedTypes DEF Reconciled, TypeOK, external
    <3>4. \A c \in Cameras : streams'[c] = latest[c] \/ c \in suspect' \/ c \in pending
      BY <2>4, <3>1, <3>2, CallFacts DEF Reconciled, MirrorInv
    <3> QED
      BY <2>4, <3>3, <3>4, ProceedMirrors DEF Reconciled
  <2>5. CASE HealthWake \/ ListFails
    <3>1. TypeOK'
      BY <2>5 DEF HealthWake, ListFails, TypeOK, external, backoff, pollVars
    <3>2. MirrorInv'
      BY <2>5 DEF HealthWake, ListFails, MirrorInv, Wanted, Reconciling, pollVars
    <3> QED
      BY <3>1, <3>2
  <2>6. CASE StreamsListed
    <3>1. PICK up \in SUBSET Listed(streams) : Examine(cameras, up, known \ waiting)
      BY <2>6 DEF StreamsListed
    <3>2. up \in SUBSET Cameras /\ known \ waiting \in SUBSET Cameras /\ cameras \in Listing
      BY <3>1 DEF Listed, TypeOK
    <3>3. TypeOK'
      BY <2>6, <3>1, <3>2, ExamineTypes DEF StreamsListed, TypeOK, external, pollVars
    <3>4. MirrorInv'
      BY <2>6 DEF StreamsListed, MirrorInv, Wanted, Reconciling, pollVars
    <3> QED
      BY <3>3, <3>4
  <2>7. CASE Repushed
    <3>1. /\ repush \in Cameras /\ snapshot[repush] \in Sources \cup {Absent}
          /\ [snapshot EXCEPT ![repush] = Absent] \in Listing
          /\ active \in SUBSET Cameras /\ ripe \in SUBSET Cameras
      BY <2>7 DEF Repushed, TypeOK, Listing
    <3>2. TypeOK'
      BY <2>7, <3>1, CallFacts, ExamineTypes DEF Repushed, TypeOK, external, pollVars
    <3>3. MirrorInv'
      BY <2>7, <3>1, CallMirrors DEF Repushed
    <3> QED
      BY <3>2, <3>3
  <2>8. CASE HealthRaises \/ ProcessEnds
    <3>1. Die /\ faults' \in Nat
      BY <2>8 DEF HealthRaises, ProcessEnds, TypeOK
    <3>2. PICK after \in Listing : streams' = after /\ suspect' = Listed(after)
      BY <3>1 DEF Die
    <3>3. TypeOK'
      BY <3>1, <3>2, NobodyAssumption, MaxExponentAssumption
         DEF Die, TypeOK, Listing, Listed, Empty, external
    <3>4. MirrorInv'
      BY <3>1, <3>2 DEF Die, MirrorInv, Wanted, Listed, Empty
    <3> QED
      BY <3>3, <3>4
  <2>9. CASE RestreamerRestarts
    <3>1. TypeOK'
      BY <2>9 DEF RestreamerRestarts, TypeOK, external, backoff, pollVars, healthVars
    <3>2. \A c \in Cameras : Wanted(c)' = Wanted(c)
      BY <2>9 DEF RestreamerRestarts, Wanted, pollVars
    <3>3. MirrorInv'
      BY <2>9, <3>2 DEF RestreamerRestarts, MirrorInv
    <3> QED
      BY <3>1, <3>3
  <2>10. CASE EditCatalogue
    <3>1. TypeOK'
      BY <2>10 DEF EditCatalogue, TypeOK, Listing, backoff, pollVars, healthVars
    <3>2. MirrorInv'
      BY <2>10 DEF EditCatalogue, MirrorInv, Wanted, Reconciling, pollVars
    <3> QED
      BY <3>1, <3>2
  <2>11. ASSUME NEW c \in Cameras, WindowEnds(c)
         PROVE  IInv'
    <3>1. TypeOK'
      BY <2>11 DEF WindowEnds, TypeOK, external, pollVars, healthVars
    <3>2. MirrorInv'
      BY <2>11 DEF WindowEnds, MirrorInv, Wanted, Reconciling, pollVars
    <3> QED
      BY <3>1, <3>2
  <2>12. CASE UNCHANGED vars
    <3>1. TypeOK'
      BY <2>12 DEF vars, TypeOK, external, backoff, pollVars, healthVars
    <3>2. MirrorInv'
      BY <2>12 DEF vars, MirrorInv, Wanted, Reconciling, pollVars
    <3> QED
      BY <3>1, <3>2
  <2> QED
    BY <2>1, <2>2, <2>3, <2>4, <2>5, <2>6, <2>7, <2>8, <2>9, <2>10, <2>11, <2>12
       DEF Next, Poll, Health
<1> QED
  BY <1>1, <1>2, PTL DEF Spec

\* Every variable keeps its type.
THEOREM TypeCorrect == Spec => []TypeOK
BY InvariantHolds, PTL DEF IInv

\* Between two reconciliations go2rtc has open exactly the streams of the
\* catalogue as last read, but for the suspect ones (stream_manager.py,
\* points 1 and 4).
THEOREM AlwaysMirrorsCatalogue == Spec => []MirrorsCatalogue
<1>1. IInv => MirrorsCatalogue
  BY DEF IInv, MirrorInv, MirrorsCatalogue, Wanted, Reconciling
<1> QED
  BY <1>1, InvariantHolds, PTL
=============================================================================
