----------------------------- MODULE PlateBuffer -----------------------------
(***************************************************************************)
(* The observation buffer of one track: a bounded deque of validated plate *)
(* reads, fused anew after every read (temporal_fusion.py, new_buffer).    *)
(***************************************************************************)
EXTENDS PlateFusion

CONSTANT Observations  \* the reads a track can yield

ASSUME ObservationsAssumption == \A o \in Observations : IsObservation(o)

VARIABLE buffer

BufferInit == buffer = <<>>

Observe(o) == buffer' = Appended(buffer, o)

BufferNext == \E o \in Observations : Observe(o)

BufferSpec == BufferInit /\ [][BufferNext]_buffer

-----------------------------------------------------------------------------
Fused == Fuse(buffer)

\* The fused text is a valid plate however the characters were voted ("a
\* fusion result can never itself be a format the validator would reject").
FusedPlateIsValid == Fused # NoFusion => IsValid(Fused.text)

Saying(text) == {i \in DOMAIN buffer : buffer[i].text = text}

\* A text that has more than half of all the weight in the buffer is the one
\* that is fused: no split of the rest by length or by character outvotes it.
MajorityWins ==
  \A i \in DOMAIN buffer :
    /\ 2 * Weight(buffer, Saying(buffer[i].text)) > Weight(buffer, DOMAIN buffer)
    /\ Cardinality(Weighty(buffer)) >= MinObservations
    => Fused.text = buffer[i].text

\* Repetition alone never makes a read near-certain: the confidence is at most
\* 99 %, and at most 8 points above the surest single read that agrees.  A plate
\* that the votes made up of several reads and nobody read as such is the only
\* one published with a confidence below zero, its bonus being negative.
ConfidenceIsBacked ==
  Fused # NoFusion =>
    /\ Fused.confidence <= 99
    /\ Fused.agreeing = 0 <=> Fused.confidence < 0
    /\ Fused.agreeing > 0 =>
         \E i \in Saying(Fused.text) : Fused.confidence <= buffer[i].conf + 8

\* The plate fused from s is what was voted, or corrected from it, and not just
\* the best single read.
Voted(s) == Normalize(CharVote(s, Candidates(s))) # NoPlate

\* A full buffer drops its oldest read, which may have been what the plate rests
\* on: it does not if that read weighs nothing or has another length.
DropsNoEvidence(s) ==
  \/ Len(s) < MaxObservations
  \/ s[1].weight = 0
  \/ Len(s[1].text) # Len(Fuse(s).text)

\* The read o counts, says what is fused from s and is at least as sure of it.
Corroborates(o, s) ==
  o.weight > 0 /\ o.text = Fuse(s).text /\ o.conf >= Fuse(s).confidence

\* One more read of the plate that is fused, one that counts and is at least as
\* sure as the fusion, never changes the plate and never lowers its confidence,
\* unless the buffer is full and the read that it drops has a part in the vote.
\* (A plate that is only the best single read, the vote being none, can be
\* outvoted through a read that agrees with it.)
CorroborationHelps ==
  [][\A s \in {buffer}, b \in {buffer'} :
       Fuse(s) # NoFusion /\ Voted(s) /\ Corroborates(b[Len(b)], s) /\ DropsNoEvidence(s)
         => Fuse(b).text = Fuse(s).text /\ Fuse(b).confidence >= Fuse(s).confidence]_buffer

\* And whatever is dropped, which is what "more agreeing, independent observations
\* should increase confidence" says: false, once the buffer is full.
AgreementNeverHurts ==
  [][\A s \in {buffer}, b \in {buffer'} :
       Fuse(s) # NoFusion /\ Voted(s) /\ Corroborates(b[Len(b)], s)
         => Fuse(b).text = Fuse(s).text]_buffer
=============================================================================
