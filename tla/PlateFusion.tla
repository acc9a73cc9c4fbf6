----------------------------- MODULE PlateFusion -----------------------------
(***************************************************************************)
(* Temporal fusion of the plate reads of one track                         *)
(* (services/inference/temporal_fusion.py).                                *)
(*                                                                         *)
(* An observation is [text, weight, conf]: weight is the product of the    *)
(* three scores, conf the lesser of detector and OCR confidence, both in   *)
(* whole units (conf and every confidence below in percent), so a quotient *)
(* is rounded down where the code keeps a float.                           *)
(***************************************************************************)
EXTENDS PlateNormalizer, FiniteSets

CONSTANTS
  MinObservations,  \* TEMPORAL_FUSION_MIN_OBSERVATIONS_FOR_PUBLISH
  MaxObservations   \* TEMPORAL_FUSION_MAX_OBSERVATIONS

ASSUME ObservationBounds ==
  MinObservations \in Nat /\ MaxObservations \in Nat \ {0}

\* A PlateObservation: normalize() let its text through, the scores are
\* probabilities.
IsObservation(o) ==
  /\ o.text \in Seq(Alphabet)
  /\ o.text # NoPlate
  /\ IsValid(o.text)
  /\ o.weight \in Nat
  /\ o.conf \in 0..100

\* new_buffer(): a deque(maxlen=...); a full one drops its oldest read
Appended(buffer, o) ==
  Append(IF Len(buffer) < MaxObservations THEN buffer ELSE Tail(buffer), o)

\* A list of reads chosen from a buffer s is the set of their places in it.

\* what the numbers of f add up to over the places in I
Total(f, I) ==
  LET sum[n \in 0..Len(f)] ==
        IF n = 0 THEN 0 ELSE sum[n - 1] + (IF n \in I THEN f[n] ELSE 0)
  IN sum[Len(f)]

Weight(s, I) == Total([i \in DOMAIN s |-> s[i].weight], I)

\* Python's max(): the place of I with the greatest score, the first of equals
FirstMax(score, I) ==
  CHOOSE i \in I : \A j \in I : score[j] < score[i] \/ (score[j] = score[i] /\ i <= j)

\* obs_list: the reads that count at all
Weighty(s) == {i \in DOMAIN s : s[i].weight > 0}

OfLength(s, n) == {i \in Weighty(s) : Len(s[i].text) = n}

\* the reads of the length whose reads weigh most on average
CandidatesMutant(s) ==
  LET heaviest == FirstMax([i \in Weighty(s) |->
                              Weight(s, OfLength(s, Len(s[i].text)))
                                \div Cardinality(OfLength(s, Len(s[i].text)))],
                           Weighty(s))
  IN OfLength(s, Len(s[heaviest].text))

\* the reads of the text length that has the most total weight
Candidates(s) ==
  LET heaviest ==
        FirstMax([i \in Weighty(s) |-> Weight(s, OfLength(s, Len(s[i].text)))], Weighty(s))
  IN OfLength(s, Len(s[heaviest].text))

\* the reads of C that have the same character at k as the read i
Ballot(s, C, i, k) == {j \in C : s[j].text[k] = s[i].text[k]}

\* one vote per read, whatever its weight
CharVoteMutant(s, C) ==
  [k \in DOMAIN s[CHOOSE i \in C : TRUE].text |->
    s[FirstMax([i \in C |-> Cardinality(Ballot(s, C, i, k))], C)].text[k]]

\* _char_vote_fuse: per position, the character with the most weight
CharVote(s, C) ==
  [k \in DOMAIN s[CHOOSE i \in C : TRUE].text |->
    s[FirstMax([i \in C |-> Weight(s, Ballot(s, C, i, k))], C)].text[k]]

\* the vote is published as it is
FusedTextMutant(s, C) == CharVote(s, C)

\* the vote if it is, or can be corrected into, a plate; else the best read
FusedText(s, C) ==
  IF Normalize(CharVote(s, C)) # NoPlate THEN Normalize(CharVote(s, C))
  ELSE s[FirstMax([i \in C |-> s[i].weight], C)].text

Agreeing(s, C, text) == {i \in C : s[i].text = text}

\* weighted_confidence: how much of the weight, and how surely, says text
BaseConfidence(s, C, text) ==
  Total([i \in DOMAIN s |-> s[i].weight * s[i].conf], Agreeing(s, C, text)) \div Weight(s, C)

\* nothing bounds the bonus for repetition
ConfidenceMutant(s, C, text) ==
  BaseConfidence(s, C, text) + 2 * (Cardinality(Agreeing(s, C, text)) - 1)

Confidence(s, C, text) ==
  LET bonus == 2 * (Cardinality(Agreeing(s, C, text)) - 1)
      sum == BaseConfidence(s, C, text) + (IF bonus < 8 THEN bonus ELSE 8)
  IN IF sum < 99 THEN sum ELSE 99

\* what fuse() returns if it has no plate
NoFusion == [text |-> NoPlate]

\* fuse(): the consensus of a buffer of observations, or none
Fuse(s) ==
  LET C == Candidates(s)
      text == FusedText(s, C)
  IN IF Weighty(s) = {} \/ Cardinality(Weighty(s)) < MinObservations THEN NoFusion
     ELSE [ text |-> text,
            confidence |-> Confidence(s, C, text),
            observations |-> Cardinality(Weighty(s)),
            agreeing |-> Cardinality(Agreeing(s, C, text)),
            candidates |-> Cardinality(C) ]
=============================================================================
