--------------------------- MODULE PlateNormalizer ---------------------------
(***************************************************************************)
(* What counts as a plate (services/inference/plate_normalizer.py).        *)
(*                                                                         *)
(* A text is a sequence of characters.  A format is a sequence of sets of  *)
(* characters, one per position: the two regular expressions and the list  *)
(* of state codes accept sets of fixed-format texts, and only membership   *)
(* matters to the callers.  The region is a function of the text.          *)
(***************************************************************************)
EXTENDS Integers, Sequences

CONSTANTS
  Formats,      \* the accepted formats
  Confusables,  \* character |-> the character OCR mistakes it for
  NoPlate       \* what normalize returns for a text it rejects

Alphabet == UNION UNION {{f[i] : i \in DOMAIN f} : f \in Formats}

ASSUME FormatsAssumption == \A f \in Formats : f \in Seq(SUBSET Alphabet)

\* _region_of(plate) is not None
IsValid(text) ==
  \E f \in Formats : Len(f) = Len(text) /\ \A i \in DOMAIN f : text[i] \in f[i]

\* text with the character at i replaced by the one it is mistaken for
Swapped(text, i) == [text EXCEPT ![i] = Confusables[text[i]]]

Correctable(text) ==
  {i \in DOMAIN text : text[i] \in DOMAIN Confusables /\ IsValid(Swapped(text, i))}

\* only the first position that can be corrected is tried at all
CorrectedMutant(text) == Swapped(text, CHOOSE i \in DOMAIN text : \A j \in DOMAIN text : i <= j)

\* _try_single_char_corrections: the leftmost correction that gives a plate
Corrected(text) ==
  Swapped(text, CHOOSE i \in Correctable(text) : \A j \in Correctable(text) : i <= j)

Normalize(text) ==
  IF IsValid(text) THEN text
  ELSE IF Correctable(text) # {} THEN Corrected(text)
  ELSE NoPlate
=============================================================================
