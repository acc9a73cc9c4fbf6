---------------------------- MODULE EventDelivery ----------------------------
(***************************************************************************)
(* What the path from a Redis stream to a table promises for each event:   *)
(*                                                                         *)
(*   unpublished -> waiting -> inflight -> stored                          *)
(*                     |           |                                       *)
(*                     |           +-----> lost                            *)
(*                     +-----> skipped, lost or discarded                  *)
(*                                                                         *)
(* Events leave the stream in order and in batches, a batch is stored or   *)
(* lost as a whole, and the last fate of an event is final: it is stored   *)
(* at most once, and an event that was lost is not delivered again.        *)
(***************************************************************************)
EXTENDS Integers

CONSTANTS
  N,          \* events, numbered in the order of the stream
  Malformed,  \* those no consumer can parse
  BatchSize   \* most events delivered at a time

VARIABLE fate

Events == 1..N

Fates ==
  {"unpublished", "waiting", "inflight", "stored", "skipped", "lost", "discarded"}

With(f) == {e \in Events : fate[e] = f}

Init == fate = [e \in Events |-> "unpublished"]

\* the events of S get the fate f, the others keep theirs
Settle(S, f) == fate' = [e \in Events |-> IF e \in S THEN f ELSE fate[e]]

\* S is a first part of the events that wait
FirstWaiting(S) ==
  /\ S \subseteq With("waiting")
  /\ \A e \in S, d \in With("waiting") : d < e => d \in S

\* the next event is added to the stream, which may push out its oldest ones
Publish ==
  \E e \in With("unpublished"), S \in SUBSET With("waiting") :
    /\ \A d \in With("unpublished") : e <= d
    /\ FirstWaiting(S)
    /\ fate' = [d \in Events |-> IF d = e THEN "waiting"
                                 ELSE IF d \in S THEN "discarded" ELSE fate[d]]

\* the first events are handed to the consumer, which skips the malformed ones;
\* the others reach it, or do not
HandOver(f) ==
  /\ With("inflight") = {}
  /\ \E S \in SUBSET With("waiting") :
       /\ S # {}
       /\ FirstWaiting(S)
       /\ \A e, d \in S : e - d < BatchSize
       /\ fate' = [e \in Events |-> IF e \notin S THEN fate[e]
                                    ELSE IF e \in Malformed THEN "skipped" ELSE f]

\* the batch in flight is stored, or lost, as a whole
Conclude(f) == With("inflight") # {} /\ Settle(With("inflight"), f)

\* the stream loses what it holds
Discard == With("waiting") # {} /\ Settle(With("waiting"), "discarded")

Next ==
  \/ Publish
  \/ HandOver("inflight")
  \/ HandOver("lost")
  \/ Conclude("stored")
  \/ Conclude("lost")
  \/ Discard

Spec == Init /\ [][Next]_fate
=============================================================================
